----------------------------- MODULE PollCycle -----------------------------
(***************************************************************************)
(* One poll of the SD-LAN poller (poller/main.py) over its state store     *)
(* (poller/state_store.py).  Every statement on the store is committed by  *)
(* itself, while the messages of a poll stay in memory until the end, when *)
(* they are inserted into the outbound queue: a poll that is cut short     *)
(* leaves the store ahead of the queue.                                    *)
(*                                                                         *)
(* Time is counted in poll intervals.  A device that was last recorded     *)
(* more than 2.5 intervals ago has vanished, so ages above 3 are one.      *)
(***************************************************************************)
EXTENDS Naturals, FiniteSets

CONSTANTS
    Devices,        \* device ids, that of the platform included
    Platform,       \* device_id of the orchestration platform
    Readings,       \* what assess_device and assess_platform may return
    MaxFailures,    \* bound on failed polls and crashes
    None            \* no row in the store, no message yet

Status == {"healthy", "degraded", "unhealthy"}
Gone == 3           \* an age above 2.5 intervals

Message == [kind : {"periodic", "transition"}, device : Devices, status : Status]

ASSUME PlatformAssumption == Platform \in Devices
ASSUME ReadingsAssumption == Readings \subseteq Status
ASSUME FailuresAssumption == MaxFailures \in Nat
ASSUME NoneAssumption == None \notin Status \cup [status : Status, age : 0..Gone]

VARIABLES
    store,      \* table device_state: status, and the age of last_seen
    ppc,        \* where the poll thread is
    report,     \* the devices of this poll still to be recorded
    seen,       \* seen_ids, and the platform once it has answered
    messages,   \* the messages of this poll, in memory; their order is that
                \* of the report, which is left open
    told,       \* history: what the messages queued for a device add up to
    orphaned,   \* history: devices whose last change was not queued
    absent,     \* history: reports in a row that a device was not in
    alarms,     \* history: how often flagged since last in a report
    failures    \* history: failed polls and crashes

vars == <<store, ppc, report, seen, messages, told, orphaned, absent, alarms,
          failures>>

-----------------------------------------------------------------------------
(* The state store.                                                        *)

Least(a, b) == IF a <= b THEN a ELSE b

\* k intervals pass.
Aged(k) == [d \in Devices |->
              IF store[d] = None THEN None
              ELSE [store[d] EXCEPT !.age = Least(@ + k, Gone)]]

\* StateStore.record of device d.
Record(d, status) ==
    store' = [store EXCEPT ![d] = [status |-> status, age |-> 0]]

Changed(d, status) == store[d] # None /\ store[d].status # status

\* Mutant of MessagesFor: the comparison is with the status of the last poll
\* that found the device healthy.
MessagesForProblems(d, status) ==
    LET of(kind) == [kind |-> kind, device |-> d, status |-> status]
    IN  IF Changed(d, status) /\ status # "healthy"
        THEN {of("periodic"), of("transition")} ELSE {of("periodic")}

\* A periodic message for each device, and a transition if it has changed.
MessagesFor(d, status) ==
    LET of(kind) == [kind |-> kind, device |-> d, status |-> status]
    IN  IF Changed(d, status) THEN {of("periodic"), of("transition")}
        ELSE {of("periodic")}

\* Mutants of Vanished: unhealthy devices too; only those that were healthy.
VanishedAgain == {d \in Devices : /\ store[d] # None /\ store[d].age = Gone
                                  /\ d \notin seen}
VanishedHealthy == {d \in Devices : /\ store[d] # None /\ store[d].age = Gone
                                    /\ d \notin seen /\ store[d].status = "healthy"}

\* devices_not_seen_since, less those that are skipped.
Vanished == {d \in Devices : /\ store[d] # None /\ store[d].age = Gone
                             /\ d \notin seen /\ store[d].status # "unhealthy"}

-----------------------------------------------------------------------------
(* A poll, statement by statement.                                         *)

\* How many intervals may have passed when a poll starts: the loop waits for
\* one; a process that starts polls at once, however long it was down.
Elapsed == IF ppc = "down" THEN 0..Gone ELSE {1}

\* networks() has answered, with some of the devices.  The platform answers
\* the status query later in the poll, or fails to.
StartPoll ==
    /\ ppc \in {"idle", "down"}
    /\ \E k \in Elapsed : store' = Aged(k)
    /\ \E listed \in SUBSET Devices :
        /\ report' \in [listed -> Readings]
        /\ seen' = listed
        /\ absent' = [d \in Devices |-> IF d \in listed THEN 0
                                        ELSE Least(absent[d] + 1, Gone)]
        /\ alarms' = [d \in Devices |-> IF d \in listed THEN 0 ELSE alarms[d]]
    /\ ppc' = "devices"
    /\ UNCHANGED <<messages, told, orphaned, failures>>

\* networks() raises: nothing was done, the loop waits for the next poll.
FailedPoll ==
    /\ ppc \in {"idle", "down"}
    /\ failures < MaxFailures
    /\ failures' = failures + 1
    /\ \E k \in Elapsed : store' = Aged(k)
    /\ ppc' = "idle"
    /\ UNCHANGED <<report, seen, messages, told, orphaned, absent, alarms>>

\* The next device of the report; the platform comes last.
RecordDevice(d) ==
    /\ ppc = "devices"
    /\ d \in DOMAIN report
    /\ d = Platform => DOMAIN report = {Platform}
    /\ Record(d, report[d])
    /\ messages' = messages \cup MessagesFor(d, report[d])
    /\ report' = [e \in DOMAIN report \ {d} |-> report[e]]
    /\ UNCHANGED <<ppc, seen, told, orphaned, absent, alarms, failures>>

\* A device that is no longer reported is recorded as unhealthy.
FlagVanished(d) ==
    /\ ppc = "devices" /\ DOMAIN report = {}
    /\ d \in Vanished
    /\ Record(d, "unhealthy")
    /\ messages' = messages \cup {[kind |-> "transition", device |-> d,
                                     status |-> "unhealthy"]}
    /\ alarms' = [alarms EXCEPT ![d] = @ + 1]
    /\ UNCHANGED <<ppc, report, seen, told, orphaned, absent, failures>>

\* The devices that ms tells something new of: a first sighting or a change.
ChangesIn(ms) == {m.device : m \in {n \in ms :
                     n.kind = "transition" \/ told[n.device] = None}}

\* What is known of each device when ms is queued too.  The messages of one
\* poll about a device carry the same status.
Told(ms) == [d \in Devices |->
               IF d \in ChangesIn(ms)
               THEN (CHOOSE m \in ms : m.device = d).status ELSE told[d]]

\* enqueue_many inserts the messages (and a heartbeat, which says nothing of
\* a device); the poll is over.
Enqueue ==
    /\ ppc = "devices" /\ DOMAIN report = {} /\ Vanished = {}
    /\ told' = Told(messages)
    /\ orphaned' = orphaned \ ChangesIn(messages)
    /\ messages' = {}
    /\ ppc' = "idle"
    /\ UNCHANGED <<store, report, seen, absent, alarms, failures>>

\* Mutant of CutShort: the messages are kept for the next poll.
CutShortKeeping ==
    /\ ppc = "devices"
    /\ failures < MaxFailures
    /\ failures' = failures + 1
    /\ ppc' = "idle"
    /\ UNCHANGED <<store, report, seen, messages, told, orphaned, absent, alarms>>

\* The poll is cut short by an exception, which the loop catches, or by the
\* end of the process.  executemany inserts row by row, so if it had begun
\* a part of the messages is in the queue, periodic before transition.
CutShort ==
    /\ ppc = "devices"
    /\ failures < MaxFailures
    /\ failures' = failures + 1
    /\ \E in \in SUBSET messages :
        /\ in # {} => DOMAIN report = {} /\ Vanished = {}
        /\ \A m \in in, n \in messages \ in :
            ~(m.device = n.device /\ m.kind = "transition" /\ n.kind = "periodic")
        /\ told' = Told(in)
        /\ orphaned' = (orphaned \ ChangesIn(in)) \cup ChangesIn(messages \ in)
    /\ messages' = {}
    /\ report' = <<>>
    /\ ppc' \in {"idle", "down"}
    /\ UNCHANGED <<store, seen, absent, alarms>>

\* The process ends between two polls.
Stop ==
    /\ ppc = "idle"
    /\ failures < MaxFailures
    /\ failures' = failures + 1
    /\ ppc' = "down"
    /\ UNCHANGED <<store, report, seen, messages, told, orphaned, absent, alarms>>

-----------------------------------------------------------------------------
Init ==
    /\ store = [d \in Devices |-> None]
    /\ ppc = "down"
    /\ report = <<>>
    /\ seen = {}
    /\ messages = {}
    /\ told = [d \in Devices |-> None]
    /\ orphaned = {}
    /\ absent = [d \in Devices |-> 0]
    /\ alarms = [d \in Devices |-> 0]
    /\ failures = 0

Poll == \/ StartPoll
        \/ \E d \in Devices : RecordDevice(d) \/ FlagVanished(d)
        \/ Enqueue

Next == Poll \/ FailedPoll \/ CutShort \/ Stop

\* The loop polls for ever and the service is started again when it ends;
\* failures are finitely many.
SafeSpec == Init /\ [][Next]_vars
Spec == SafeSpec /\ WF_vars(Poll)

-----------------------------------------------------------------------------
\* The types of the variables; a poll starts with no messages, and those about
\* one device agree.
TypeOK ==
    /\ store \in [Devices -> [status : Status, age : 0..Gone] \cup {None}]
    /\ ppc \in {"idle", "devices", "down"}
    /\ DOMAIN report \subseteq Devices
    /\ \A d \in DOMAIN report : report[d] \in Readings
    /\ seen \subseteq Devices
    /\ messages \subseteq Message
    /\ \A m, n \in messages : m.device = n.device => m.status = n.status
    /\ ppc # "devices" => messages = {}
    /\ told \in [Devices -> Status \cup {None}]
    /\ orphaned \subseteq Devices
    /\ absent \in [Devices -> 0..Gone]
    /\ alarms \in [Devices -> Nat]
    /\ failures \in 0..MaxFailures

\* "a transition for any device whose status changed since the last poll
\* (remembered on disk)" (poller/main.py): what was queued for a device and
\* what is about to be adds up to the status on disk, whatever changed,
\* vanished, came back, failed or restarted before.  The exception is a device
\* whose change was recorded by a poll that was cut short: nothing is sent
\* for it until it changes again.
QueueFollowsStore ==
    \A d \in Devices \ orphaned :
        Told(messages)[d] = IF store[d] = None THEN None ELSE store[d].status

\* A device that has vanished is flagged once, however long it stays away and
\* however often polls fail or the service restarts meanwhile.
OneAlarmPerAbsence == \A d \in Devices : alarms[d] <= 1

\* "Two missed polls, so one flaky response does not raise false alarms"
\* (poller/main.py): who is flagged was missing from two reports in a row.
FlakyReportRaisesNoAlarm == \A d \in Devices : alarms[d] > 0 => absent[d] >= 2

\* A known device that stays out of the reports for good is reported as
\* unhealthy in the end, unless a poll was cut short on it.
GoneIsReported ==
    \A d \in Devices :
        <>[](store[d] # None /\ d \notin seen)
            => <>(told[d] = "unhealthy" \/ d \in orphaned)

============================================================================
