-------------------------- MODULE PollCycleProofs --------------------------
(***************************************************************************)
(* What PollCycle guarantees for any number of devices and failures.       *)
(***************************************************************************)
EXTENDS PollCycle, TLAPS

USE PlatformAssumption, ReadingsAssumption, FailuresAssumption

-----------------------------------------------------------------------------
(* What messages add up to.                                                *)

Agree(ms) ==
    /\ ms \subseteq Message
    /\ \A m, n \in ms : m.device = n.device => m.status = n.status

\* A message that tells something new decides; the others change nothing.
LEMMA ToldByMessages ==
    ASSUME NEW ms, Agree(ms)
    PROVE  /\ \A m \in ms : m.device \in ChangesIn(ms) => Told(ms)[m.device] = m.status
           /\ \A d \in Devices \ ChangesIn(ms) : Told(ms)[d] = told[d]
<1>1. ASSUME NEW m \in ms, m.device \in ChangesIn(ms)
      PROVE  Told(ms)[m.device] = m.status
  <2>1. m.device \in Devices
    BY DEF Agree, Message
  <2>2. PICK n \in ms : n.device = m.device /\ n = (CHOOSE k \in ms : k.device = m.device)
    OBVIOUS
  <2>3. n.status = m.status
    BY <2>2 DEF Agree
  <2>4. QED
    BY <1>1, <2>1, <2>2, <2>3 DEF Told
<1>2. QED
  BY <1>1 DEF Told

\* The messages about one device decide what is known of it.
LEMMA ToldElsewhere ==
    ASSUME NEW ms, NEW more, NEW d \in Devices, Agree(ms \cup more),
           \A m \in more : m.device # d
    PROVE  Told(ms \cup more)[d] = Told(ms)[d]
<1>1. Agree(ms)
  BY DEF Agree
<1>2. d \in ChangesIn(ms \cup more) <=> d \in ChangesIn(ms)
  BY DEF ChangesIn
<1>3. CASE d \in ChangesIn(ms)
  <2>1. PICK m \in ms : m.device = d
    BY <1>3 DEF ChangesIn
  <2>2. Told(ms)[d] = m.status /\ Told(ms \cup more)[d] = m.status
    BY <1>1, <1>2, <1>3, <2>1, ToldByMessages
  <2>3. QED
    BY <2>2
<1>4. CASE d \notin ChangesIn(ms)
  BY <1>1, <1>2, <1>4, ToldByMessages
<1>5. QED
  BY <1>3, <1>4

LEMMA ToldIsStatus ==
    ASSUME NEW ms, Agree(ms), told \in [Devices -> Status \cup {None}]
    PROVE  Told(ms) \in [Devices -> Status \cup {None}]
<1> SUFFICES ASSUME NEW d \in Devices PROVE Told(ms)[d] \in Status \cup {None}
  BY DEF Told
<1>1. CASE d \in ChangesIn(ms)
  <2>1. PICK m \in ms : m.device = d
    BY <1>1 DEF ChangesIn
  <2>2. Told(ms)[d] = m.status /\ m.status \in Status
    BY <1>1, <2>1, ToldByMessages DEF Agree, Message
  <2>3. QED
    BY <2>2
<1>2. CASE d \notin ChangesIn(ms)
  BY <1>2, ToldByMessages
<1>3. QED
  BY <1>1, <1>2

\* The messages of RecordDevice carry the status that is recorded.
LEMMA MessagesForType ==
    ASSUME NEW d \in Devices, NEW s \in Status
    PROVE  /\ MessagesFor(d, s) \subseteq Message
           /\ \A m \in MessagesFor(d, s) : m.device = d /\ m.status = s
           /\ \E m \in MessagesFor(d, s) : m.kind = "periodic"
           /\ Changed(d, s) <=> \E m \in MessagesFor(d, s) : m.kind = "transition"
<1> DEFINE periodic == [kind |-> "periodic", device |-> d, status |-> s]
           transition == [kind |-> "transition", device |-> d, status |-> s]
<1>1. periodic \in Message /\ transition \in Message
  BY DEF Message
<1>2. /\ periodic.kind = "periodic" /\ transition.kind = "transition"
      /\ periodic.device = d /\ transition.device = d
      /\ periodic.status = s /\ transition.status = s
  OBVIOUS
<1>3. MessagesFor(d, s) = IF Changed(d, s) THEN {periodic, transition} ELSE {periodic}
  BY DEF MessagesFor
<1> HIDE DEF periodic, transition
<1>4. QED
  BY <1>1, <1>2, <1>3

-----------------------------------------------------------------------------
(* The inductive invariant.                                                *)

\* The messages of a poll agree with the store, and are not about devices
\* still to be recorded.
Pending ==
    \A m \in messages : /\ m.device \notin DOMAIN report
                        /\ store[m.device] = [status |-> m.status, age |-> 0]

\* Who was flagged since the last report is still recorded as unhealthy.
Flagged ==
    /\ \A d \in Devices : /\ alarms[d] <= 1
                          /\ alarms[d] > 0 => store[d] # None /\ store[d].status = "unhealthy"
    /\ \A d \in DOMAIN report : alarms[d] = 0

IInv == TypeOK /\ Pending /\ QueueFollowsStore /\ Flagged

LEMMA Numbers ==
    ASSUME TypeOK
    PROVE  /\ failures \in Nat
           /\ alarms \in [Devices -> Nat]
           /\ Agree(messages)
           /\ DOMAIN report \subseteq Devices
           /\ \A d \in DOMAIN report : report[d] \in Status
<1>1. failures \in 0..MaxFailures
  BY DEF TypeOK
<1>2. failures \in Nat
  BY <1>1
<1>3. QED
  BY <1>2 DEF TypeOK, Agree

LEMMA RecordType ==
    ASSUME store \in [Devices -> [status : Status, age : 0..Gone] \cup {None}],
           NEW d \in Devices, NEW s \in Status, Record(d, s)
    PROVE  /\ store' \in [Devices -> [status : Status, age : 0..Gone] \cup {None}]
           /\ store'[d] = [status |-> s, age |-> 0]
           /\ \A e \in Devices \ {d} : store'[e] = store[e]
<1>1. [status |-> s, age |-> 0] \in [status : Status, age : 0..Gone]
  BY DEF Gone
<1>2. QED
  BY <1>1 DEF Record

\* Ageing changes no status and forgets no device.
LEMMA AgedType ==
    ASSUME store \in [Devices -> [status : Status, age : 0..Gone] \cup {None}],
           NEW k \in Elapsed, store' = Aged(k)
    PROVE  /\ store' \in [Devices -> [status : Status, age : 0..Gone] \cup {None}]
           /\ \A d \in Devices : /\ store'[d] = None <=> store[d] = None
                                 /\ store[d] # None => store'[d].status = store[d].status
<1> SUFFICES ASSUME NEW d \in Devices
             PROVE  /\ store'[d] \in [status : Status, age : 0..Gone] \cup {None}
                    /\ store'[d] = None <=> store[d] = None
                    /\ store[d] # None => store'[d].status = store[d].status
  BY DEF Aged
<1>1. CASE store[d] = None
  BY <1>1 DEF Aged
<1>2. CASE store[d] # None
  <2>1. store[d] \in [status : Status, age : 0..Gone]
    BY <1>2
  <2>2. k \in 0..Gone
    BY DEF Elapsed, Gone
  <2>3. Least(store[d].age + k, Gone) \in 0..Gone
    BY <2>1, <2>2 DEF Least, Gone
  <2>4. store'[d] = [store[d] EXCEPT !.age = Least(store[d].age + k, Gone)]
    BY <1>2 DEF Aged
  <2>5. store'[d] \in [status : Status, age : 0..Gone] /\ store'[d].status = store[d].status
    BY <2>1, <2>3, <2>4
  <2>6. QED
    BY <1>2, <2>5, NoneAssumption
<1>3. QED
  BY <1>1, <1>2

LEMMA NoMessages ==
    /\ ChangesIn({}) = {} /\ Agree({})
    /\ \A d \in Devices : Told({})[d] = told[d]
BY DEF ChangesIn, Told, Agree

LEMMA InitIInv == Init => IInv
<1> SUFFICES ASSUME Init PROVE IInv
  OBVIOUS
<1>1. DOMAIN report = {}
  BY DEF Init
<1>2. TypeOK
  <2>1. absent \in [Devices -> 0..Gone] /\ failures \in 0..MaxFailures
    BY DEF Init, Gone
  <2>2. /\ store \in [Devices -> [status : Status, age : 0..Gone] \cup {None}]
        /\ told \in [Devices -> Status \cup {None}]
        /\ alarms \in [Devices -> Nat]
    BY DEF Init
  <2>3. QED
    BY <1>1, <2>1, <2>2 DEF Init, TypeOK
<1>3. QueueFollowsStore
  BY NoMessages DEF Init, QueueFollowsStore
<1>4. Pending /\ Flagged
  BY <1>1 DEF Init, Pending, Flagged
<1>5. QED
  BY <1>2, <1>3, <1>4 DEF IInv

-----------------------------------------------------------------------------
(* The steps.                                                              *)

LEMMA StartPollStep ==
    ASSUME IInv, StartPoll
    PROVE  IInv'
<1> USE DEF IInv, StartPoll
<1>1. messages = {}
  BY DEF TypeOK
<1>2. PICK k \in Elapsed : store' = Aged(k)
  OBVIOUS
<1>3. /\ store' \in [Devices -> [status : Status, age : 0..Gone] \cup {None}]
      /\ \A d \in Devices : /\ store'[d] = None <=> store[d] = None
                            /\ store[d] # None => store'[d].status = store[d].status
  BY <1>2, AgedType DEF TypeOK
<1>4. PICK listed \in SUBSET Devices :
        /\ report' \in [listed -> Readings]
        /\ seen' = listed
        /\ absent' = [d \in Devices |-> IF d \in listed THEN 0
                                        ELSE Least(absent[d] + 1, Gone)]
        /\ alarms' = [d \in Devices |-> IF d \in listed THEN 0 ELSE alarms[d]]
  OBVIOUS
<1>5. TypeOK'
  <2>1. absent' \in [Devices -> 0..Gone]
    <3> SUFFICES ASSUME NEW d \in Devices PROVE absent'[d] \in 0..Gone
      BY <1>4
    <3>1. absent[d] \in 0..Gone
      BY DEF TypeOK
    <3>2. QED
      BY <1>4, <3>1 DEF Least, Gone
  <2>2. alarms' \in [Devices -> Nat]
    BY <1>4 DEF TypeOK
  <2>3. /\ DOMAIN report' \subseteq Devices
        /\ \A d \in DOMAIN report' : report'[d] \in Readings
        /\ seen' \subseteq Devices
    BY <1>4
  <2>4. QED
    BY <1>1, <1>3, <2>1, <2>2, <2>3 DEF TypeOK
<1>6. Pending'
  BY <1>1 DEF Pending
<1>7. QueueFollowsStore'
  <2> SUFFICES ASSUME NEW d \in Devices \ orphaned
               PROVE  Told(messages)'[d] = IF store'[d] = None THEN None
                                           ELSE store'[d].status
    BY DEF QueueFollowsStore
  <2>1. Told(messages)' = Told(messages)
    BY DEF Told, ChangesIn
  <2>2. QED
    BY <1>3, <2>1 DEF QueueFollowsStore
<1>8. Flagged'
  BY <1>3, <1>4 DEF Flagged, TypeOK
<1>9. QED
  BY <1>5, <1>6, <1>7, <1>8

LEMMA FailedPollStep ==
    ASSUME IInv, FailedPoll
    PROVE  IInv'
<1> USE DEF IInv, FailedPoll
<1>1. messages = {}
  BY DEF TypeOK
<1>2. PICK k \in Elapsed : store' = Aged(k)
  OBVIOUS
<1>3. /\ store' \in [Devices -> [status : Status, age : 0..Gone] \cup {None}]
      /\ \A d \in Devices : /\ store'[d] = None <=> store[d] = None
                            /\ store[d] # None => store'[d].status = store[d].status
  BY <1>2, AgedType DEF TypeOK
<1>4. failures' \in 0..MaxFailures
  BY Numbers
<1>5. TypeOK'
  BY <1>1, <1>3, <1>4 DEF TypeOK
<1>6. Pending'
  BY <1>1 DEF Pending
<1>7. QueueFollowsStore'
  <2> SUFFICES ASSUME NEW d \in Devices \ orphaned
               PROVE  Told(messages)'[d] = IF store'[d] = None THEN None
                                           ELSE store'[d].status
    BY DEF QueueFollowsStore
  <2>1. Told(messages)' = Told(messages)
    BY DEF Told, ChangesIn
  <2>2. QED
    BY <1>3, <2>1 DEF QueueFollowsStore
<1>8. Flagged'
  BY <1>3 DEF Flagged, TypeOK
<1>9. QED
  BY <1>5, <1>6, <1>7, <1>8

\* A device is recorded with messages that say so, and none were there about
\* it: the queue will follow the store.
LEMMA RecordKeeps ==
    ASSUME TypeOK, Pending, QueueFollowsStore,
           NEW d \in Devices, NEW s \in Status, NEW more,
           \A m \in messages : m.device # d,
           Agree(messages \cup more),
           \A m \in more : m.device = d /\ m.status = s,
           more # {},
           Changed(d, s) => \E m \in more : m.kind = "transition",
           Record(d, s), messages' = messages \cup more,
           UNCHANGED <<told, orphaned>>
    PROVE  QueueFollowsStore'
<1>1. /\ store'[d] = [status |-> s, age |-> 0]
      /\ \A e \in Devices \ {d} : store'[e] = store[e]
  BY RecordType DEF TypeOK
<1>2. Told(messages)' = Told(messages \cup more)
  BY DEF Told, ChangesIn
<1> SUFFICES ASSUME NEW e \in Devices \ orphaned
             PROVE  Told(messages \cup more)[e] = IF store'[e] = None THEN None
                                                  ELSE store'[e].status
  BY <1>2 DEF QueueFollowsStore
<1>3. Told(messages)[e] = IF store[e] = None THEN None ELSE store[e].status
  BY DEF QueueFollowsStore
<1>4. CASE e # d
  <2>1. \A m \in more : m.device # e
    BY <1>4
  <2>2. Told(messages \cup more)[e] = Told(messages)[e]
    BY <2>1, ToldElsewhere
  <2>3. store'[e] = store[e]
    BY <1>1, <1>4
  <2>4. QED
    BY <1>3, <2>2, <2>3
<1>5. CASE e = d
  <2>1. store'[d] # None /\ store'[d].status = s
    <3>1. [status |-> s, age |-> 0] \in [status : Status, age : 0..Gone]
      BY DEF Gone
    <3>2. QED
      BY <1>1, <3>1, NoneAssumption
  <2>2. d \notin ChangesIn(messages)
    BY DEF ChangesIn
  <2>3. told[d] = IF store[d] = None THEN None ELSE store[d].status
    BY <1>3, <1>5, <2>2, ToldByMessages, Numbers
  <2>4. CASE d \in ChangesIn(messages \cup more)
    <3>1. PICK m \in more : TRUE
      OBVIOUS
    <3>2. Told(messages \cup more)[d] = m.status
      BY <2>4, <3>1, ToldByMessages
    <3>3. QED
      BY <1>5, <2>1, <3>1, <3>2
  <2>5. CASE d \notin ChangesIn(messages \cup more)
    <3>1. \A m \in more : m.kind # "transition" /\ told[d] # None
      BY <2>5 DEF ChangesIn
    <3>2. store[d] # None /\ store[d].status = s
      BY <2>3, <3>1 DEF Changed
    <3>3. Told(messages \cup more)[d] = told[d]
      BY <2>5, ToldByMessages
    <3>4. QED
      BY <1>5, <2>1, <2>3, <3>2, <3>3
  <2>6. QED
    BY <2>4, <2>5
<1>6. QED
  BY <1>4, <1>5

LEMMA RecordDeviceStep ==
    ASSUME IInv, NEW d \in Devices, RecordDevice(d)
    PROVE  IInv'
<1> USE DEF IInv, RecordDevice
<1>1. PICK s \in Status : s = report[d]
  BY Numbers
<1>2. PICK more : more = MessagesFor(d, s)
  OBVIOUS
<1>3. /\ more \subseteq Message
      /\ \A m \in more : m.device = d /\ m.status = s
      /\ more # {}
      /\ Changed(d, s) => \E m \in more : m.kind = "transition"
  BY <1>2, MessagesForType
<1>4. \A m \in messages : m.device # d
  BY DEF Pending
<1>5. Agree(messages \cup more)
  BY <1>3, <1>4, Numbers DEF Agree
<1>6. messages' = messages \cup more /\ Record(d, s)
  BY <1>1, <1>2
<1>7. /\ store' \in [Devices -> [status : Status, age : 0..Gone] \cup {None}]
      /\ store'[d] = [status |-> s, age |-> 0]
      /\ \A e \in Devices \ {d} : store'[e] = store[e]
  BY <1>6, RecordType DEF TypeOK
<1>8. /\ DOMAIN report' = DOMAIN report \ {d}
      /\ \A e \in DOMAIN report' : report'[e] = report[e]
  OBVIOUS
<1>9. TypeOK'
  <2>1. messages' \subseteq Message
        /\ \A m, n \in messages' : m.device = n.device => m.status = n.status
    BY <1>5, <1>6 DEF Agree
  <2>2. DOMAIN report' \subseteq Devices /\ \A e \in DOMAIN report' : report'[e] \in Readings
    BY <1>8 DEF TypeOK
  <2>3. QED
    BY <1>7, <2>1, <2>2 DEF TypeOK
<1>10. Pending'
  <2> SUFFICES ASSUME NEW m \in messages'
               PROVE  /\ m.device \notin DOMAIN report'
                      /\ store'[m.device] = [status |-> m.status, age |-> 0]
    BY DEF Pending
  <2>1. CASE m \in more
    BY <1>3, <1>7, <1>8, <2>1
  <2>2. CASE m \in messages
    <3>1. m.device \in Devices \ {d}
      BY <1>4, <2>2 DEF TypeOK, Message
    <3>2. QED
      BY <1>7, <1>8, <2>2, <3>1 DEF Pending
  <2>3. QED
    BY <1>6, <2>1, <2>2
<1>11. QueueFollowsStore'
  BY <1>3, <1>4, <1>5, <1>6, RecordKeeps
<1>12. Flagged'
  <2>1. alarms[d] = 0 /\ \A e \in DOMAIN report' : alarms[e] = 0
    BY <1>8 DEF Flagged
  <2>2. QED
    BY <1>7, <2>1 DEF Flagged
<1>13. QED
  BY <1>9, <1>10, <1>11, <1>12

LEMMA FlagVanishedStep ==
    ASSUME IInv, NEW d \in Devices, FlagVanished(d)
    PROVE  IInv'
<1> USE DEF IInv, FlagVanished
<1>1. PICK more : more = {[kind |-> "transition", device |-> d, status |-> "unhealthy"]}
  OBVIOUS
<1>2. /\ more \subseteq Message
      /\ \A m \in more : m.device = d /\ m.status = "unhealthy" /\ m.kind = "transition"
      /\ more # {}
  BY <1>1 DEF Message, Status
<1>3. store[d] # None /\ store[d].age = 3 /\ store[d].status # "unhealthy"
  BY DEF Vanished, Gone
<1>4. \A m \in messages : m.device # d
  <2> SUFFICES ASSUME NEW m \in messages, m.device = d PROVE FALSE
    OBVIOUS
  <2>1. store[d] = [status |-> m.status, age |-> 0]
    BY DEF Pending
  <2>2. store[d].age = 0
    BY <2>1
  <2>3. QED
    BY <1>3, <2>2
<1>5. Agree(messages \cup more)
  BY <1>2, <1>4, Numbers DEF Agree
<1>6. messages' = messages \cup more /\ Record(d, "unhealthy") /\ "unhealthy" \in Status
  BY <1>1 DEF Status
<1>7. /\ store' \in [Devices -> [status : Status, age : 0..Gone] \cup {None}]
      /\ store'[d] = [status |-> "unhealthy", age |-> 0]
      /\ \A e \in Devices \ {d} : store'[e] = store[e]
  BY <1>6, RecordType DEF TypeOK
<1>8. alarms[d] = 0 /\ alarms'[d] = 1 /\ \A e \in Devices \ {d} : alarms'[e] = alarms[e]
  <2>1. alarms[d] \in Nat /\ alarms \in [Devices -> Nat]
    BY Numbers
  <2>2. QED
    BY <1>3, <2>1 DEF Flagged
<1>9. TypeOK'
  <2>1. messages' \subseteq Message
        /\ \A m, n \in messages' : m.device = n.device => m.status = n.status
    BY <1>5, <1>6 DEF Agree
  <2>2. alarms' \in [Devices -> Nat]
    BY Numbers
  <2>3. QED
    BY <1>7, <2>1, <2>2 DEF TypeOK
<1>10. Pending'
  <2> SUFFICES ASSUME NEW m \in messages'
               PROVE  /\ m.device \notin DOMAIN report
                      /\ store'[m.device] = [status |-> m.status, age |-> 0]
    BY DEF Pending
  <2>1. CASE m \in more
    BY <1>2, <1>7, <2>1
  <2>2. CASE m \in messages
    <3>1. m.device \in Devices \ {d}
      BY <1>4, <2>2 DEF TypeOK, Message
    <3>2. QED
      BY <1>7, <2>2, <3>1 DEF Pending
  <2>3. QED
    BY <1>6, <2>1, <2>2
<1>11. QueueFollowsStore'
  BY <1>2, <1>4, <1>5, <1>6, RecordKeeps
<1>12. Flagged'
  <2>1. store'[d] # None /\ store'[d].status = "unhealthy"
    <3>1. [status |-> "unhealthy", age |-> 0] \in [status : Status, age : 0..Gone]
      BY <1>6 DEF Gone
    <3>2. QED
      BY <1>7, <3>1, NoneAssumption
  <2>2. QED
    BY <1>7, <1>8, <2>1 DEF Flagged
<1>13. QED
  BY <1>9, <1>10, <1>11, <1>12

\* What is queued tells the status of the store, also for orphaned devices.
LEMMA QueuedIsStored ==
    ASSUME TypeOK, Pending, NEW in \in SUBSET messages, NEW d \in ChangesIn(in)
    PROVE  store[d] # None /\ Told(in)[d] = store[d].status
<1>1. PICK m \in in : m.device = d
  BY DEF ChangesIn
<1>2. Agree(in)
  BY Numbers DEF Agree
<1>3. Told(in)[d] = m.status
  BY <1>1, <1>2, ToldByMessages
<1>4. store[d] = [status |-> m.status, age |-> 0] /\ m.status \in Status
  BY <1>1 DEF Pending, TypeOK, Message
<1>5. [status |-> m.status, age |-> 0] \in [status : Status, age : 0..Gone]
  BY <1>4 DEF Gone
<1>6. QED
  BY <1>3, <1>4, <1>5, NoneAssumption

\* A poll that ends with some of its messages queued, the rest forgotten.
LEMMA EndKeeps ==
    ASSUME IInv, NEW in \in SUBSET messages,
           told' = Told(in), messages' = {},
           orphaned' = (orphaned \ ChangesIn(in)) \cup ChangesIn(messages \ in),
           UNCHANGED <<store, alarms>>,
           DOMAIN report' \subseteq DOMAIN report
    PROVE  Pending' /\ QueueFollowsStore' /\ Flagged'
<1> USE DEF IInv
<1>1. Pending' /\ Flagged'
  BY DEF Pending, Flagged
<1>2. QueueFollowsStore'
  <2> SUFFICES ASSUME NEW d \in Devices \ orphaned'
               PROVE  told'[d] = IF store[d] = None THEN None ELSE store[d].status
    BY NoMessages DEF QueueFollowsStore, Told, ChangesIn
  <2>1. CASE d \in ChangesIn(in)
    BY <2>1, QueuedIsStored
  <2>2. CASE d \notin ChangesIn(in)
    <3>1. d \notin orphaned /\ d \notin ChangesIn(messages)
      BY <2>2 DEF ChangesIn
    <3>2. told[d] = IF store[d] = None THEN None ELSE store[d].status
      BY <3>1, ToldByMessages, Numbers DEF QueueFollowsStore
    <3>3. Agree(in)
      BY Numbers DEF Agree
    <3>4. told'[d] = told[d]
      BY <2>2, <3>3, ToldByMessages
    <3>5. QED
      BY <3>2, <3>4
  <2>3. QED
    BY <2>1, <2>2
<1>3. QED
  BY <1>1, <1>2

LEMMA EnqueueStep ==
    ASSUME IInv, Enqueue
    PROVE  IInv'
<1> USE DEF IInv, Enqueue
<1>1. messages \ messages = {} /\ ChangesIn({}) = {}
  BY NoMessages
<1>2. Pending' /\ QueueFollowsStore' /\ Flagged'
  BY <1>1, EndKeeps
<1>3. told' \in [Devices -> Status \cup {None}]
  BY ToldIsStatus, Numbers DEF TypeOK
<1>4. TypeOK'
  BY <1>3 DEF TypeOK, ChangesIn
<1>5. QED
  BY <1>2, <1>4

LEMMA CutShortStep ==
    ASSUME IInv, CutShort
    PROVE  IInv'
<1> USE DEF IInv, CutShort
<1>1. PICK in \in SUBSET messages :
        /\ told' = Told(in)
        /\ orphaned' = (orphaned \ ChangesIn(in)) \cup ChangesIn(messages \ in)
  OBVIOUS
<1>2. DOMAIN report' = {}
  OBVIOUS
<1>3. Pending' /\ QueueFollowsStore' /\ Flagged'
  BY <1>1, <1>2, EndKeeps
<1>4. Agree(in)
  BY Numbers DEF Agree
<1>5. told' \in [Devices -> Status \cup {None}]
  BY <1>1, <1>4, ToldIsStatus DEF TypeOK
<1>6. orphaned' \subseteq Devices
  BY <1>1 DEF TypeOK, ChangesIn, Message
<1>7. failures' \in 0..MaxFailures
  BY Numbers
<1>8. TypeOK'
  BY <1>2, <1>5, <1>6, <1>7 DEF TypeOK
<1>9. QED
  BY <1>3, <1>8

LEMMA StopStep ==
    ASSUME IInv, Stop
    PROVE  IInv'
<1> USE DEF IInv, Stop
<1>1. failures' \in 0..MaxFailures
  BY Numbers
<1>2. TypeOK'
  BY <1>1 DEF TypeOK
<1>3. Pending' /\ QueueFollowsStore' /\ Flagged'
  BY DEF Pending, QueueFollowsStore, Flagged, Told, ChangesIn
<1>4. QED
  BY <1>2, <1>3

LEMMA StutterStep ==
    ASSUME IInv, UNCHANGED vars
    PROVE  IInv'
BY DEF IInv, vars, TypeOK, Pending, QueueFollowsStore, Flagged, Told, ChangesIn

-----------------------------------------------------------------------------
(* The theorems.                                                           *)

\* The inductive invariant holds in every reachable state.
THEOREM Invariance == SafeSpec => []IInv
<1>1. IInv /\ [Next]_vars => IInv'
  <2> SUFFICES ASSUME IInv, [Next]_vars PROVE IInv'
    OBVIOUS
  <2>1. CASE StartPoll
    BY <2>1, StartPollStep
  <2>2. CASE FailedPoll
    BY <2>2, FailedPollStep
  <2>3. CASE \E d \in Devices : RecordDevice(d)
    BY <2>3, RecordDeviceStep
  <2>4. CASE \E d \in Devices : FlagVanished(d)
    BY <2>4, FlagVanishedStep
  <2>5. CASE Enqueue
    BY <2>5, EnqueueStep
  <2>6. CASE CutShort
    BY <2>6, CutShortStep
  <2>7. CASE Stop
    BY <2>7, StopStep
  <2>8. CASE UNCHANGED vars
    BY <2>8, StutterStep
  <2>9. QED
    BY <2>1, <2>2, <2>3, <2>4, <2>5, <2>6, <2>7, <2>8 DEF Next, Poll
<1>2. QED
  BY InitIInv, <1>1, PTL DEF SafeSpec

\* The variables keep their types, whatever the devices report.
THEOREM TypeCorrect == SafeSpec => []TypeOK
<1>1. IInv => TypeOK
  BY DEF IInv
<1>2. QED
  BY Invariance, <1>1, PTL

\* What is queued for a device adds up to its status on disk, unless a poll
\* was cut short on its last change.
THEOREM Follows == SafeSpec => []QueueFollowsStore
<1>1. IInv => QueueFollowsStore
  BY DEF IInv
<1>2. QED
  BY Invariance, <1>1, PTL

\* A vanished device is flagged once, whatever happens until it is back.
THEOREM OneAlarm == SafeSpec => []OneAlarmPerAbsence
<1>1. IInv => OneAlarmPerAbsence
  BY DEF IInv, Flagged, OneAlarmPerAbsence
<1>2. QED
  BY Invariance, <1>1, PTL

============================================================================
