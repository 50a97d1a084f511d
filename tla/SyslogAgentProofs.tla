------------------------- MODULE SyslogAgentProofs -------------------------
(***************************************************************************)
(* Proofs about SyslogAgent: for all devices, windows, delays and caps of  *)
(* the queue, the transitions tell the status that the agent holds, and a  *)
(* burst of one signature counts once in a window.                         *)
(***************************************************************************)
EXTENDS SyslogAgent, FiniteSetTheorems, SequenceTheorems, WellFoundedInduction,
        TLAPS

-----------------------------------------------------------------------------
(* The window and the score.                                               *)

\* Nothing can be evicted from an empty window.
LEMMA EvictEmpty == \A now : Evict(<<>>, now) = <<>>
<1> SUFFICES ASSUME NEW now PROVE Evict(<<>>, now) = <<>>
  OBVIOUS
<1> DEFINE gone == {i \in DOMAIN <<>> : \A j \in 1..i : <<>>[j].age - now > Window}
<1>1. gone = {}
  OBVIOUS
<1>2. Cardinality(gone) = 0
  BY <1>1, FS_EmptySet
<1>3. Evict(<<>>, now) = SubSeq(<<>>, Cardinality(gone) + 1, Len(<<>>))
  BY Zenon DEF Evict
<1>4. SubSeq(<<>>, 1, 0) = <<>>
  OBVIOUS
<1>5. Len(<<>>) = 0 /\ 0 + 1 = 1
  OBVIOUS
<1> HIDE DEF gone
<1> QED
  BY <1>2, <1>3, <1>4, <1>5

\* The event that was just heard is in any window.
LEMMA EvictFresh ==
  ASSUME NEW e, e.age \in Nat PROVE Evict(<<e>>, e.age) = <<e>>
<1> DEFINE gone == {i \in DOMAIN <<e>> : \A j \in 1..i : <<e>>[j].age - e.age > Window}
<1>1. gone = {}
  <2>1. Window \in Nat
    BY TimesAssumption
  <2>2. ~(e.age - e.age > Window)
    BY <2>1
  <2>3. DOMAIN <<e>> = {1} /\ <<e>>[1] = e /\ 1 \in 1..1
    OBVIOUS
  <2> QED
    BY <2>2, <2>3, Zenon
<1>2. Cardinality(gone) = 0
  BY <1>1, FS_EmptySet
<1>3. Evict(<<e>>, e.age) = SubSeq(<<e>>, Cardinality(gone) + 1, Len(<<e>>))
  BY Zenon DEF Evict
<1>4. SubSeq(<<e>>, 1, Len(<<e>>)) = <<e>>
  <2>1. <<e>> \in Seq({e})
    OBVIOUS
  <2> QED
    BY <2>1, SubSeqFull, Zenon
<1>5. Len(<<e>>) = 1 /\ 0 + 1 = 1
  OBVIOUS
<1> HIDE DEF gone
<1> QED
  BY <1>2, <1>3, <1>4, <1>5

\* One event makes no device worse than healthy.
LEMMA OneEventIsHealthy == ASSUME NEW e PROVE StatusOf(<<e>>, 0) = "healthy"
<1> DEFINE errors == {i \in DOMAIN <<e>> : <<e>>[i].sig.severity \in 0..3}
           warns == {i \in DOMAIN <<e>> : <<e>>[i].sig.severity \in {4}}
<1>1. /\ errors = {} \/ errors = {1}
      /\ warns = {} \/ warns = {1}
  <2>1. DOMAIN <<e>> = {1}
    OBVIOUS
  <2>2. errors \subseteq {1} /\ warns \subseteq {1}
    BY <2>1, Zenon
  <2> HIDE DEF errors, warns
  <2> QED
    BY <2>2
<1>2. Cardinality({}) = 0 /\ Cardinality({1}) = 1
  BY FS_EmptySet, FS_Singleton
<1>3. Cardinality(errors) \in {0, 1} /\ Cardinality(warns) \in {0, 1}
  BY <1>1, <1>2, Zenon
<1>4. Stale \in Nat
  BY TimesAssumption
<1>5. Score(<<e>>, 0) = 100 - Lesser(8 * Cardinality(errors), 60)
                            - Lesser(2 * Cardinality(warns), 20)
                            - (IF 2 * 0 > Stale THEN 15 ELSE 0)
  BY Zenon DEF Score, CountOf
<1> HIDE DEF errors, warns
<1>6. Score(<<e>>, 0) >= 85
  BY <1>3, <1>4, <1>5 DEF Lesser
<1> QED
  BY <1>4, <1>6 DEF StatusOf

\* A device that has been seen has a status.
LEMMA StatusIsKnown == \A log, silent : StatusOf(log, silent) # "unknown"
BY DEF StatusOf

-----------------------------------------------------------------------------
(* The status and the transitions.                                         *)

\* What the listener holds is of a device of the configuration.
HeardFits == heard # Never => heard \in [device : Devices, sig : Signatures, age : Nat]

Tables == /\ DOMAIN events = Devices /\ DOMAIN lastStatus = Devices
          /\ DOMAIN alerted = Devices

\* A device without a status has an empty window, so its first one will be
\* "healthy", which is what nobody needs to be told.
FirstIsHealthy ==
    \A d \in Devices : lastStatus[d] = "unknown" =>
        events[d] = <<>> /\ (d \notin astray => alerted[d] = "healthy")

AgentInv == HeardFits /\ Tables /\ FirstIsHealthy /\ TransitionsTellStatus

\* The status after a first event.
LEMMA FirstStatus ==
  ASSUME AgentInv, heard # Never, lastStatus[heard.device] = "unknown"
  PROVE StatusOf(LogAfter, 0) = "healthy"
<1>0. heard.device \in Devices /\ heard.age \in Nat
  BY DEF AgentInv, HeardFits
<1>1. heard.device \in Devices /\ heard.age \in Nat /\ events[heard.device] = <<>>
  BY <1>0, Zenon DEF AgentInv, FirstIsHealthy
<1> DEFINE e == [age |-> heard.age, sig |-> heard.sig]
<1>2. e.age = heard.age
  OBVIOUS
<1> HIDE DEF e
<1>3. Append(<<>>, e) = <<e>>
  OBVIOUS
<1>4. LogAfter = Evict(<<e>>, heard.age)
  BY <1>1, <1>3, Zenon DEF LogAfter, e
<1>5. LogAfter = <<e>>
  BY <1>1, <1>2, <1>4, EvictFresh, Zenon
<1> QED
  BY <1>5, OneEventIsHealthy, Zenon

\* A new event keeps the agreement, whatever becomes of the transition.
LEMMA IngestKeeps == ASSUME AgentInv, IngestEvent PROVE AgentInv'
<1> DEFINE d == heard.device
           status == StatusOf(LogAfter, 0)
<1>0. d \in Devices
  BY DEF IngestEvent, AgentInv, HeardFits
<1>1. /\ heard # Never /\ heard' = Never /\ d \in Devices
      /\ DOMAIN events = Devices /\ DOMAIN lastStatus = Devices /\ DOMAIN alerted = Devices
  BY <1>0, Zenon DEF IngestEvent, AgentInv, Tables
<1>2. status # "unknown" /\ (lastStatus[d] = "unknown" => status = "healthy")
  BY <1>1, StatusIsKnown, FirstStatus, Zenon
<1>3. events' = [events EXCEPT ![d] = LogAfter]
  BY Zenon DEF IngestEvent
<1>4. \/ /\ ~Announced(d, status)
         /\ lastStatus' = [lastStatus EXCEPT ![d] = status]
         /\ UNCHANGED <<alerted, astray>>
      \/ /\ lastStatus' = [lastStatus EXCEPT ![d] = status]
         /\ alerted' = [alerted EXCEPT ![d] = status]
         /\ astray' = astray \ {d}
      \/ /\ Announced(d, status) /\ UNCHANGED <<lastStatus, alerted, astray>>
      \/ /\ Announced(d, status) /\ UNCHANGED lastStatus
         /\ alerted' = [alerted EXCEPT ![d] = status]
         /\ astray' = astray \cup {d}
  BY Zenon DEF IngestEvent
<1> HIDE DEF d, status
<1>5. Tables'
  BY <1>1, <1>3, <1>4 DEF Tables
<1>6. HeardFits'
  BY <1>1 DEF HeardFits
<1>7. ASSUME NEW x \in Devices, x # d
      PROVE /\ events'[x] = events[x] /\ lastStatus'[x] = lastStatus[x]
            /\ alerted'[x] = alerted[x] /\ (x \in astray' <=> x \in astray)
  BY <1>1, <1>3, <1>4, <1>7
<1>8. lastStatus'[d] # "unknown"
  BY <1>1, <1>2, <1>4 DEF Announced
<1>9. d \notin astray' => alerted'[d] = lastStatus'[d]
  <2>1. CASE ~Announced(d, status) /\ UNCHANGED <<alerted, astray>>
              /\ lastStatus' = [lastStatus EXCEPT ![d] = status]
    <3>1. lastStatus'[d] = status /\ alerted'[d] = alerted[d] /\ astray' = astray
      BY <1>1, <2>1
    <3>2. d \notin astray /\ lastStatus[d] = "unknown" => alerted[d] = "healthy"
      BY <1>1, Zenon DEF AgentInv, FirstIsHealthy
    <3>3. d \notin astray /\ lastStatus[d] # "unknown" => alerted[d] = lastStatus[d]
      BY <1>1, Zenon DEF AgentInv, TransitionsTellStatus
    <3> QED
      BY <1>2, <2>1, <3>1, <3>2, <3>3, Zenon DEF Announced
  <2>2. CASE /\ lastStatus' = [lastStatus EXCEPT ![d] = status]
             /\ alerted' = [alerted EXCEPT ![d] = status]
    BY <1>1, <2>2
  <2>3. CASE Announced(d, status) /\ UNCHANGED <<lastStatus, alerted, astray>>
    BY <1>1, <2>3, Zenon DEF Announced, AgentInv, TransitionsTellStatus
  <2>4. CASE astray' = astray \cup {d}
    BY <2>4
  <2> QED
    BY <1>4, <2>1, <2>2, <2>3, <2>4, Zenon
<1>10. FirstIsHealthy'
  <2> SUFFICES ASSUME NEW x \in Devices, lastStatus'[x] = "unknown"
               PROVE events'[x] = <<>> /\ (x \notin astray' => alerted'[x] = "healthy")
    BY Zenon DEF FirstIsHealthy
  <2> QED
    BY <1>7, <1>8, Zenon DEF AgentInv, FirstIsHealthy
<1>11. TransitionsTellStatus'
  <2> SUFFICES ASSUME NEW x \in Devices, lastStatus'[x] # "unknown", x \notin astray'
               PROVE alerted'[x] = lastStatus'[x]
    BY Zenon DEF TransitionsTellStatus
  <2> QED
    BY <1>7, <1>9, Zenon DEF AgentInv, TransitionsTellStatus
<1> QED
  BY <1>5, <1>6, <1>10, <1>11, Zenon DEF AgentInv

-----------------------------------------------------------------------------
(* The other steps leave the statuses alone.                               *)

\* Where statuses and transitions stay, so do what is said of them, as long
\* as no empty window fills.
LEMMA StatusesStay ==
  ASSUME AgentInv, UNCHANGED <<lastStatus, alerted, astray>>, DOMAIN events' = Devices,
         \A d \in Devices : events[d] = <<>> => events'[d] = <<>>
  PROVE Tables' /\ FirstIsHealthy' /\ TransitionsTellStatus'
<1>1. Tables'
  BY Zenon DEF AgentInv, Tables
<1>2. FirstIsHealthy' /\ TransitionsTellStatus'
  BY Zenon DEF AgentInv, FirstIsHealthy, TransitionsTellStatus
<1> QED
  BY <1>1, <1>2

\* A datagram is of a device of the map.
LEMMA HearKeeps ==
  ASSUME AgentInv, NEW g \in Datagrams, Hear(g) PROVE AgentInv'
<1>1. ResolveDevice(g.ip, g.host) \in Devices
  BY DeviceMapAssumption, Zenon DEF Hear, ResolveDevice
<1>2. heard' = [device |-> ResolveDevice(g.ip, g.host), sig |-> SignatureOf(g), age |-> 0]
  BY Zenon DEF Hear
<1>3. SignatureOf(g) \in Signatures
  BY Zenon DEF Signatures
<1>4. HeardFits'
  BY <1>1, <1>2, <1>3 DEF HeardFits
<1>5. UNCHANGED <<events, lastStatus, alerted, astray>>
  BY Zenon DEF Hear, stateVars
<1>6. Tables' /\ FirstIsHealthy' /\ TransitionsTellStatus'
  BY <1>5, StatusesStay, Zenon DEF AgentInv, Tables
<1> QED
  BY <1>4, <1>6, Zenon DEF AgentInv

\* A summary evicts events, and adds none.
LEMMA SummariseKeeps ==
  ASSUME AgentInv, NEW d \in Devices, Summarise(d) PROVE AgentInv'
<1>1. /\ events' = [events EXCEPT ![d] = Evict(events[d], asOf)]
      /\ UNCHANGED <<lastStatus, alerted, astray, heard>>
  BY Zenon DEF Summarise
<1>2. DOMAIN events = Devices
  BY Zenon DEF AgentInv, Tables
<1>3. DOMAIN events' = Devices
  BY <1>1, <1>2
<1>4. ASSUME NEW x \in Devices, events[x] = <<>> PROVE events'[x] = <<>>
  BY <1>1, <1>2, <1>4, EvictEmpty, Zenon
<1>5. Tables' /\ FirstIsHealthy' /\ TransitionsTellStatus'
  BY <1>1, <1>3, <1>4, StatusesStay, Zenon
<1>6. HeardFits'
  BY <1>1, Zenon DEF AgentInv, HeardFits
<1> QED
  BY <1>5, <1>6, Zenon DEF AgentInv

\* Time ages what is there.
LEMMA TickKeeps == ASSUME AgentInv, Tick PROVE AgentInv'
<1>1. /\ events' = [d \in Devices |-> [i \in DOMAIN events[d] |->
                      [events[d][i] EXCEPT !.age = Older(events[d][i].age, Expired)]]]
      /\ heard' = IF heard = Never THEN Never ELSE [heard EXCEPT !.age = heard.age + 1]
      /\ UNCHANGED <<lastStatus, alerted, astray>>
  BY Zenon DEF Tick
<1>2. DOMAIN events' = Devices
  BY <1>1
<1>3. ASSUME NEW d \in Devices, events[d] = <<>> PROVE events'[d] = <<>>
  <2>1. events'[d] = [i \in DOMAIN <<>> |->
                        [events[d][i] EXCEPT !.age = Older(events[d][i].age, Expired)]]
    BY <1>1, <1>3, Zenon
  <2>2. DOMAIN <<>> = {}
    OBVIOUS
  <2> QED
    BY <2>1, <2>2
<1>4. Tables' /\ FirstIsHealthy' /\ TransitionsTellStatus'
  BY <1>1, <1>2, <1>3, StatusesStay, Zenon
<1>5. HeardFits'
  <2>1. CASE heard = Never
    BY <1>1, <2>1, Zenon DEF HeardFits
  <2>2. CASE heard # Never
    <3>1. heard \in [device : Devices, sig : Signatures, age : Nat]
      BY <2>2, Zenon DEF AgentInv, HeardFits
    <3>2. heard' = [heard EXCEPT !.age = heard.age + 1]
      BY <1>1, <2>2
    <3> QED
      BY <3>1, <3>2 DEF HeardFits
  <2> QED
    BY <2>1, <2>2
<1> QED
  BY <1>4, <1>5, Zenon DEF AgentInv

\* After a restart nothing is known, and a device that was announced as bad
\* is one whose transition was forgotten.
LEMMA RestartKeeps == ASSUME AgentInv, RestartAgent PROVE AgentInv'
<1>1. /\ events' = [d \in Devices |-> <<>>] /\ lastStatus' = [d \in Devices |-> "unknown"]
      /\ heard' = Never /\ alerted' = alerted
      /\ astray' = astray \cup {d \in Devices : alerted[d] # "healthy"}
  BY Zenon DEF RestartAgent
<1>2. DOMAIN alerted = Devices
  BY Zenon DEF AgentInv, Tables
<1>3. Tables' /\ HeardFits'
  BY <1>1, <1>2 DEF Tables, HeardFits
<1>4. ASSUME NEW d \in Devices
      PROVE /\ events'[d] = <<>> /\ lastStatus'[d] = "unknown"
            /\ d \notin astray' => alerted'[d] = "healthy"
  BY <1>1
<1> QED
  BY <1>3, <1>4, Zenon DEF AgentInv, FirstIsHealthy, TransitionsTellStatus

\* A step of the agent keeps the invariant.
LEMMA AgentInvStep == AgentInv /\ [SyslogNext]_syslogVars => AgentInv'
<1> SUFFICES ASSUME AgentInv, [SyslogNext]_syslogVars PROVE AgentInv'
  OBVIOUS
<1>1. ASSUME heard' = Never \/ heard' = heard,
             UNCHANGED <<events, lastStatus, alerted, astray>>
      PROVE AgentInv'
  <2>1. HeardFits'
    BY <1>1, Zenon DEF AgentInv, HeardFits
  <2>2. Tables' /\ FirstIsHealthy' /\ TransitionsTellStatus'
    BY <1>1, StatusesStay, Zenon DEF AgentInv, Tables
  <2> QED
    BY <2>1, <2>2, Zenon DEF AgentInv
<1>2. CASE \E g \in Datagrams : Hear(g)
  BY <1>2, HearKeeps, Zenon
<1>3. CASE IngestRepeated
  BY <1>1, <1>3, Zenon DEF IngestRepeated
<1>4. CASE IngestEvent
  BY <1>4, IngestKeeps, Zenon
<1>5. CASE ReadClock \/ TakeLock \/ ReleaseLock
  BY <1>1, <1>5, Zenon DEF ReadClock, TakeLock, ReleaseLock, stateVars
<1>6. CASE \E d \in Devices : Summarise(d)
  BY <1>6, SummariseKeeps, Zenon
<1>7. CASE Upload \/ Ack \/ MarkFailed \/ HandleLate
  BY <1>1, <1>7, Zenon DEF Upload, Ack, MarkFailed, HandleLate, stateVars
<1>8. CASE RestartAgent
  BY <1>8, RestartKeeps, Zenon
<1>9. CASE Tick
  BY <1>9, TickKeeps, Zenon
<1>10. CASE UNCHANGED syslogVars
  BY <1>1, <1>10, Zenon DEF syslogVars, stateVars
<1> QED
  BY <1>2, <1>3, <1>4, <1>5, <1>6, <1>7, <1>8, <1>9, <1>10, Zenon
     DEF SyslogNext, Listener, Periodic, Uploader

-----------------------------------------------------------------------------
\* Whoever follows the transitions that Aggregator.ingest queues knows the
\* status the agent holds of every device, unless a restart or an error of the
\* queue has come between.
THEOREM TransitionsTell == SyslogSafeSpec => []TransitionsTellStatus
<1>1. SyslogInit => AgentInv
  <2> SUFFICES ASSUME SyslogInit PROVE AgentInv
    OBVIOUS
  <2>1. /\ events = [d \in Devices |-> <<>>] /\ lastStatus = [d \in Devices |-> "unknown"]
        /\ heard = Never /\ alerted = [d \in Devices |-> "healthy"]
    BY Zenon DEF SyslogInit
  <2> QED
    BY <2>1 DEF AgentInv, HeardFits, Tables, FirstIsHealthy, TransitionsTellStatus
<1>2. AgentInv => TransitionsTellStatus
  BY DEF AgentInv
<1> QED
  BY <1>1, <1>2, AgentInvStep, PTL DEF SyslogSafeSpec

-----------------------------------------------------------------------------
(* What the operators return.                                              *)

Event == [age : 0..Expired, sig : Signatures]
CacheEntry == (0..Forgotten) \cup {Never}

\* The times after which nothing changes any more are numbers.
LEMMA Times ==
  /\ {Window, Stale, Dedup, MaxDelay, Expired, Forgotten, Silent} \subseteq Nat
  /\ MaxDelay < Expired /\ MaxDelay < Silent /\ MaxDelay <= Forgotten /\ Dedup <= Forgotten
BY TimesAssumption DEF Expired, Forgotten, Silent

\* rest is what is left of log, a sequence over S, without its first k elements.
IsEndOf(rest, S, log, k) ==
    /\ rest \in Seq(S) /\ Len(rest) = Len(log) - k
    /\ \A i \in DOMAIN rest : i + k \in DOMAIN log /\ rest[i] = log[i + k]

LEMMA EndOf ==
  ASSUME NEW S, NEW log \in Seq(S), NEW k \in 0..Len(log)
  PROVE  IsEndOf(SubSeq(log, k + 1, Len(log)), S, log, k)
<1> DEFINE n == Len(log)
           rest == SubSeq(log, k + 1, n)
<1>1. n \in Nat /\ k \in Nat /\ k <= n /\ DOMAIN log = 1..n
  BY LenProperties
<1>2. k + 1 \in Int /\ n \in Int /\ \A i \in (k + 1)..n : log[i] \in S
  BY <1>1, ElementOfSeq
<1>3. /\ rest \in Seq(S) /\ Len(rest) = IF k + 1 <= n THEN n - (k + 1) + 1 ELSE 0
      /\ \A i \in 1..(n - (k + 1) + 1) : rest[i] = log[(k + 1) + i - 1]
  <2> HIDE DEF n
  <2> QED
    BY <1>2, SubSeqProperties
<1>4. DOMAIN rest = 1..Len(rest)
  BY <1>3, LenProperties, Zenon
<1> HIDE DEF n, rest
<1>5. Len(rest) = n - k
  BY <1>1, <1>3
<1>6. ASSUME NEW i \in DOMAIN rest
      PROVE  i + k \in DOMAIN log /\ rest[i] = log[i + k]
  <2>1. i \in 1..(n - k)
    BY <1>4, <1>5
  <2>2. i \in 1..(n - (k + 1) + 1) /\ (k + 1) + i - 1 = i + k /\ i + k \in 1..n
    BY <1>1, <2>1
  <2> QED
    BY <1>1, <1>3, <2>2, Zenon
<1> QED
  BY <1>3, <1>5, <1>6, Zenon DEF n, rest, IsEndOf

\* How many positions of a sequence are in a set of them.
LEMMA SomeOf ==
  ASSUME NEW S, NEW log \in Seq(S), NEW some \in SUBSET DOMAIN log
  PROVE  IsFiniteSet(some) /\ Cardinality(some) \in 0..Len(log)
<1> DEFINE n == Len(log)
<1>1. n \in Nat /\ DOMAIN log = 1..n
  BY LenProperties
<1> HIDE DEF n
<1>2. IsFiniteSet(1..n) /\ Cardinality(1..n) = IF 1 > n THEN 0 ELSE n - 1 + 1
  BY <1>1, FS_Interval
<1>3. some \in SUBSET (1..n)
  BY <1>1
<1>4. IsFiniteSet(some) /\ Cardinality(some) <= Cardinality(1..n) /\ Cardinality(some) \in Nat
  BY <1>2, <1>3, FS_Subset, FS_CardinalityType
<1>5. IsFiniteSet(some) /\ Cardinality(some) \in 0..n
  BY <1>1, <1>2, <1>4
<1> QED
  BY <1>5 DEF n

\* _evict_old leaves the end of the window.
LEMMA EvictLeavesEnd ==
  ASSUME NEW S, NEW log \in Seq(S), NEW now
  PROVE  \E k \in 0..Len(log) : IsEndOf(Evict(log, now), S, log, k)
<1> DEFINE gone == {i \in DOMAIN log : \A j \in 1..i : log[j].age - now > Window}
<1>1. gone \in SUBSET DOMAIN log
  BY Zenon
<1>2. Evict(log, now) = SubSeq(log, Cardinality(gone) + 1, Len(log))
  BY Zenon DEF Evict
<1> HIDE DEF gone
<1>3. Cardinality(gone) \in 0..Len(log)
  BY <1>1, SomeOf
<1> QED
  BY <1>2, <1>3, EndOf, Zenon

\* An entry stays if it still suppresses repetitions, and is dropped if not.
LEMMA RememberedIs ==
  ASSUME NEW cache \in [Signatures -> CacheEntry], NEW now \in Nat
  PROVE  /\ Remembered(cache, now) \in [Signatures -> CacheEntry]
         /\ \A s \in Signatures :
               \/ Remembered(cache, now)[s] = cache[s]
               \/ /\ Remembered(cache, now)[s] = Never
                  /\ cache[s] = Never \/ (cache[s] \in Nat /\ cache[s] - now >= Dedup)
<1>1. Remembered(cache, now) = [s \in Signatures |->
         IF cache[s] # Never /\ cache[s] - now < Dedup THEN cache[s] ELSE Never]
  BY Zenon DEF Remembered
<1>2. Never \in CacheEntry /\ \A s \in Signatures : cache[s] \in CacheEntry
  BY DEF CacheEntry
<1>3. Remembered(cache, now) \in [Signatures -> CacheEntry]
  BY <1>1, <1>2
<1>4. ASSUME NEW s \in Signatures
      PROVE  \/ Remembered(cache, now)[s] = cache[s]
             \/ /\ Remembered(cache, now)[s] = Never
                /\ cache[s] = Never \/ (cache[s] \in Nat /\ cache[s] - now >= Dedup)
  <2>1. Remembered(cache, now)[s] =
          IF cache[s] # Never /\ cache[s] - now < Dedup THEN cache[s] ELSE Never
    BY <1>1, Zenon
  <2>2. cache[s] = Never \/ cache[s] \in Nat
    BY <1>2, Times DEF CacheEntry
  <2>3. Dedup \in Nat
    BY Times
  <2> QED
    BY <2>1, <2>2, <2>3
<1> QED
  BY <1>3, <1>4, Zenon

\* An age grows by one until it is the oldest there is.
LEMMA OlderIs ==
  ASSUME NEW oldest \in Nat, NEW age \in (0..oldest) \cup {Never}
  PROVE  \/ age = Never /\ Older(age, oldest) = Never
         \/ age = oldest /\ Older(age, oldest) = oldest
         \/ age \in 0..(oldest - 1) /\ Older(age, oldest) = age + 1
BY NeverAssumption DEF Older

LEMMA StatusIsHealth == \A log, silent : StatusOf(log, silent) \in Health
BY DEF StatusOf, Health

-----------------------------------------------------------------------------
(* The queue.                                                              *)

\* A queue that keeps to its caps but for k rows of a class at most.
BatchIsOldest(q) == \A i, j \in DOMAIN q : i < j /\ q[j].sent => q[i].sent
KeepsCaps(q, k) == \A b \in BOOLEAN : Cardinality(Rows(q, b)) <= CapOf(b) + k
QueueFits(q, k) == q \in Seq(SummaryRow) /\ BatchIsOldest(q) /\ KeepsCaps(q, k)

\* rest consists of rows of q at positions in some, in their order.
IsDrawnFrom(rest, q, some, m) ==
    /\ m \in [DOMAIN rest -> DOMAIN q] /\ \A i \in DOMAIN rest : m[i] \in some
    /\ \A i, j \in DOMAIN rest : i < j => m[i] < m[j]
    /\ \A i \in DOMAIN rest : /\ rest[i].sent = q[m[i]].sent
                              /\ IsPeriodic(rest[i]) = IsPeriodic(q[m[i]])

\* What is drawn from a queue has no more rows of a class than were there.
LEMMA DrawnRows ==
  ASSUME NEW q \in Seq(SummaryRow), NEW rest \in Seq(SummaryRow), NEW some, NEW m,
         IsDrawnFrom(rest, q, some, m), NEW b \in BOOLEAN
  PROVE  Cardinality(Rows(rest, b)) <= Cardinality(Rows(q, b) \cap some)
<1> DEFINE from == Rows(rest, b)
           into == Rows(q, b) \cap some
           f == [i \in from |-> m[i]]
<1>1. DOMAIN rest \subseteq Int /\ DOMAIN q \subseteq Int
  BY LenProperties
<1>2. from \subseteq DOMAIN rest /\ \A i \in from : IsPeriodic(rest[i]) = b
  BY Zenon DEF Rows
<1>3. \A i \in from : m[i] \in into
  BY <1>2, Zenon DEF IsDrawnFrom, Rows
<1>4. f \in [from -> into]
  BY <1>3
<1>5. ASSUME NEW i \in from, NEW j \in from, f[i] = f[j] PROVE i = j
  <2>1. i \in DOMAIN rest /\ j \in DOMAIN rest /\ m[i] = m[j] /\ m[i] \in DOMAIN q
    BY <1>2, <1>5 DEF IsDrawnFrom
  <2>2. (i < j => m[i] < m[j]) /\ (j < i => m[j] < m[i])
    BY <2>1, Zenon DEF IsDrawnFrom
  <2>3. i \in Int /\ j \in Int /\ m[i] \in Int /\ m[j] \in Int
    BY <1>1, <2>1
  <2> QED
    BY <2>1, <2>2, <2>3
<1>6. f \in Injection(from, into)
  <2>1. DOMAIN f = from
    OBVIOUS
  <2> HIDE DEF f, from, into
  <2> QED
    BY <1>4, <1>5, <2>1 DEF Injection, IsInjective
<1>7. into \in SUBSET DOMAIN q
  BY Zenon DEF Rows
<1>8. IsFiniteSet(into)
  BY <1>7, SomeOf
<1> HIDE DEF f, from, into
<1>9. Cardinality(from) <= Cardinality(into)
  BY <1>6, <1>8, FS_Injection
<1> QED
  BY <1>9 DEF from, into

\* What is drawn from a queue within its caps is within them.
LEMMA DrawnFits ==
  ASSUME NEW q, NEW k \in Nat, QueueFits(q, k), NEW rest \in Seq(SummaryRow), NEW some, NEW m,
         IsDrawnFrom(rest, q, some, m)
  PROVE  QueueFits(rest, k)
<1>0. q \in Seq(SummaryRow) /\ DOMAIN rest \subseteq Int
  BY LenProperties DEF QueueFits
<1>1. KeepsCaps(rest, k)
  <2> SUFFICES ASSUME NEW b \in BOOLEAN PROVE Cardinality(Rows(rest, b)) <= CapOf(b) + k
    BY Zenon DEF KeepsCaps
  <2>1. Cardinality(Rows(rest, b)) <= Cardinality(Rows(q, b) \cap some)
    BY <1>0, DrawnRows
  <2>2. Rows(q, b) \in SUBSET DOMAIN q /\ Rows(rest, b) \in SUBSET DOMAIN rest
    BY Zenon DEF Rows
  <2>3. IsFiniteSet(Rows(q, b)) /\ Cardinality(Rows(rest, b)) \in Nat
        /\ Cardinality(Rows(q, b)) \in Nat
    BY <1>0, <2>2, SomeOf
  <2>4. /\ Cardinality(Rows(q, b) \cap some) <= Cardinality(Rows(q, b))
        /\ Cardinality(Rows(q, b) \cap some) \in Nat
    BY <2>3, FS_Intersection, FS_CardinalityType
  <2>5. Cardinality(Rows(q, b)) <= CapOf(b) + k /\ CapOf(b) \in Nat
    BY RowsAssumption DEF QueueFits, KeepsCaps, CapOf
  <2> QED
    BY <2>1, <2>3, <2>4, <2>5
<1>2. BatchIsOldest(rest)
  <2> SUFFICES ASSUME NEW i \in DOMAIN rest, NEW j \in DOMAIN rest, i < j, rest[j].sent
               PROVE rest[i].sent
    BY Zenon DEF BatchIsOldest
  <2>1. /\ m[i] \in DOMAIN q /\ m[j] \in DOMAIN q /\ m[i] < m[j]
        /\ rest[i].sent = q[m[i]].sent /\ rest[j].sent = q[m[j]].sent
    BY DEF IsDrawnFrom
  <2> QED
    BY <2>1, Zenon DEF QueueFits, BatchIsOldest
<1> QED
  BY <1>1, <1>2 DEF QueueFits

\* A set of positions has a first one.
LEMMA FirstOf ==
  ASSUME NEW T \in SUBSET Nat, T # {}
  PROVE  \E x \in T : \A y \in T : x <= y
<1>1. PICK x \in T : \A y \in T : ~(<<y, x>> \in OpToRel(<, Nat))
  BY NatLessThanWellFounded, WFMin, Zenon
<1>2. ASSUME NEW y \in T PROVE x <= y
  <2>1. x \in Nat /\ y \in Nat
    OBVIOUS
  <2>2. ~(y < x)
    BY <1>1, <2>1 DEF OpToRel
  <2> QED
    BY <2>1, <2>2
<1> QED
  BY <1>2

\* The positions up to one.
UpTo(S, k) == {j \in S : j <= k}

\* As many positions as there are up to one, and perhaps one more.
LEMMA UpToNext ==
  ASSUME NEW n \in Nat, NEW S \in SUBSET (1..n), NEW i \in Nat
  PROVE  /\ IsFiniteSet(UpTo(S, i)) /\ Cardinality(UpTo(S, i)) \in Nat
         /\ Cardinality(UpTo(S, i + 1))
               = Cardinality(UpTo(S, i)) + (IF i + 1 \in S THEN 1 ELSE 0)
<1>1. IsFiniteSet(1..n)
  BY FS_Interval
<1>2. IsFiniteSet(UpTo(S, i)) /\ Cardinality(UpTo(S, i)) \in Nat
  <2>1. UpTo(S, i) \subseteq 1..n
    BY DEF UpTo
  <2> QED
    BY <1>1, <2>1, FS_Subset, FS_CardinalityType
<1>3. S \subseteq Nat
  OBVIOUS
<1>4. CASE i + 1 \in S
  <2>1. i + 1 \notin UpTo(S, i)
    BY DEF UpTo
  <2>2. ASSUME NEW j \in S PROVE j <= i + 1 <=> (j <= i \/ j = i + 1)
    BY <1>3
  <2>3. UpTo(S, i + 1) = UpTo(S, i) \cup {i + 1}
    BY <1>4, <2>2 DEF UpTo
  <2> QED
    BY <1>2, <1>4, <2>1, <2>3, FS_AddElement
<1>5. CASE i + 1 \notin S
  <2>1. ASSUME NEW j \in S PROVE j <= i + 1 <=> j <= i
    BY <1>3, <1>5
  <2>2. UpTo(S, i + 1) = UpTo(S, i)
    BY <2>1 DEF UpTo
  <2>3. Cardinality(UpTo(S, i + 1)) = Cardinality(UpTo(S, i)) + 0
    BY <1>2, <2>2
  <2> QED
    BY <1>2, <1>5, <2>3
<1> QED
  BY <1>4, <1>5

\* There is a k-th position for every k up to the number of positions.
LEMMA NthOf ==
  ASSUME NEW n \in Nat, NEW S \in SUBSET (1..n), NEW k \in 1..Cardinality(S)
  PROVE  Nth(S, k) \in S /\ Cardinality(UpTo(S, Nth(S, k))) = k
<1> DEFINE to(i) == UpTo(S, i)
           enough == {i \in Nat : Cardinality(to(i)) >= k}
<1>1. IsFiniteSet(S) /\ Cardinality(S) \in Nat /\ S \subseteq Nat /\ k \in Nat /\ k >= 1
  <2>1. IsFiniteSet(1..n)
    BY FS_Interval
  <2>2. IsFiniteSet(S) /\ Cardinality(S) \in Nat
    BY <2>1, FS_Subset, FS_CardinalityType
  <2> QED
    BY <2>2
<1>2. ASSUME NEW i \in Nat
      PROVE  /\ Cardinality(to(i)) \in Nat
             /\ Cardinality(to(i + 1)) = Cardinality(to(i)) + (IF i + 1 \in S THEN 1 ELSE 0)
  BY UpToNext
<1>3. to(n) = S /\ to(0) = {}
  <2>1. ASSUME NEW j \in S PROVE j <= n /\ ~(j <= 0)
    OBVIOUS
  <2> QED
    BY <2>1 DEF UpTo
<1> HIDE DEF to
<1>4. n \in enough /\ enough \in SUBSET Nat
  BY <1>1, <1>3
<1>5. PICK i \in enough : \A j \in enough : i <= j
  BY <1>4, FirstOf
<1>6. i \in Nat /\ Cardinality(to(i)) >= k
  OBVIOUS
<1>7. i # 0
  BY <1>1, <1>3, <1>6, FS_EmptySet
<1>8. i - 1 \in Nat /\ (i - 1) + 1 = i
  BY <1>6, <1>7
<1>9. Cardinality(to(i - 1)) \in Nat /\ Cardinality(to(i - 1)) < k
  <2>1. i - 1 \notin enough
    BY <1>5, <1>6, <1>8
  <2>2. Cardinality(to(i - 1)) \in Nat
    BY <1>2, <1>8
  <2> QED
    BY <1>1, <1>8, <2>1, <2>2
<1>10. Cardinality(to(i)) = Cardinality(to(i - 1)) + (IF i \in S THEN 1 ELSE 0)
  BY <1>2, <1>8
<1>11. i \in S /\ Cardinality(to(i)) = k
  BY <1>1, <1>6, <1>9, <1>10
<1>12. i \in S /\ Cardinality({j \in S : j <= i}) = k
  BY <1>11 DEF to, UpTo
<1> QED
  BY <1>12, Zenon DEF Nth, UpTo

\* _trim leaves rows of the queue in their order.
LEMMA TrimmedDrawn ==
  ASSUME NEW q \in Seq(SummaryRow), NEW done
  PROVE  /\ Trimmed(q, done) \in Seq(SummaryRow)
         /\ \E m : IsDrawnFrom(Trimmed(q, done), q, Kept(q, done), m)
<1> DEFINE rows == Kept(q, done)
           m == [k \in 1..Cardinality(rows) |-> Nth(rows, k)]
           rest == Trimmed(q, done)
<1>1. Len(q) \in Nat /\ DOMAIN q = 1..Len(q)
  BY LenProperties
<1>2. rows \in SUBSET (1..Len(q))
  BY <1>1, Zenon DEF Kept
<1>3. IsFiniteSet(rows) /\ Cardinality(rows) \in Nat
  BY <1>1, <1>2, SomeOf, FS_CardinalityType
<1>4. rest = [k \in 1..Cardinality(rows) |-> q[Nth(rows, k)]]
  BY Zenon DEF Trimmed
<1> HIDE DEF rows, rest
<1>5. ASSUME NEW k \in 1..Cardinality(rows)
      PROVE  m[k] \in rows /\ Cardinality(UpTo(rows, m[k])) = k
  BY <1>1, <1>2, <1>5, NthOf
<1>6. ASSUME NEW k \in 1..Cardinality(rows)
      PROVE  m[k] \in DOMAIN q /\ rest[k] = q[m[k]] /\ rest[k] \in SummaryRow
  <2>1. m[k] \in DOMAIN q
    BY <1>1, <1>2, <1>5
  <2>2. rest[k] = q[m[k]]
    BY <1>4
  <2> QED
    BY <2>1, <2>2, ElementOfSeq
<1>7. DOMAIN rest = 1..Cardinality(rows)
  BY <1>4
<1>8. rest \in Seq(SummaryRow)
  <2>1. rest = [k \in 1..Cardinality(rows) |-> rest[k]]
    BY <1>4
  <2> QED
    BY <1>3, <1>6, <2>1
<1>9. m \in [DOMAIN rest -> DOMAIN q]
  <2>1. m = [k \in 1..Cardinality(rows) |-> m[k]]
    OBVIOUS
  <2> HIDE DEF m
  <2> QED
    BY <1>6, <1>7, <2>1
<1> HIDE DEF m
<1>10. ASSUME NEW k \in DOMAIN rest, NEW l \in DOMAIN rest, k < l PROVE m[k] < m[l]
  <2>1. /\ m[k] \in rows /\ m[l] \in rows
        /\ Cardinality(UpTo(rows, m[k])) = k /\ Cardinality(UpTo(rows, m[l])) = l
    BY <1>5, <1>7
  <2>2. rows \subseteq Nat /\ m[k] \in Nat /\ m[l] \in Nat
    <3>1. \A j \in rows : j \in Nat
      BY <1>1, <1>2
    <3> QED
      BY <2>1, <3>1, Zenon
  <2>3. ASSUME m[l] <= m[k] PROVE FALSE
    <3>0. ASSUME NEW j \in rows, j <= m[l] PROVE j <= m[k]
      BY <2>2, <2>3, <3>0
    <3>1. UpTo(rows, m[l]) \subseteq UpTo(rows, m[k]) /\ UpTo(rows, m[k]) \subseteq rows
      BY <3>0, Zenon DEF UpTo
    <3>2. Cardinality(UpTo(rows, m[l])) <= Cardinality(UpTo(rows, m[k]))
      BY <1>3, <3>1, FS_Subset
    <3>3. k \in Nat /\ l \in Nat
      BY <1>3, <1>7
    <3> QED
      BY <1>10, <2>1, <3>2, <3>3
  <2> QED
    BY <2>2, <2>3
<1>11. IsDrawnFrom(rest, q, rows, m)
  <2>1. \A k \in DOMAIN rest : m[k] \in rows
    BY <1>5, <1>7
  <2>2. \A k \in DOMAIN rest : rest[k] = q[m[k]]
    BY <1>6, <1>7
  <2> QED
    BY <1>9, <1>10, <2>1, <2>2, Zenon DEF IsDrawnFrom
<1> QED
  BY <1>8, <1>11, Zenon DEF rows, rest

\* Both DELETEs together leave of a class no more rows than its cap allows.
LEMMA KeptFits ==
  ASSUME NEW q \in Seq(SummaryRow), NEW b \in BOOLEAN
  PROVE  Cardinality(Rows(q, b) \cap Kept(q, BOOLEAN)) <= CapOf(b)
<1> DEFINE left == Rows(q, b) \cap Kept(q, BOOLEAN)
<1>0. SUFFICES Cardinality(left) <= CapOf(b)
  OBVIOUS
<1>1. left \subseteq DOMAIN q /\ DOMAIN q \subseteq Nat
  <2>1. Rows(q, b) \subseteq DOMAIN q
    BY Zenon DEF Rows
  <2> QED
    BY <2>1, LenProperties
<1>2. IsFiniteSet(left)
  BY <1>1, SomeOf
<1>3. CapOf(b) \in Nat /\ CapOf(b) >= 1
  BY RowsAssumption DEF CapOf
<1>4. CASE left = {}
  <2> HIDE DEF left
  <2> QED
    BY <1>3, <1>4, FS_EmptySet
<1>5. CASE left # {}
  <2>1. PICK f \in left : \A i \in left : f <= i
    <3> HIDE DEF left
    <3> QED
      BY <1>1, <1>5, FirstOf
  <2>2. f \in Kept(q, BOOLEAN) /\ f \in DOMAIN q /\ IsPeriodic(q[f]) = b
    BY Zenon DEF Rows
  <2>3. Cardinality(Newer(q, f)) < CapOf(b)
    BY <2>2, Zenon DEF Kept
  <2>4. left \ {f} \subseteq Newer(q, f)
    <3> SUFFICES ASSUME NEW i \in left, i # f PROVE i \in Newer(q, f)
      OBVIOUS
    <3>1. i \in DOMAIN q /\ IsPeriodic(q[i]) = b
      BY Zenon DEF Rows
    <3>2. f < i
      <4>1. f <= i /\ f \in Nat /\ i \in Nat
        BY <1>1, <2>1, <2>2, <3>1
      <4> QED
        BY <4>1
    <3> QED
      BY <2>2, <3>1, <3>2, Zenon DEF Newer
  <2> HIDE DEF left
  <2>5. IsFiniteSet(Newer(q, f)) /\ Cardinality(Newer(q, f)) \in Nat
    <3>1. Newer(q, f) \in SUBSET DOMAIN q
      BY Zenon DEF Newer
    <3> QED
      BY <3>1, SomeOf, FS_CardinalityType
  <2>6. Cardinality(left \ {f}) <= Cardinality(Newer(q, f))
    BY <2>4, <2>5, FS_Subset
  <2>7. Cardinality(left \ {f}) = Cardinality(left) - 1 /\ Cardinality(left) \in Nat
    BY <1>2, FS_RemoveElement, FS_CardinalityType
  <2> QED
    BY <1>3, <2>3, <2>5, <2>6, <2>7
<1> QED
  BY <1>4, <1>5

\* A new row is one more of its class, behind the batch in flight.
LEMMA InsertFits ==
  ASSUME NEW p, NEW k \in Nat, QueueFits(p, k), NEW row \in SummaryRow, ~row.sent
  PROVE  QueueFits(Append(p, row), k + 1)
<1> DEFINE n == Len(p)
           q == Append(p, row)
           b == IsPeriodic(row)
<1>0. p \in Seq(SummaryRow) /\ b \in BOOLEAN
  BY DEF QueueFits, IsPeriodic
<1>1. n \in Nat /\ DOMAIN p = 1..n
  BY <1>0, LenProperties
<1>2. /\ q \in Seq(SummaryRow) /\ Len(q) = n + 1 /\ q[n + 1] = row
      /\ \A i \in 1..n : q[i] = p[i]
  BY <1>0, AppendProperties
<1>3. DOMAIN q = 1..(n + 1)
  BY <1>2, LenProperties
<1> HIDE DEF n, q, b
<1>4. BatchIsOldest(q)
  <2> SUFFICES ASSUME NEW i \in DOMAIN q, NEW j \in DOMAIN q, i < j, q[j].sent
               PROVE q[i].sent
    BY Zenon DEF BatchIsOldest
  <2>1. j # n + 1
    BY <1>2
  <2>2. i \in 1..n /\ j \in 1..n
    BY <1>1, <1>3, <2>1
  <2> QED
    BY <1>1, <1>2, <2>2, Zenon DEF QueueFits, BatchIsOldest
<1>5. ASSUME NEW c \in BOOLEAN, c # b PROVE Rows(q, c) = Rows(p, c)
  <2>1. ASSUME NEW i \in DOMAIN q PROVE i \in Rows(q, c) <=> i \in Rows(p, c)
    <3>1. CASE i = n + 1
      BY <1>1, <1>2, <1>5, <3>1 DEF Rows, b
    <3>2. CASE i # n + 1
      <4>1. i \in 1..n
        BY <1>1, <1>3, <3>2
      <4> QED
        BY <1>1, <1>2, <4>1, Zenon DEF Rows
    <3> QED
      BY <3>1, <3>2
  <2>2. Rows(q, c) \subseteq DOMAIN q /\ Rows(p, c) \subseteq DOMAIN p
    BY Zenon DEF Rows
  <2>3. DOMAIN p \subseteq DOMAIN q
    BY <1>1, <1>3
  <2> QED
    BY <2>1, <2>2, <2>3
<1>6. Rows(q, b) \subseteq Rows(p, b) \cup {n + 1}
  <2> SUFFICES ASSUME NEW i \in Rows(q, b), i # n + 1 PROVE i \in Rows(p, b)
    OBVIOUS
  <2>1. i \in DOMAIN q /\ IsPeriodic(q[i]) = b
    BY Zenon DEF Rows
  <2>2. i \in 1..n
    BY <1>1, <1>3, <2>1
  <2> QED
    BY <1>1, <1>2, <2>1, <2>2, Zenon DEF Rows
<1>7. \A c \in BOOLEAN : IsFiniteSet(Rows(p, c)) /\ Cardinality(Rows(p, c)) \in Nat
                         /\ IsFiniteSet(Rows(q, c)) /\ Cardinality(Rows(q, c)) \in Nat
  <2> SUFFICES ASSUME NEW c \in BOOLEAN
               PROVE IsFiniteSet(Rows(p, c)) /\ Cardinality(Rows(p, c)) \in Nat
                     /\ IsFiniteSet(Rows(q, c)) /\ Cardinality(Rows(q, c)) \in Nat
    OBVIOUS
  <2>1. Rows(p, c) \in SUBSET DOMAIN p /\ Rows(q, c) \in SUBSET DOMAIN q
    BY Zenon DEF Rows
  <2>2. IsFiniteSet(Rows(p, c)) /\ IsFiniteSet(Rows(q, c))
    BY <1>0, <1>2, <2>1, SomeOf
  <2> QED
    BY <2>2, FS_CardinalityType
<1>8. Cardinality(Rows(q, b)) <= CapOf(b) + (k + 1)
  <2>1. /\ IsFiniteSet(Rows(p, b) \cup {n + 1})
        /\ Cardinality(Rows(p, b) \cup {n + 1}) =
              IF n + 1 \in Rows(p, b) THEN Cardinality(Rows(p, b))
              ELSE Cardinality(Rows(p, b)) + 1
    BY <1>0, <1>7, FS_AddElement
  <2>2. Cardinality(Rows(q, b)) <= Cardinality(Rows(p, b) \cup {n + 1})
    BY <1>6, <2>1, FS_Subset
  <2>3. Cardinality(Rows(p, b)) <= CapOf(b) + k /\ CapOf(b) \in Nat
    BY <1>0, RowsAssumption DEF QueueFits, KeepsCaps, CapOf
  <2>4. Cardinality(Rows(p, b)) \in Nat /\ Cardinality(Rows(q, b)) \in Nat
    BY <1>0, <1>7
  <2> QED
    BY <2>1, <2>2, <2>3, <2>4
<1>9. ASSUME NEW c \in BOOLEAN PROVE Cardinality(Rows(q, c)) <= CapOf(c) + (k + 1)
  <2>1. CASE c = b
    BY <1>8, <2>1
  <2>2. CASE c # b
    <3>1. Cardinality(Rows(q, c)) <= CapOf(c) + k /\ Cardinality(Rows(q, c)) \in Nat
      BY <1>5, <1>7, <2>2, Zenon DEF QueueFits, KeepsCaps
    <3>2. CapOf(c) \in Nat
      BY RowsAssumption DEF CapOf
    <3> QED
      BY <3>1, <3>2
  <2> QED
    BY <2>1, <2>2
<1> QED
  BY <1>2, <1>4, <1>9, Zenon DEF QueueFits, KeepsCaps, q

\* enqueue keeps to the caps whatever was too much before it, and lets one more
\* row through if _trim fails, and puts no row before the batch in flight.
LEMMA EnqueueFits ==
  ASSUME NEW p, NEW k \in Nat, QueueFits(p, k), NEW row \in SummaryRow, ~row.sent, NEW done
  PROVE  /\ QueueFits(Trimmed(Append(p, row), done), k + 1)
         /\ QueueFits(Trimmed(Append(p, row), BOOLEAN), k)
<1> DEFINE q == Append(p, row)
<1>1. QueueFits(q, k + 1) /\ k + 1 \in Nat
  BY InsertFits
<1>2. q \in Seq(SummaryRow)
  BY <1>1, Zenon DEF QueueFits
<1> HIDE DEF q
<1>3. ASSUME NEW any PROVE QueueFits(Trimmed(q, any), k + 1)
  <2>1. PICK m : IsDrawnFrom(Trimmed(q, any), q, Kept(q, any), m)
    BY <1>2, TrimmedDrawn, Zenon
  <2>2. Trimmed(q, any) \in Seq(SummaryRow)
    BY <1>2, TrimmedDrawn, Zenon
  <2> QED
    BY <1>1, <2>1, <2>2, DrawnFits, Zenon
<1>4. ASSUME NEW b \in BOOLEAN
      PROVE  Cardinality(Rows(Trimmed(q, BOOLEAN), b)) <= CapOf(b) + k
  <2> DEFINE rest == Trimmed(q, BOOLEAN)
             left == Rows(q, b) \cap Kept(q, BOOLEAN)
  <2>1. rest \in Seq(SummaryRow) /\ \E m : IsDrawnFrom(rest, q, Kept(q, BOOLEAN), m)
    BY <1>2, TrimmedDrawn, Zenon
  <2>2. PICK m : IsDrawnFrom(rest, q, Kept(q, BOOLEAN), m)
    BY <2>1, Zenon
  <2>3. Cardinality(Rows(rest, b)) <= Cardinality(left)
    BY <1>2, <2>1, <2>2, DrawnRows, Zenon
  <2>4. Cardinality(left) <= CapOf(b)
    BY <1>2, KeptFits, Zenon
  <2>5. Rows(rest, b) \in SUBSET DOMAIN rest /\ left \in SUBSET DOMAIN q
    BY Zenon DEF Rows
  <2> HIDE DEF rest, left
  <2>6. Cardinality(Rows(rest, b)) \in Nat /\ Cardinality(left) \in Nat /\ CapOf(b) \in Nat
    BY <1>2, <2>1, <2>5, SomeOf, RowsAssumption, FS_CardinalityType DEF CapOf
  <2>7. Cardinality(Rows(rest, b)) <= CapOf(b) + k
    BY <2>3, <2>4, <2>6
  <2> QED
    BY <2>7 DEF rest
<1>5. QueueFits(Trimmed(q, BOOLEAN), k)
  <2>1. QueueFits(Trimmed(q, BOOLEAN), k + 1)
    BY <1>3, Zenon
  <2> QED
    BY <1>4, <2>1, Zenon DEF QueueFits, KeepsCaps
<1> QED
  BY <1>3, <1>5, Zenon DEF q

\* What is too much of one class remains allowed when more is.
LEMMA MoreFits ==
  ASSUME NEW q, NEW k \in Nat, QueueFits(q, k) PROVE QueueFits(q, k + 1)
<1>1. ASSUME NEW b \in BOOLEAN PROVE Cardinality(Rows(q, b)) <= CapOf(b) + (k + 1)
  <2>1. q \in Seq(SummaryRow) /\ Rows(q, b) \in SUBSET DOMAIN q
    BY Zenon DEF QueueFits, Rows
  <2>2. Cardinality(Rows(q, b)) \in Nat /\ CapOf(b) \in Nat
    BY <2>1, SomeOf, RowsAssumption, FS_CardinalityType DEF CapOf
  <2>3. Cardinality(Rows(q, b)) <= CapOf(b) + k
    BY Zenon DEF QueueFits, KeepsCaps
  <2> QED
    BY <2>2, <2>3
<1> QED
  BY <1>1, Zenon DEF QueueFits, KeepsCaps

\* A queue from which the first rows are gone is still one.
LEMMA EndFits ==
  ASSUME NEW q, NEW c \in Nat, QueueFits(q, c), NEW k \in 0..Len(q)
  PROVE  QueueFits(SubSeq(q, k + 1, Len(q)), c)
<1> DEFINE rest == SubSeq(q, k + 1, Len(q))
           m == [i \in DOMAIN rest |-> i + k]
<1>0. q \in Seq(SummaryRow)
  BY DEF QueueFits
<1>1. IsEndOf(rest, SummaryRow, q, k)
  BY <1>0, EndOf
<1>2. k \in Nat
  BY <1>0, LenProperties
<1> HIDE DEF rest
<1>3. /\ rest \in Seq(SummaryRow) /\ DOMAIN rest \subseteq Int
      /\ \A i \in DOMAIN rest : m[i] \in DOMAIN q /\ rest[i] = q[m[i]]
  BY <1>1, LenProperties DEF IsEndOf
<1>4. ASSUME NEW i \in DOMAIN rest, NEW j \in DOMAIN rest, i < j PROVE m[i] < m[j]
  BY <1>2, <1>3, <1>4
<1>5. m \in [DOMAIN rest -> DOMAIN q]
  <2>1. m = [i \in DOMAIN rest |-> m[i]]
    OBVIOUS
  <2> HIDE DEF m
  <2> QED
    BY <1>3, <2>1
<1> HIDE DEF m
<1>6. IsDrawnFrom(rest, q, DOMAIN q, m)
  BY <1>3, <1>4, <1>5, Zenon DEF IsDrawnFrom
<1> QED
  BY <1>3, <1>6, DrawnFits DEF rest

\* Rows may be marked as sent or not, if the marked ones are the oldest.
LEMMA MarkedFits ==
  ASSUME NEW q, NEW c \in Nat, QueueFits(q, c), NEW t \in [DOMAIN q -> BOOLEAN],
         \A i, j \in DOMAIN q : i < j /\ t[j] => t[i]
  PROVE  QueueFits([i \in DOMAIN q |-> [q[i] EXCEPT !.sent = t[i]]], c)
<1> DEFINE n == Len(q)
           r == [i \in DOMAIN q |-> [q[i] EXCEPT !.sent = t[i]]]
<1>1. q \in Seq(SummaryRow) /\ n \in Nat /\ DOMAIN q = 1..n
  BY LenProperties DEF QueueFits
<1>2. ASSUME NEW i \in DOMAIN q
      PROVE  r[i] \in SummaryRow /\ r[i].sent = t[i] /\ r[i].kind = q[i].kind
  <2>1. q[i] \in SummaryRow /\ t[i] \in BOOLEAN
    BY <1>1, ElementOfSeq
  <2>2. r[i] = [q[i] EXCEPT !.sent = t[i]]
    OBVIOUS
  <2> HIDE DEF r
  <2> QED
    BY <2>1, <2>2 DEF SummaryRow
<1>3. DOMAIN r = DOMAIN q
  OBVIOUS
<1>4. r = [i \in 1..n |-> r[i]]
  BY <1>1
<1> HIDE DEF r, n
<1>5. r \in Seq(SummaryRow)
  BY <1>1, <1>2, <1>4
<1>6. BatchIsOldest(r)
  BY <1>2, <1>3, Zenon DEF BatchIsOldest
<1>7. ASSUME NEW b \in BOOLEAN PROVE Rows(r, b) = Rows(q, b)
  <2>1. \A i \in DOMAIN q : IsPeriodic(r[i]) = IsPeriodic(q[i])
    BY <1>2, Zenon DEF IsPeriodic
  <2> QED
    BY <1>3, <2>1, Zenon DEF Rows
<1>8. KeepsCaps(r, c)
  BY <1>7, Zenon DEF KeepsCaps, QueueFits
<1> QED
  BY <1>5, <1>6, <1>8 DEF QueueFits, r

LEMMA UnsentFits ==
  ASSUME NEW c \in Nat, QueueFits(outbound, c) PROVE QueueFits(Unsent, c)
<1> DEFINE t == [i \in DOMAIN outbound |-> FALSE]
<1>1. t \in [DOMAIN outbound -> BOOLEAN] /\ \A i \in DOMAIN outbound : t[i] = FALSE
  OBVIOUS
<1>2. Unsent = [i \in DOMAIN outbound |-> [outbound[i] EXCEPT !.sent = t[i]]]
  BY DEF Unsent
<1> HIDE DEF t
<1> QED
  BY <1>1, <1>2, MarkedFits, Zenon

-----------------------------------------------------------------------------
(* The window of a device and its cache.                                   *)

\* An event that an entry of the cache does not cover is so old that it may be
\* repeated.
Covered(log, cache) ==
    \A i \in DOMAIN log :
        \/ log[i].age = Expired \/ log[i].age >= Dedup
        \/ cache[log[i].sig] # Never /\ log[i].age >= cache[log[i].sig]

\* What BurstCountsOnce says of the window of one device.
Apart(log) ==
    \A i, j \in DOMAIN log :
        i < j /\ log[i].sig = log[j].sig /\ log[i].age < Expired
            => log[i].age - log[j].age >= Dedup - MaxDelay

LEMMA EventsOf ==
  ASSUME NEW log \in Seq(Event)
  PROVE  /\ DOMAIN log \subseteq Nat
         /\ \A i \in DOMAIN log :
               log[i] \in Event /\ log[i].age \in 0..Expired /\ log[i].sig \in Signatures
<1>1. DOMAIN log \subseteq Nat /\ \A i \in DOMAIN log : log[i] \in Event
  BY LenProperties, ElementOfSeq
<1> QED
  BY <1>1 DEF Event

\* Evicting leaves neither uncovered events nor repetitions.
LEMMA EvictKeeps ==
  ASSUME NEW log \in Seq(Event), NEW cache, Covered(log, cache), Apart(log), NEW now
  PROVE  /\ Evict(log, now) \in Seq(Event)
         /\ Covered(Evict(log, now), cache) /\ Apart(Evict(log, now))
<1> DEFINE rest == Evict(log, now)
<1>1. PICK k \in 0..Len(log) : IsEndOf(rest, Event, log, k)
  BY EvictLeavesEnd
<1>2. k \in Int
  OBVIOUS
<1> HIDE DEF rest
<1>3. /\ rest \in Seq(Event) /\ DOMAIN rest \subseteq Int
      /\ \A i \in DOMAIN rest : i + k \in DOMAIN log /\ rest[i] = log[i + k]
  BY <1>1, LenProperties DEF IsEndOf
<1>4. Covered(rest, cache)
  BY <1>3, Zenon DEF Covered
<1>5. Apart(rest)
  <2> SUFFICES ASSUME NEW i \in DOMAIN rest, NEW j \in DOMAIN rest,
                      i < j, rest[i].sig = rest[j].sig, rest[i].age < Expired
               PROVE rest[i].age - rest[j].age >= Dedup - MaxDelay
    BY Zenon DEF Apart
  <2>1. i + k < j + k
    BY <1>2, <1>3
  <2> QED
    BY <1>3, <2>1, Zenon DEF Apart
<1> QED
  BY <1>3, <1>4, <1>5 DEF rest

\* An entry that is dropped covered only events that may be repeated.
LEMMA ForgettingKeeps ==
  ASSUME NEW log \in Seq(Event), NEW cache \in [Signatures -> CacheEntry],
         Covered(log, cache), NEW now \in Nat
  PROVE  Covered(log, Remembered(cache, now))
<1> DEFINE after == Remembered(cache, now)
<1>1. \A s \in Signatures :
         \/ after[s] = cache[s]
         \/ after[s] = Never /\ (cache[s] = Never \/ (cache[s] \in Nat /\ cache[s] - now >= Dedup))
  BY RememberedIs
<1> HIDE DEF after
<1> SUFFICES ASSUME NEW i \in DOMAIN log
             PROVE  \/ log[i].age = Expired \/ log[i].age >= Dedup
                    \/ after[log[i].sig] # Never /\ log[i].age >= after[log[i].sig]
  BY Zenon DEF Covered, after
<1> DEFINE a == log[i].age
           s == log[i].sig
<1>2. a \in Nat /\ s \in Signatures /\ Dedup \in Nat
  BY EventsOf, Times
<1>3. a = Expired \/ a >= Dedup \/ (cache[s] # Never /\ a >= cache[s])
  BY Zenon DEF Covered
<1>4. \/ after[s] = cache[s]
      \/ after[s] = Never /\ (cache[s] = Never \/ (cache[s] \in Nat /\ cache[s] - now >= Dedup))
  BY <1>1, <1>2
<1> HIDE DEF a, s
<1>5. a = Expired \/ a >= Dedup \/ (after[s] # Never /\ a >= after[s])
  BY <1>2, <1>3, <1>4
<1> QED
  BY <1>5 DEF a, s

\* An event that is no repetition is far enough from those of its signature.
LEMMA AppendKeeps ==
  ASSUME NEW log \in Seq(Event), NEW cache \in [Signatures -> CacheEntry],
         Covered(log, cache), Apart(log), NEW e \in Event, e.age <= MaxDelay,
         cache[e.sig] # Never => ~(cache[e.sig] - e.age < Dedup)
  PROVE  /\ Append(log, e) \in Seq(Event)
         /\ [cache EXCEPT ![e.sig] = e.age] \in [Signatures -> CacheEntry]
         /\ Covered(Append(log, e), [cache EXCEPT ![e.sig] = e.age])
         /\ Apart(Append(log, e))
<1> DEFINE n == Len(log)
           longer == Append(log, e)
           after == [cache EXCEPT ![e.sig] = e.age]
           h == e.age
           s == e.sig
<1>0. /\ Dedup \in Nat /\ MaxDelay \in Nat /\ Expired \in Nat /\ Forgotten \in Nat
      /\ MaxDelay <= Forgotten
  BY Times
<1>1. h \in Nat /\ s \in Signatures /\ h <= MaxDelay
  BY DEF Event
<1>2. n \in Nat /\ DOMAIN log = 1..n
  BY LenProperties
<1>3. /\ longer \in Seq(Event) /\ Len(longer) = n + 1 /\ longer[n + 1] = e
      /\ \A i \in 1..n : longer[i] = log[i]
  BY AppendProperties
<1>4. DOMAIN longer = 1..(n + 1)
  BY <1>3, LenProperties
<1>5. /\ after \in [Signatures -> CacheEntry] /\ after[s] = h
      /\ \A x \in Signatures : x # s => after[x] = cache[x]
  BY <1>0, <1>1 DEF CacheEntry
<1>6. h # Never /\ (cache[s] = Never \/ cache[s] \in Nat)
  BY <1>0, <1>1, NeverAssumption DEF CacheEntry
<1> HIDE DEF n, longer, after
<1>7. ASSUME NEW i \in 1..n, log[i].sig = s, log[i].age # Expired
      PROVE  log[i].age >= Dedup
  <2>1. log[i].age \in Nat
    BY <1>2, EventsOf
  <2>2. log[i].age >= Dedup \/ (cache[s] # Never /\ log[i].age >= cache[s])
    BY <1>2, <1>7, Zenon DEF Covered
  <2> DEFINE a == log[i].age
             c == cache[s]
  <2>3. c = Never \/ ~(c - h < Dedup)
    OBVIOUS
  <2>4. a \in Nat /\ (c = Never \/ c \in Nat) /\ (a >= Dedup \/ (c # Never /\ a >= c))
    BY <1>6, <2>1, <2>2
  <2> HIDE DEF a, c
  <2>5. a >= Dedup
    BY <1>0, <1>1, <2>3, <2>4
  <2> QED
    BY <2>5 DEF a
<1>8. Covered(longer, after)
  <2> SUFFICES ASSUME NEW i \in DOMAIN longer
               PROVE  \/ longer[i].age = Expired \/ longer[i].age >= Dedup
                      \/ /\ after[longer[i].sig] # Never
                         /\ longer[i].age >= after[longer[i].sig]
    BY Zenon DEF Covered
  <2>1. CASE i = n + 1
    <3>1. longer[i].age = h /\ longer[i].sig = s
      BY <1>3, <2>1
    <3>2. h >= h
      BY <1>1
    <3> QED
      BY <1>5, <1>6, <3>1, <3>2, Zenon
  <2>2. CASE i # n + 1
    <3>1. i \in 1..n
      BY <1>2, <1>4, <2>2
    <3>2. longer[i] = log[i] /\ log[i].sig \in Signatures
      BY <1>2, <1>3, <3>1, EventsOf
    <3>3. CASE log[i].sig = s
      BY <1>7, <3>1, <3>2, <3>3, Zenon
    <3>4. CASE log[i].sig # s
      BY <1>2, <1>5, <3>1, <3>2, <3>4, Zenon DEF Covered
    <3> QED
      BY <3>3, <3>4
  <2> QED
    BY <2>1, <2>2
<1>9. Apart(longer)
  <2> SUFFICES ASSUME NEW i \in DOMAIN longer, NEW j \in DOMAIN longer,
                      i < j, longer[i].sig = longer[j].sig, longer[i].age < Expired
               PROVE longer[i].age - longer[j].age >= Dedup - MaxDelay
    BY Zenon DEF Apart
  <2>1. i \in 1..n
    BY <1>2, <1>4
  <2>2. longer[i] = log[i] /\ log[i].age \in Nat
    BY <1>2, <1>3, <2>1, EventsOf
  <2>3. CASE j = n + 1
    <3>1. log[i].sig = s /\ longer[j].age = h
      BY <1>3, <2>2, <2>3
    <3>2. log[i].age # Expired
      BY <1>0, <2>2
    <3>3. log[i].age >= Dedup
      BY <1>7, <2>1, <3>1, <3>2
    <3> QED
      BY <1>0, <1>1, <2>2, <3>1, <3>3
  <2>4. CASE j # n + 1
    <3>1. j \in 1..n
      BY <1>2, <1>4, <2>4
    <3> QED
      BY <1>2, <1>3, <2>1, <3>1, Zenon DEF Apart
  <2> QED
    BY <2>3, <2>4
<1> QED
  BY <1>3, <1>5, <1>8, <1>9 DEF longer, after

\* Time moves events and entries apart from the present alike.
LEMMA AgeingKeeps ==
  ASSUME NEW log \in Seq(Event), NEW cache \in [Signatures -> CacheEntry],
         Covered(log, cache), Apart(log),
         NEW aged, aged = [i \in DOMAIN log |->
                             [log[i] EXCEPT !.age = Older(log[i].age, Expired)]],
         NEW kept, kept = [s \in Signatures |-> Older(cache[s], Forgotten)]
  PROVE  /\ aged \in Seq(Event) /\ kept \in [Signatures -> CacheEntry]
         /\ Covered(aged, kept) /\ Apart(aged)
<1> DEFINE n == Len(log)
<1>0. /\ Dedup \in Nat /\ MaxDelay \in Nat /\ Expired \in Nat /\ Forgotten \in Nat
      /\ MaxDelay < Expired /\ Dedup <= Forgotten
  BY Times
<1>1. n \in Nat /\ DOMAIN log = 1..n
  BY LenProperties
<1> HIDE DEF n
<1>2. ASSUME NEW i \in DOMAIN log
      PROVE  /\ log[i].age \in 0..Expired /\ aged[i] \in Event /\ aged[i].sig = log[i].sig
             /\ \/ log[i].age = Expired /\ aged[i].age = Expired
                \/ log[i].age < Expired /\ aged[i].age = log[i].age + 1
  <2> DEFINE e == log[i]
             x == Older(log[i].age, Expired)
  <2>0. aged[i] = [e EXCEPT !.age = x]
    BY Zenon
  <2>1. e \in Event /\ e.age \in 0..Expired /\ e.sig \in Signatures
    BY EventsOf, Zenon
  <2>2. aged[i].age = x /\ aged[i].sig = e.sig /\ aged[i] = [age |-> x, sig |-> e.sig]
    <3> HIDE DEF e, x
    <3> QED
      BY <2>0, <2>1 DEF Event
  <2>3. \/ log[i].age = Never
        \/ log[i].age = Expired /\ Older(log[i].age, Expired) = Expired
        \/ /\ log[i].age \in 0..(Expired - 1)
           /\ Older(log[i].age, Expired) = log[i].age + 1
    BY <1>0, <2>1, OlderIs
  <2>4. log[i].age # Never
    BY <1>0, <2>1, NeverAssumption
  <2>5. \/ log[i].age = Expired /\ aged[i].age = Expired
        \/ log[i].age < Expired /\ aged[i].age = log[i].age + 1
    BY <1>0, <2>1, <2>2, <2>3, <2>4
  <2>6. aged[i].age \in 0..Expired
    BY <1>0, <2>1, <2>5
  <2>7. aged[i] \in Event
    BY <2>1, <2>2, <2>6 DEF Event
  <2> QED
    BY <2>1, <2>2, <2>5, <2>7
<1>3. ASSUME NEW s \in Signatures
      PROVE  /\ kept[s] \in CacheEntry
             /\ \/ cache[s] = Never /\ kept[s] = Never
                \/ cache[s] \in Nat /\ cache[s] >= Dedup /\ kept[s] = cache[s]
                \/ cache[s] \in Nat /\ kept[s] = cache[s] + 1
  <2>1. cache[s] \in (0..Forgotten) \cup {Never} /\ kept[s] = Older(cache[s], Forgotten)
    BY DEF CacheEntry
  <2>2. \/ cache[s] = Never /\ kept[s] = Never
        \/ cache[s] = Forgotten /\ kept[s] = Forgotten
        \/ cache[s] \in 0..(Forgotten - 1) /\ kept[s] = cache[s] + 1
    BY <1>0, <2>1, OlderIs
  <2> QED
    BY <1>0, <2>2 DEF CacheEntry
<1>4. DOMAIN aged = 1..n /\ aged = [i \in 1..n |-> aged[i]]
  BY <1>1
<1>5. aged \in Seq(Event)
  <2>1. \A i \in 1..n : aged[i] \in Event
    BY <1>1, <1>2
  <2> QED
    BY <1>1, <1>4, <2>1
<1>6. kept \in [Signatures -> CacheEntry]
  BY <1>3
<1>7. Covered(aged, kept)
  <2> SUFFICES ASSUME NEW i \in 1..n
               PROVE  \/ aged[i].age = Expired \/ aged[i].age >= Dedup
                      \/ kept[aged[i].sig] # Never /\ aged[i].age >= kept[aged[i].sig]
    BY <1>4, Zenon DEF Covered
  <2> DEFINE a == log[i].age
             s == log[i].sig
             c == cache[s]
             b == aged[i].age
             k == kept[s]
  <2>1. a = Expired \/ a >= Dedup \/ (c # Never /\ a >= c)
    BY <1>1, Zenon DEF Covered
  <2>2. /\ a \in 0..Expired /\ aged[i].sig = s
        /\ (a = Expired /\ b = Expired) \/ (a < Expired /\ b = a + 1)
    BY <1>1, <1>2
  <2>3. s \in Signatures
    BY <1>1, EventsOf
  <2>4. \/ c = Never /\ k = Never
        \/ c \in Nat /\ c >= Dedup /\ k = c
        \/ c \in Nat /\ k = c + 1
    BY <1>3, <2>3
  <2> HIDE DEF a, b, c, k, s
  <2>5. b = Expired \/ b >= Dedup \/ (k # Never /\ b >= k)
    BY <1>0, <2>1, <2>2, <2>4, NeverAssumption
  <2> QED
    BY <2>2, <2>5 DEF a, b, c, k
<1>8. Apart(aged)
  <2> SUFFICES ASSUME NEW i \in 1..n, NEW j \in 1..n,
                      i < j, aged[i].sig = aged[j].sig, aged[i].age < Expired
               PROVE aged[i].age - aged[j].age >= Dedup - MaxDelay
    BY <1>4, Zenon DEF Apart
  <2> DEFINE a == log[i].age
             b == log[j].age
             x == aged[i].age
             y == aged[j].age
  <2>1. i \in DOMAIN log /\ j \in DOMAIN log
    BY <1>1
  <2>2. /\ a \in 0..Expired /\ b \in 0..Expired
        /\ (a = Expired /\ x = Expired) \/ (a < Expired /\ x = a + 1)
        /\ (b = Expired /\ y = Expired) \/ (b < Expired /\ y = b + 1)
        /\ log[i].sig = log[j].sig /\ x < Expired
    BY <1>2, <2>1, Zenon
  <2>3. a < Expired => a - b >= Dedup - MaxDelay
    BY <2>1, <2>2, Zenon DEF Apart
  <2> HIDE DEF a, b, x, y
  <2>4. x - y >= Dedup - MaxDelay
    BY <1>0, <2>2, <2>3
  <2> QED
    BY <2>4 DEF x, y
<1> QED
  BY <1>5, <1>6, <1>7, <1>8

-----------------------------------------------------------------------------
(* Types, caps and bursts.                                                 *)

\* SyslogTypeOK without what it says of the queue and the windows.
Types ==
    /\ lastSeen \in [Devices -> (0..Silent) \cup {Never}]
    /\ lastStatus \in [Devices -> Health]
    /\ heard \in [device : Devices, sig : Signatures, age : 0..MaxDelay] \cup {Never}
    /\ phase \in {"waiting", "read", "summing", "ended"}
    /\ asOf \in 0..MaxDelay /\ todo \subseteq Devices
    /\ answer \in {"none", "ok", "failed"} /\ late \subseteq LateMessage
    /\ cloud \in [Devices -> Health] /\ alerted \in [Devices -> Health]
    /\ astray \subseteq Devices /\ troubles \in 0..MaxTroubles

WindowsFit ==
    /\ events \in [Devices -> Seq(Event)]
    /\ dedupCache \in [Devices -> [Signatures -> CacheEntry]]
    /\ \A d \in Devices : Covered(events[d], dedupCache[d]) /\ Apart(events[d])

SyslogInv == Types /\ QueueFits(outbound, troubles) /\ WindowsFit

LEMMA SyslogInvGives == SyslogInv => SyslogTypeOK /\ BurstCountsOnce
<1> SUFFICES ASSUME SyslogInv PROVE SyslogTypeOK /\ BurstCountsOnce
  OBVIOUS
<1>1. /\ outbound \in Seq(SummaryRow)
      /\ \A i, j \in DOMAIN outbound : i < j /\ outbound[j].sent => outbound[i].sent
  BY Zenon DEF SyslogInv, QueueFits, BatchIsOldest
<1>2. \A b \in BOOLEAN : Cardinality(Rows(outbound, b)) <= CapOf(b) + troubles
  BY Zenon DEF SyslogInv, QueueFits, KeepsCaps
<1>3. SyslogTypeOK
  BY <1>1, <1>2, Zenon DEF SyslogInv, Types, WindowsFit, SyslogTypeOK, Event, CacheEntry
<1>4. BurstCountsOnce
  BY Zenon DEF SyslogInv, WindowsFit, Apart, BurstCountsOnce
<1> QED
  BY <1>3, <1>4

LEMMA SyslogInvInit == SyslogInit => SyslogInv
<1> SUFFICES ASSUME SyslogInit PROVE SyslogInv
  OBVIOUS
<1>1. \A d \in Devices : events[d] = <<>>
  BY DEF SyslogInit
<1>2. DOMAIN <<>> = {}
  OBVIOUS
<1>3. WindowsFit
  <2>1. events \in [Devices -> Seq(Event)]
    BY DEF SyslogInit
  <2>2. dedupCache \in [Devices -> [Signatures -> CacheEntry]]
    BY DEF SyslogInit, CacheEntry
  <2> QED
    BY <1>1, <1>2, <2>1, <2>2 DEF WindowsFit, Covered, Apart
<1>4. QueueFits(outbound, troubles)
  <2>1. outbound = <<>> /\ troubles = 0
    BY DEF SyslogInit
  <2>2. \A b \in BOOLEAN : Rows(outbound, b) = {}
    BY <2>1 DEF Rows
  <2>3. \A b \in BOOLEAN : CapOf(b) \in Nat
    BY RowsAssumption DEF CapOf
  <2>4. \A b \in BOOLEAN : Cardinality(Rows(outbound, b)) = 0
    BY <2>2, FS_EmptySet
  <2>5. KeepsCaps(outbound, troubles)
    BY <2>1, <2>3, <2>4 DEF KeepsCaps
  <2> QED
    BY <2>1, <2>5 DEF QueueFits, BatchIsOldest
<1>5. Types
  <2>1. 0 \in 0..MaxDelay /\ 0 \in 0..MaxTroubles
    BY TimesAssumption, RowsAssumption
  <2>2. /\ lastSeen \in [Devices -> (0..Silent) \cup {Never}] /\ lastStatus \in [Devices -> Health]
        /\ cloud \in [Devices -> Health] /\ alerted \in [Devices -> Health]
    BY DEF SyslogInit, Health
  <2> QED
    BY <2>1, <2>2 DEF SyslogInit, Types
<1> QED
  BY <1>3, <1>4, <1>5 DEF SyslogInv

\* The window and the cache of one device change, those of the others stay.
LEMMA WindowUpdate ==
  ASSUME WindowsFit, NEW d \in Devices,
         NEW log \in Seq(Event), NEW cache \in [Signatures -> CacheEntry],
         Covered(log, cache), Apart(log),
         events' = [events EXCEPT ![d] = log], dedupCache' = [dedupCache EXCEPT ![d] = cache]
  PROVE  WindowsFit'
<1>1. /\ events \in [Devices -> Seq(Event)]
      /\ dedupCache \in [Devices -> [Signatures -> CacheEntry]]
  BY DEF WindowsFit
<1>2. /\ events' \in [Devices -> Seq(Event)]
      /\ dedupCache' \in [Devices -> [Signatures -> CacheEntry]]
  BY <1>1
<1>3. events'[d] = log /\ dedupCache'[d] = cache
  BY <1>1
<1>4. \A x \in Devices : x # d => events'[x] = events[x] /\ dedupCache'[x] = dedupCache[x]
  BY <1>1
<1>5. \A x \in Devices : Covered(events[x], dedupCache[x]) /\ Apart(events[x])
  BY DEF WindowsFit
<1>6. \A x \in Devices : Covered(events'[x], dedupCache'[x]) /\ Apart(events'[x])
  BY <1>3, <1>4, <1>5, Zenon
<1> QED
  BY <1>2, <1>6, Zenon DEF WindowsFit

\* What an enqueue does to the queue, if it fails or not.
LEMMA QueueSteps ==
  ASSUME SyslogInv, NEW kind \in {"periodic", "transition"}, NEW d \in Devices,
         NEW status \in Health,
         \/ UNCHANGED <<outbound, troubles>>
         \/ Enqueue(kind, d, status) /\ UNCHANGED troubles
         \/ Trouble /\ UNCHANGED outbound
         \/ Trouble /\ EnqueueBreaks(kind, d, status)
  PROVE  QueueFits(outbound', troubles')
<1> DEFINE row == [kind |-> kind, device |-> d, status |-> status, sent |-> FALSE]
<1>1. QueueFits(outbound, troubles) /\ troubles \in Nat
  BY DEF SyslogInv, Types
<1>2. row \in SummaryRow /\ ~row.sent
  BY DEF SummaryRow
<1>3. Inserted(kind, d, status) = Append(outbound, row)
  BY Zenon DEF Inserted
<1> HIDE DEF row
<1>4. CASE UNCHANGED <<outbound, troubles>>
  BY <1>1, <1>4
<1>5. CASE Enqueue(kind, d, status) /\ UNCHANGED troubles
  <2>1. outbound' = Trimmed(Append(outbound, row), BOOLEAN) /\ troubles' = troubles
    BY <1>3, <1>5, Zenon DEF Enqueue
  <2> QED
    BY <1>1, <1>2, <2>1, EnqueueFits, Zenon
<1>6. CASE Trouble /\ UNCHANGED outbound
  <2>1. outbound' = outbound /\ troubles' = troubles + 1
    BY <1>6 DEF Trouble
  <2> QED
    BY <1>1, <2>1, MoreFits, Zenon
<1>7. CASE Trouble /\ EnqueueBreaks(kind, d, status)
  <2>1. \E done : outbound' = Trimmed(Append(outbound, row), done)
    BY <1>3, <1>7, Zenon DEF EnqueueBreaks
  <2>2. troubles' = troubles + 1
    BY <1>7 DEF Trouble
  <2> QED
    BY <1>1, <1>2, <2>1, <2>2, EnqueueFits, Zenon
<1> QED
  BY <1>4, <1>5, <1>6, <1>7

\* A new event: the cache is older than a repetition would be.
LEMMA IngestFits == ASSUME SyslogInv, IngestEvent PROVE SyslogInv'
<1> DEFINE d == heard.device
           s == heard.sig
           e == [age |-> heard.age, sig |-> heard.sig]
           log == events[d]
           cache == dedupCache[d]
           marked == [cache EXCEPT ![s] = e.age]
           status == StatusOf(LogAfter, 0)
<1>1. d \in Devices /\ s \in Signatures /\ heard.age \in 0..MaxDelay
  BY DEF IngestEvent, SyslogInv, Types
<1>2. e \in Event /\ e.age = heard.age /\ e.sig = s /\ e.age <= MaxDelay /\ e.age \in Nat
  BY <1>1, Times DEF Event
<1>3. /\ log \in Seq(Event) /\ cache \in [Signatures -> CacheEntry]
      /\ Covered(log, cache) /\ Apart(log)
  BY <1>1 DEF SyslogInv, WindowsFit
<1>4. cache[s] # Never => ~(cache[s] - e.age < Dedup)
  BY <1>2, Zenon DEF IngestEvent, IsRepeated
<1>5. LogAfter = Evict(Append(log, e), heard.age)
  BY Zenon DEF LogAfter
<1>6. /\ events' = [events EXCEPT ![d] = LogAfter]
      /\ dedupCache' = [dedupCache EXCEPT ![d] =
                           Remembered([cache EXCEPT ![s] = heard.age], heard.age)]
      /\ lastSeen' = [lastSeen EXCEPT ![d] = heard.age]
      /\ heard' = Never /\ UNCHANGED <<phase, asOf, todo, answer, late, cloud>>
      /\ \/ /\ lastStatus' = [lastStatus EXCEPT ![d] = status]
            /\ UNCHANGED <<outbound, alerted, astray, troubles>>
         \/ /\ Enqueue("transition", d, status)
            /\ lastStatus' = [lastStatus EXCEPT ![d] = status]
            /\ alerted' = [alerted EXCEPT ![d] = status]
            /\ astray' = astray \ {d}
            /\ UNCHANGED troubles
         \/ Trouble /\ UNCHANGED <<outbound, lastStatus, alerted, astray>>
         \/ /\ Trouble /\ EnqueueBreaks("transition", d, status)
            /\ alerted' = [alerted EXCEPT ![d] = status]
            /\ astray' = astray \cup {d}
            /\ UNCHANGED lastStatus
  BY Zenon DEF IngestEvent, periodicVars
<1>7. status \in Health
  BY StatusIsHealth
<1> HIDE DEF d, s, e, log, cache, status
<1>8. /\ Append(log, e) \in Seq(Event) /\ [cache EXCEPT ![e.sig] = e.age] \in [Signatures -> CacheEntry]
      /\ Covered(Append(log, e), [cache EXCEPT ![e.sig] = e.age]) /\ Apart(Append(log, e))
  BY <1>2, <1>3, <1>4, AppendKeeps
<1>9. /\ marked \in [Signatures -> CacheEntry]
      /\ LogAfter \in Seq(Event) /\ Covered(LogAfter, marked) /\ Apart(LogAfter)
  BY <1>2, <1>5, <1>8, EvictKeeps, Zenon
<1>10. marked = [cache EXCEPT ![s] = heard.age]
  BY <1>2
<1> HIDE DEF marked
<1>11. /\ Remembered(marked, heard.age) \in [Signatures -> CacheEntry]
       /\ Covered(LogAfter, Remembered(marked, heard.age))
  BY <1>2, <1>9, RememberedIs, ForgettingKeeps
<1>12. WindowsFit'
  <2>1. dedupCache' = [dedupCache EXCEPT ![d] = Remembered(marked, heard.age)]
    BY <1>6, <1>10, Zenon
  <2> QED
    BY <1>1, <1>6, <1>9, <1>11, <2>1, WindowUpdate, Zenon DEF SyslogInv, d
<1>13. QueueFits(outbound', troubles')
  <2>1. d \in Devices
    BY <1>1 DEF d
  <2>2. \/ UNCHANGED <<outbound, troubles>>
        \/ Enqueue("transition", d, status) /\ UNCHANGED troubles
        \/ Trouble /\ UNCHANGED outbound
        \/ Trouble /\ EnqueueBreaks("transition", d, status)
    BY <1>6, Zenon
  <2> QED
    BY <1>7, <2>1, <2>2, QueueSteps
<1>14. Types'
  <2>1. Types /\ d \in Devices
    BY <1>1 DEF SyslogInv, d
  <2>2. lastSeen' \in [Devices -> (0..Silent) \cup {Never}]
    <3>1. heard.age \in 0..Silent
      BY <1>1, Times
    <3> QED
      BY <1>6, <2>1, <3>1 DEF Types
  <2>3. /\ lastStatus' \in [Devices -> Health] /\ alerted' \in [Devices -> Health]
        /\ astray' \subseteq Devices
    BY <1>6, <1>7, <2>1 DEF Types
  <2>4. troubles' \in 0..MaxTroubles
    BY <1>6, <2>1, RowsAssumption DEF Types, Trouble, CanFail
  <2> QED
    BY <1>6, <2>1, <2>2, <2>3, <2>4 DEF Types
<1> QED
  BY <1>12, <1>13, <1>14 DEF SyslogInv

LEMMA HearFits ==
  ASSUME SyslogInv, NEW g \in Datagrams, Hear(g) PROVE SyslogInv'
<1>1. ResolveDevice(g.ip, g.host) \in Devices
  BY DeviceMapAssumption, Zenon DEF Hear, ResolveDevice
<1>2. heard' = [device |-> ResolveDevice(g.ip, g.host), sig |-> SignatureOf(g), age |-> 0]
  BY Zenon DEF Hear
<1>3. SignatureOf(g) \in Signatures /\ 0 \in 0..MaxDelay
  BY TimesAssumption DEF Signatures
<1>4. heard' \in [device : Devices, sig : Signatures, age : 0..MaxDelay] \cup {Never}
  BY <1>1, <1>2, <1>3
<1>5. UNCHANGED <<stateVars, periodicVars, queueVars, cloud, alerted, astray, troubles>>
  BY Zenon DEF Hear
<1>6. Types' /\ QueueFits(outbound', troubles') /\ WindowsFit'
  BY <1>4, <1>5, Zenon
     DEF SyslogInv, Types, WindowsFit, stateVars, periodicVars, queueVars
<1> QED
  BY <1>6 DEF SyslogInv

LEMMA RepetitionFits == ASSUME SyslogInv, IngestRepeated PROVE SyslogInv'
<1>1. heard.device \in Devices /\ heard.age \in 0..MaxDelay
  BY DEF IngestRepeated, SyslogInv, Types
<1>2. /\ lastSeen' = [lastSeen EXCEPT ![heard.device] = heard.age] /\ heard' = Never
      /\ UNCHANGED <<events, dedupCache, lastStatus, phase, asOf, todo, outbound, answer,
                     late, cloud, alerted, astray, troubles>>
  BY Zenon DEF IngestRepeated, periodicVars, queueVars
<1>3. lastSeen' \in [Devices -> (0..Silent) \cup {Never}]
  <2>1. heard.age \in 0..Silent /\ lastSeen \in [Devices -> (0..Silent) \cup {Never}]
    BY <1>1, Times DEF SyslogInv, Types
  <2> QED
    BY <1>1, <1>2, <2>1
<1>4. Types' /\ QueueFits(outbound', troubles') /\ WindowsFit'
  BY <1>2, <1>3, Zenon DEF SyslogInv, Types, WindowsFit
<1> QED
  BY <1>4 DEF SyslogInv

\* A summary forgets, with a clock that may be ahead of the listener's.
LEMMA SummaryFits ==
  ASSUME SyslogInv, NEW d \in Devices, Summarise(d) PROVE SyslogInv'
<1> DEFINE log == Evict(events[d], asOf)
           cache == Remembered(dedupCache[d], asOf)
           status == StatusOf(events'[d], lastSeen[d] - asOf)
<1>1. /\ events' = [events EXCEPT ![d] = log] /\ dedupCache' = [dedupCache EXCEPT ![d] = cache]
      /\ UNCHANGED <<lastSeen, lastStatus, heard, answer, late, cloud, alerted, astray>>
      /\ \/ Enqueue("periodic", d, status) /\ todo' = todo \ {d}
            /\ UNCHANGED <<phase, asOf, troubles>>
         \/ /\ Trouble /\ (UNCHANGED outbound \/ EnqueueBreaks("periodic", d, status))
            /\ phase' = "ended" /\ asOf' = 0 /\ todo' = {}
  BY Zenon DEF Summarise
<1>2. status \in Health
  BY StatusIsHealth
<1>3. asOf \in Nat /\ Types
  BY Times DEF SyslogInv, Types
<1>4. /\ events[d] \in Seq(Event) /\ dedupCache[d] \in [Signatures -> CacheEntry]
      /\ Covered(events[d], dedupCache[d]) /\ Apart(events[d])
  BY DEF SyslogInv, WindowsFit
<1> HIDE DEF log, cache, status
<1>5. log \in Seq(Event) /\ Covered(log, dedupCache[d]) /\ Apart(log)
  BY <1>4, EvictKeeps, Zenon DEF log
<1>6. cache \in [Signatures -> CacheEntry] /\ Covered(log, cache)
  BY <1>3, <1>4, <1>5, RememberedIs, ForgettingKeeps, Zenon DEF cache
<1>7. WindowsFit'
  BY <1>1, <1>5, <1>6, WindowUpdate, Zenon DEF SyslogInv
<1>8. QueueFits(outbound', troubles')
  <2>1. \/ Enqueue("periodic", d, status) /\ UNCHANGED troubles
        \/ Trouble /\ UNCHANGED outbound
        \/ Trouble /\ EnqueueBreaks("periodic", d, status)
    BY <1>1, Zenon
  <2> QED
    BY <1>2, <2>1, QueueSteps
<1>9. Types'
  <2>1. /\ phase' \in {"waiting", "read", "summing", "ended"} /\ asOf' \in 0..MaxDelay
        /\ todo' \subseteq Devices /\ troubles' \in 0..MaxTroubles
    BY <1>1, <1>3, TimesAssumption, RowsAssumption DEF Types, Trouble, CanFail
  <2> QED
    BY <1>1, <1>3, <2>1, Zenon DEF Types
<1> QED
  BY <1>7, <1>8, <1>9 DEF SyslogInv

\* A set of positions has a last one.
LEMMA LastOf ==
  ASSUME NEW n \in Nat, NEW T \in SUBSET (1..n), T # {}
  PROVE  \E x \in T : \A y \in T : y <= x
<1> DEFINE bounds == {k \in Nat : \A y \in T : y <= k}
<1>1. n \in bounds /\ bounds \in SUBSET Nat
  OBVIOUS
<1>2. PICK k \in bounds : \A m \in bounds : k <= m
  BY <1>1, FirstOf
<1>3. k \in Nat /\ \A y \in T : y <= k
  OBVIOUS
<1>4. k \in T
  <2> SUFFICES ASSUME k \notin T PROVE FALSE
    OBVIOUS
  <2>1. ASSUME NEW y \in T PROVE y \in Nat /\ y >= 1 /\ y <= k - 1
    <3>1. y \in 1..n /\ y <= k /\ y # k
      BY <1>3
    <3> QED
      BY <1>3, <3>1
  <2>2. k - 1 \in Nat
    <3>1. PICK y \in T : TRUE
      OBVIOUS
    <3> QED
      BY <1>3, <2>1, <3>1
  <2>3. k - 1 \in bounds
    BY <2>1, <2>2
  <2>4. k <= k - 1
    BY <1>2, <2>3, Zenon
  <2> QED
    BY <1>3, <2>4
<1> QED
  BY <1>3, <1>4

\* What the backend comes to know are statuses.
LEMMA CloudAfterIs ==
  ASSUME SyslogInv, NEW rows \in SUBSET (1..BatchLength)
  PROVE  CloudAfter(rows) \in [Devices -> Health]
<1>0. /\ outbound \in Seq(SummaryRow) /\ cloud \in [Devices -> Health]
  BY DEF SyslogInv, QueueFits, Types
<1>1. /\ Len(outbound) \in Nat /\ DOMAIN outbound = 1..Len(outbound)
      /\ \A i \in DOMAIN outbound : outbound[i] \in SummaryRow
  BY <1>0, LenProperties, ElementOfSeq
<1>2. BatchLength \in Nat /\ BatchLength <= Len(outbound)
  BY <1>1, RowsAssumption DEF BatchLength, Lesser
<1> DEFINE about(d) == {i \in rows : outbound[i].device = d}
           latest(d) == CHOOSE i \in about(d) : \A j \in about(d) : j <= i
<1>3. ASSUME NEW d \in Devices, about(d) # {} PROVE outbound[latest(d)].status \in Health
  <2>1. about(d) \in SUBSET (1..BatchLength)
    OBVIOUS
  <2> HIDE DEF about
  <2>2. \E i \in about(d) : \A j \in about(d) : j <= i
    BY <1>2, <1>3, <2>1, LastOf
  <2>3. latest(d) \in about(d)
    BY <2>2, Zenon
  <2> HIDE DEF latest
  <2>4. latest(d) \in DOMAIN outbound
    BY <1>1, <1>2, <2>1, <2>3
  <2>5. outbound[latest(d)] \in SummaryRow
    BY <1>1, <2>4
  <2> QED
    BY <2>5 DEF SummaryRow
<1> DEFINE known(d) == IF about(d) = {} THEN cloud[d] ELSE outbound[latest(d)].status
<1>4. CloudAfter(rows) = [d \in Devices |-> known(d)]
  BY Zenon DEF CloudAfter
<1>5. \A d \in Devices : known(d) \in Health
  BY <1>0, <1>3
<1> HIDE DEF known
<1> QED
  BY <1>4, <1>5

\* What is left of a request that is given up.
LEMMA UnansweredFits ==
  ASSUME SyslogInv, Trouble, Unanswered PROVE late' \subseteq LateMessage
<1>0. /\ outbound \in Seq(SummaryRow) /\ late \subseteq LateMessage
      /\ troubles' \in 1..MaxTroubles
  <2>1. outbound \in Seq(SummaryRow) /\ late \subseteq LateMessage /\ troubles \in 0..MaxTroubles
    BY DEF SyslogInv, QueueFits, Types
  <2>2. troubles' \in 1..MaxTroubles
    BY <2>1, RowsAssumption DEF Trouble, CanFail
  <2> QED
    BY <2>1, <2>2
<1>1. /\ Len(outbound) \in Nat /\ DOMAIN outbound = 1..Len(outbound)
      /\ \A i \in DOMAIN outbound : outbound[i] \in SummaryRow
  BY <1>0, LenProperties, ElementOfSeq
<1>2. 1..BatchLength \subseteq 1..BatchSize /\ 1..BatchLength \subseteq 1..Len(outbound)
  BY <1>1, RowsAssumption DEF BatchLength, Lesser
<1>3. ASSUME NEW i \in 1..BatchLength
      PROVE  [request |-> troubles', place |-> i, device |-> outbound[i].device,
              status |-> outbound[i].status] \in LateMessage
  <2>1. outbound[i] \in SummaryRow /\ i \in 1..BatchSize
    BY <1>1, <1>2
  <2> QED
    BY <1>0, <2>1 DEF SummaryRow, LateMessage
<1>4. late' = late \cup {[request |-> troubles', place |-> i, device |-> outbound[i].device,
                           status |-> outbound[i].status] : i \in 1..BatchLength}
  BY Zenon DEF Unanswered
<1> QED
  BY <1>0, <1>3, <1>4, Zenon

LEMMA UploadFits == ASSUME SyslogInv, Upload PROVE SyslogInv'
<1>1. /\ outbound' = [i \in DOMAIN outbound |->
                        [outbound[i] EXCEPT !.sent = (i <= BatchLength)]]
      /\ \/ answer' = "ok" /\ cloud' = CloudAfter(1..BatchLength) /\ UNCHANGED <<late, troubles>>
         \/ /\ answer' = "ok" /\ Trouble /\ UNCHANGED late
            /\ \E accepted \in SUBSET (1..BatchLength) : cloud' = CloudAfter(accepted)
         \/ /\ answer' = "failed" /\ Trouble
            /\ UNCHANGED <<late, cloud>> \/ Unanswered
      /\ UNCHANGED <<stateVars, heard, periodicVars, alerted, astray>>
  BY Zenon DEF Upload
<1>0. troubles \in Nat /\ QueueFits(outbound, troubles)
  BY DEF SyslogInv, Types
<1>2. QueueFits(outbound', troubles)
  <2> DEFINE t == [i \in DOMAIN outbound |-> i <= BatchLength]
  <2>1. /\ Len(outbound) \in Nat /\ DOMAIN outbound \subseteq Int
    BY LenProperties DEF SyslogInv, QueueFits
  <2>2. BatchLength \in Int
    BY <2>1, RowsAssumption DEF BatchLength, Lesser
  <2>3. /\ t \in [DOMAIN outbound -> BOOLEAN]
        /\ \A i \in DOMAIN outbound : t[i] = (i <= BatchLength)
    OBVIOUS
  <2>4. outbound' = [i \in DOMAIN outbound |-> [outbound[i] EXCEPT !.sent = t[i]]]
    BY <1>1
  <2> HIDE DEF t
  <2>5. \A i, j \in DOMAIN outbound : i < j /\ t[j] => t[i]
    BY <2>1, <2>2, <2>3
  <2> QED
    BY <1>0, <2>3, <2>4, <2>5, MarkedFits, Zenon
<1>5. QueueFits(outbound', troubles')
  <2>1. troubles' = troubles \/ troubles' = troubles + 1
    BY <1>1 DEF Trouble
  <2> QED
    BY <1>0, <1>2, <2>1, MoreFits, Zenon
<1>3. cloud' \in [Devices -> Health] /\ late' \subseteq LateMessage /\ troubles' \in 0..MaxTroubles
  <2>1. cloud \in [Devices -> Health] /\ late \subseteq LateMessage /\ troubles \in 0..MaxTroubles
    BY DEF SyslogInv, Types
  <2>2. troubles' \in 0..MaxTroubles
    BY <1>1, <2>1, RowsAssumption DEF Trouble, CanFail
  <2>3. cloud' = cloud \/ \E rows \in SUBSET (1..BatchLength) : cloud' = CloudAfter(rows)
    BY <1>1, Zenon DEF Unanswered
  <2>4. cloud' \in [Devices -> Health]
    BY <2>1, <2>3, CloudAfterIs
  <2>5. late' \subseteq LateMessage
    BY <1>1, <2>1, UnansweredFits, Zenon
  <2> QED
    BY <2>2, <2>4, <2>5
<1>4. Types' /\ WindowsFit'
  BY <1>1, <1>3 DEF SyslogInv, Types, WindowsFit, stateVars, periodicVars
<1> QED
  BY <1>4, <1>5 DEF SyslogInv

\* A message of a request that was given up tells of a status.
LEMMA LateFits == ASSUME SyslogInv, HandleLate PROVE SyslogInv'
<1>1. PICK m \in late : /\ cloud' = [cloud EXCEPT ![m.device] = m.status]
                        /\ late' = {x \in late : x.request = m.request => x.place > m.place}
  BY Zenon DEF HandleLate
<1>2. UNCHANGED <<stateVars, heard, periodicVars, outbound, answer, alerted, astray, troubles>>
  BY Zenon DEF HandleLate
<1>3. m \in LateMessage /\ cloud \in [Devices -> Health] /\ late \subseteq LateMessage
  BY DEF SyslogInv, Types
<1>4. cloud' \in [Devices -> Health] /\ late' \subseteq LateMessage
  BY <1>1, <1>3 DEF LateMessage
<1>5. Types' /\ WindowsFit' /\ QueueFits(outbound', troubles')
  BY <1>2, <1>4 DEF SyslogInv, Types, WindowsFit, stateVars, periodicVars
<1> QED
  BY <1>5 DEF SyslogInv

LEMMA AckFits == ASSUME SyslogInv, Ack PROVE SyslogInv'
<1> DEFINE batch == {i \in DOMAIN outbound : outbound[i].sent}
<1>1. /\ outbound' = SubSeq(outbound, Cardinality(batch) + 1, Len(outbound))
      /\ answer' = "none"
      /\ UNCHANGED <<stateVars, heard, periodicVars, late, cloud, alerted, astray, troubles>>
  BY Zenon DEF Ack
<1>2. Cardinality(batch) \in 0..Len(outbound)
  <2>1. outbound \in Seq(SummaryRow) /\ batch \in SUBSET DOMAIN outbound
    BY DEF SyslogInv, QueueFits
  <2> HIDE DEF batch
  <2> QED
    BY <2>1, SomeOf
<1> HIDE DEF batch
<1>3. QueueFits(outbound', troubles')
  <2>1. troubles \in Nat /\ QueueFits(outbound, troubles) /\ troubles' = troubles
    BY <1>1 DEF SyslogInv, Types
  <2> QED
    BY <1>1, <1>2, <2>1, EndFits, Zenon
<1>4. Types' /\ WindowsFit'
  BY <1>1 DEF SyslogInv, Types, WindowsFit, stateVars, periodicVars
<1> QED
  BY <1>3, <1>4 DEF SyslogInv

LEMMA RestartFits == ASSUME SyslogInv, RestartAgent PROVE SyslogInv'
<1>1. /\ events' = [d \in Devices |-> <<>>]
      /\ dedupCache' = [d \in Devices |-> [s \in Signatures |-> Never]]
      /\ lastSeen' = [d \in Devices |-> Never]
      /\ lastStatus' = [d \in Devices |-> "unknown"] /\ heard' = Never
      /\ phase' = "waiting" /\ asOf' = 0 /\ todo' = {} /\ answer' = "none"
      /\ astray' = astray \cup {d \in Devices : alerted[d] # "healthy"}
      /\ Trouble /\ (UNCHANGED late \/ Unanswered)
      /\ UNCHANGED <<cloud, alerted>> /\ outbound' = Unsent
  BY Zenon DEF RestartAgent
<1>2. QueueFits(outbound', troubles')
  <2>1. troubles \in Nat /\ QueueFits(outbound, troubles) /\ troubles' = troubles + 1
    BY <1>1 DEF SyslogInv, Types, Trouble
  <2>2. QueueFits(Unsent, troubles)
    BY <2>1, UnsentFits, Zenon
  <2> QED
    BY <1>1, <2>1, <2>2, MoreFits, Zenon
<1>3. WindowsFit'
  <2>1. DOMAIN <<>> = {}
    OBVIOUS
  <2>2. \A d \in Devices : events'[d] = <<>>
    BY <1>1
  <2>3. \A d \in Devices : Covered(events'[d], dedupCache'[d]) /\ Apart(events'[d])
    BY <2>1, <2>2 DEF Covered, Apart
  <2>4. events' \in [Devices -> Seq(Event)]
    BY <1>1
  <2>5. dedupCache' \in [Devices -> [Signatures -> CacheEntry]]
    BY <1>1 DEF CacheEntry
  <2> QED
    BY <2>3, <2>4, <2>5, Zenon DEF WindowsFit
<1>4. Types'
  <2>1. Types
    BY DEF SyslogInv
  <2>2. /\ lastSeen' \in [Devices -> (0..Silent) \cup {Never}]
        /\ lastStatus' \in [Devices -> Health]
    BY <1>1 DEF Health
  <2>3. asOf' \in 0..MaxDelay /\ troubles' \in 0..MaxTroubles
    BY <1>1, <2>1, TimesAssumption, RowsAssumption DEF Types, Trouble, CanFail
  <2>4. astray' \subseteq Devices /\ todo' \subseteq Devices
    BY <1>1, <2>1 DEF Types
  <2>5. late' \subseteq LateMessage
    BY <1>1, <2>1, UnansweredFits, Zenon DEF Types
  <2> QED
    BY <1>1, <2>1, <2>2, <2>3, <2>4, <2>5, Zenon DEF Types
<1> QED
  BY <1>2, <1>3, <1>4 DEF SyslogInv

LEMMA TickFits == ASSUME SyslogInv, Tick PROVE SyslogInv'
<1>1. /\ heard # Never => heard.age < MaxDelay
      /\ phase \in {"read", "summing"} => asOf < MaxDelay
      /\ events' = [d \in Devices |-> [i \in DOMAIN events[d] |->
                     [events[d][i] EXCEPT !.age = Older(events[d][i].age, Expired)]]]
      /\ dedupCache' = [d \in Devices |->
                          [s \in Signatures |-> Older(dedupCache[d][s], Forgotten)]]
      /\ lastSeen' = [d \in Devices |-> Older(lastSeen[d], Silent)]
      /\ heard' = IF heard = Never THEN Never ELSE [heard EXCEPT !.age = heard.age + 1]
      /\ asOf' = IF phase \in {"read", "summing"} THEN asOf + 1 ELSE 0
      /\ UNCHANGED <<lastStatus, phase, todo, outbound, answer, late, cloud, alerted, astray, troubles>>
  BY Zenon DEF Tick, queueVars
<1>2. Types /\ WindowsFit /\ QueueFits(outbound, troubles)
  BY DEF SyslogInv
<1>3. WindowsFit'
  <2>1. ASSUME NEW d \in Devices
        PROVE  /\ events'[d] \in Seq(Event) /\ dedupCache'[d] \in [Signatures -> CacheEntry]
               /\ Covered(events'[d], dedupCache'[d]) /\ Apart(events'[d])
    <3> DEFINE log == events[d]
               cache == dedupCache[d]
               aged == [i \in DOMAIN log |-> [log[i] EXCEPT !.age = Older(log[i].age, Expired)]]
               kept == [s \in Signatures |-> Older(cache[s], Forgotten)]
    <3>1. /\ log \in Seq(Event) /\ cache \in [Signatures -> CacheEntry]
          /\ Covered(log, cache) /\ Apart(log)
      BY <1>2 DEF WindowsFit
    <3>2. events'[d] = aged /\ dedupCache'[d] = kept
      BY <1>1, Zenon
    <3> HIDE DEF log, cache
    <3>3. /\ aged \in Seq(Event) /\ kept \in [Signatures -> CacheEntry]
          /\ Covered(aged, kept) /\ Apart(aged)
      BY <3>1, AgeingKeeps
    <3> HIDE DEF aged, kept
    <3> QED
      BY <3>2, <3>3
  <2>2. DOMAIN events' = Devices /\ DOMAIN dedupCache' = Devices
    BY <1>1
  <2>3. events' = [d \in Devices |-> events'[d]] /\ dedupCache' = [d \in Devices |-> dedupCache'[d]]
    BY <1>1, <2>2
  <2>4. events' \in [Devices -> Seq(Event)]
    BY <2>1, <2>3
  <2>5. dedupCache' \in [Devices -> [Signatures -> CacheEntry]]
    BY <2>1, <2>3
  <2> QED
    BY <2>1, <2>4, <2>5, Zenon DEF WindowsFit
<1>4. Types'
  <2>1. MaxDelay \in Nat /\ Silent \in Nat
    BY Times
  <2>2. asOf' \in 0..MaxDelay
    BY <1>1, <1>2, <2>1 DEF Types
  <2>3. heard' \in [device : Devices, sig : Signatures, age : 0..MaxDelay] \cup {Never}
    <3>1. CASE heard = Never
      BY <1>1, <3>1
    <3>2. CASE heard # Never
      <4>1. heard \in [device : Devices, sig : Signatures, age : 0..MaxDelay]
        BY <1>2, <3>2 DEF Types
      <4>2. heard.age + 1 \in 0..MaxDelay
        BY <1>1, <2>1, <3>2, <4>1
      <4>3. heard' = [heard EXCEPT !.age = heard.age + 1]
        BY <1>1, <3>2
      <4>4. heard' \in [device : Devices, sig : Signatures, age : 0..MaxDelay]
        BY <4>1, <4>2, <4>3
      <4> QED
        BY <4>4
    <3> QED
      BY <3>1, <3>2
  <2>4. lastSeen' \in [Devices -> (0..Silent) \cup {Never}]
    <3>1. ASSUME NEW d \in Devices PROVE Older(lastSeen[d], Silent) \in (0..Silent) \cup {Never}
      <4>1. lastSeen[d] \in (0..Silent) \cup {Never}
        BY <1>2 DEF Types
      <4>2. \/ lastSeen[d] = Never /\ Older(lastSeen[d], Silent) = Never
            \/ lastSeen[d] = Silent /\ Older(lastSeen[d], Silent) = Silent
            \/ /\ lastSeen[d] \in 0..(Silent - 1)
               /\ Older(lastSeen[d], Silent) = lastSeen[d] + 1
        BY <2>1, <4>1, OlderIs
      <4> QED
        BY <2>1, <4>2
    <3> QED
      BY <1>1, <3>1
  <2> QED
    BY <1>1, <1>2, <2>2, <2>3, <2>4, Zenon DEF Types
<1>5. QueueFits(outbound', troubles')
  BY <1>1, <1>2, Zenon
<1> QED
  BY <1>3, <1>4, <1>5 DEF SyslogInv

\* A step of the agent keeps types, caps and bursts.
LEMMA SyslogInvStep == SyslogInv /\ [SyslogNext]_syslogVars => SyslogInv'
<1> SUFFICES ASSUME SyslogInv, [SyslogNext]_syslogVars PROVE SyslogInv'
  OBVIOUS
<1>1. CASE \E g \in Datagrams : Hear(g)
  BY <1>1, HearFits, Zenon
<1>2. CASE IngestRepeated \/ IngestEvent
  BY <1>2, RepetitionFits, IngestFits, Zenon
<1>3. CASE ReadClock \/ TakeLock \/ ReleaseLock
  <2>1. /\ UNCHANGED <<stateVars, heard, queueVars, cloud, alerted, astray, troubles>>
        /\ phase' \in {"waiting", "read", "summing", "ended"} /\ (asOf' = asOf \/ asOf' = 0)
        /\ todo' \subseteq Devices
    <3>1. todo \subseteq Devices /\ Known \subseteq Devices
      BY DEF SyslogInv, Types, Known
    <3> QED
      BY <1>3, <3>1 DEF ReadClock, TakeLock, ReleaseLock
  <2>2. Types' /\ WindowsFit' /\ QueueFits(outbound', troubles')
    BY <2>1, TimesAssumption DEF SyslogInv, Types, WindowsFit, stateVars, queueVars
  <2> QED
    BY <2>2 DEF SyslogInv
<1>4. CASE \E d \in Devices : Summarise(d)
  BY <1>4, SummaryFits, Zenon
<1>5. CASE Upload \/ Ack \/ HandleLate
  BY <1>5, UploadFits, AckFits, LateFits, Zenon
<1>6. CASE MarkFailed
  <2>1. /\ outbound' = Unsent /\ answer' = "none"
        /\ UNCHANGED <<stateVars, heard, periodicVars, late, cloud, alerted, astray, troubles>>
    BY <1>6, Zenon DEF MarkFailed
  <2>2. QueueFits(outbound', troubles')
    <3>1. troubles \in Nat /\ QueueFits(outbound, troubles) /\ troubles' = troubles
      BY <2>1 DEF SyslogInv, Types
    <3> QED
      BY <2>1, <3>1, UnsentFits, Zenon
  <2>3. Types' /\ WindowsFit'
    BY <2>1 DEF SyslogInv, Types, WindowsFit, stateVars, periodicVars
  <2> QED
    BY <2>2, <2>3 DEF SyslogInv
<1>7. CASE RestartAgent
  BY <1>7, RestartFits, Zenon
<1>8. CASE Tick
  BY <1>8, TickFits, Zenon
<1>9. CASE UNCHANGED syslogVars
  <2>1. Types' /\ WindowsFit' /\ QueueFits(outbound', troubles')
    BY <1>9 DEF SyslogInv, Types, WindowsFit, syslogVars, stateVars, periodicVars, queueVars
  <2> QED
    BY <2>1 DEF SyslogInv
<1> QED
  BY <1>1, <1>2, <1>3, <1>4, <1>5, <1>6, <1>7, <1>8, <1>9, Zenon
     DEF SyslogNext, Listener, Periodic, Uploader

-----------------------------------------------------------------------------
\* Every value of the agent has its type; in OutboundQueue no class of rows
\* exceeds its cap by more than the failures so far, and the batch in flight is the oldest of the queue, so
\* that the ids that ack deletes are those of its first rows.
THEOREM SyslogTypeCorrect == SyslogSafeSpec => []SyslogTypeOK
<1> QED
  BY SyslogInvInit, SyslogInvStep, SyslogInvGives, PTL DEF SyslogSafeSpec

\* Aggregator.ingest counts a burst of one message once, although run_periodic
\* drops entries of the cache by a clock of its own, whatever the window, the
\* interval of repetition and the delay between reading the clock and the lock.
THEOREM BurstCounted == SyslogSafeSpec => []BurstCountsOnce
<1> QED
  BY SyslogInvInit, SyslogInvStep, SyslogInvGives, PTL DEF SyslogSafeSpec
=============================================================================
