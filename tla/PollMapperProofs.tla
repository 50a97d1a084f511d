-------------------------- MODULE PollMapperProofs --------------------------
(***************************************************************************)
(* Proofs about PollMapper: for all records, thresholds and sets of ports, *)
(* every message is one that the backend accepts, and a record that has    *)
(* become worse never looks better.                                        *)
(***************************************************************************)
EXTENDS PollMapper, FiniteSetTheorems, SequenceTheorems, TLAPS

Levels == {"healthy", "degraded", "unhealthy"}

-----------------------------------------------------------------------------
(* Statuses.                                                               *)

\* The worse of two statuses, as a table.
LEMMA WorstTable ==
  /\ Worst("healthy", "unhealthy") = "unhealthy"
  /\ Worst("healthy", "degraded") = "degraded"
  /\ Worst("degraded", "degraded") = "degraded"
  /\ Worst("degraded", "unhealthy") = "unhealthy"
  /\ Worst("unhealthy", "degraded") = "unhealthy"
  /\ Worst("unhealthy", "unhealthy") = "unhealthy"
BY DEF Worst, Rank

\* The ranks of the statuses that are given.
LEMMA RankTable ==
  Rank("unhealthy") = 0 /\ Rank("degraded") = 1 /\ Rank("healthy") = 2
BY DEF Rank

DeviceFails(dev) == BadItems(dev) # {} \/ IsCritical(dev)
DeviceWarns(dev) == \/ IsWarm(dev) \/ DownPorts(dev) # {}
                    \/ IsFlapping(dev) \/ WeakPorts(dev) # {}

\* What the chain of tests on a device amounts to.
LEMMA DeviceChain ==
  ASSUME NEW dev
  PROVE Optics(dev) = IF DeviceFails(dev) THEN "unhealthy"
                      ELSE IF DeviceWarns(dev) THEN "degraded" ELSE "healthy"
<1>1. Hardware(dev) = IF BadItems(dev) # {} THEN "unhealthy" ELSE "healthy"
  BY WorstTable, Zenon DEF Hardware, With
<1>2. Thermal(dev) = IF DeviceFails(dev) THEN "unhealthy"
                     ELSE IF IsWarm(dev) THEN "degraded" ELSE "healthy"
  <2>1. CASE BadItems(dev) # {}
    BY <1>1, <2>1, WorstTable, Zenon DEF Thermal, With, DeviceFails
  <2>2. CASE BadItems(dev) = {} /\ IsCritical(dev)
    BY <1>1, <2>2, WorstTable, Zenon DEF Thermal, With, DeviceFails
  <2>3. CASE BadItems(dev) = {} /\ ~IsCritical(dev)
    BY <1>1, <2>3, WorstTable, Zenon DEF Thermal, With, DeviceFails
  <2> QED
    BY <2>1, <2>2, <2>3
<1>3. CASE DeviceFails(dev)
  <2>1. Thermal(dev) = "unhealthy"
    BY <1>2, <1>3
  <2>2. Down(dev) = "unhealthy"
    BY <2>1, WorstTable, Zenon DEF Down, With
  <2>3. Flap(dev) = "unhealthy"
    BY <2>2, WorstTable, Zenon DEF Flap, With
  <2> QED
    BY <1>3, <2>3, WorstTable, Zenon DEF Optics, With
<1>4. CASE ~DeviceFails(dev)
  <2>1. Thermal(dev) = IF IsWarm(dev) THEN "degraded" ELSE "healthy"
    BY <1>2, <1>4
  <2>2. Down(dev) = IF IsWarm(dev) \/ DownPorts(dev) # {} THEN "degraded" ELSE "healthy"
    BY <2>1, WorstTable, Zenon DEF Down, With
  <2>3. Flap(dev) = IF IsWarm(dev) \/ DownPorts(dev) # {} \/ IsFlapping(dev)
                    THEN "degraded" ELSE "healthy"
    BY <2>2, WorstTable, Zenon DEF Flap, With
  <2>4. Optics(dev) = IF DeviceWarns(dev) THEN "degraded" ELSE "healthy"
    BY <2>3, WorstTable, Zenon DEF Optics, With, DeviceWarns
  <2> QED
    BY <1>4, <2>4
<1> QED
  BY <1>3, <1>4

PlatformFails(p) == p.expired \/ p.missing
PlatformWarns(p) == \/ Positive(p.lost) \/ Positive(p.rebooted) \/ Full(p) \/ IsOdd(p)
                    \/ IsInvalid(p) \/ RunsOut(p) \/ p.problems > 0

\* What the chain of tests on the platform amounts to.
LEMMA PlatformChain ==
  ASSUME NEW p
  PROVE PlatformFound(p) = IF PlatformFails(p) THEN "unhealthy"
                           ELSE IF PlatformWarns(p) THEN "degraded" ELSE "healthy"
<1> DEFINE edge == With("healthy", Positive(p.lost) \/ Positive(p.rebooted), "degraded")
           disk == With(edge, Full(p), "degraded")
           self == With(disk, IsOdd(p), "degraded")
           expired == With(self, p.expired, "unhealthy")
           licence == With(expired, p.missing, "unhealthy")
           invalid == With(licence, IsInvalid(p), "degraded")
           soon == With(invalid, RunsOut(p), "degraded")
<1>1. PlatformFound(p) = With(soon, p.problems > 0, "degraded")
  BY Zenon DEF PlatformFound
<1>2. edge = IF Positive(p.lost) \/ Positive(p.rebooted) THEN "degraded" ELSE "healthy"
  BY WorstTable, Zenon DEF With
<1>3. disk = IF Positive(p.lost) \/ Positive(p.rebooted) \/ Full(p)
             THEN "degraded" ELSE "healthy"
  BY <1>2, WorstTable, Zenon DEF With
<1>4. self = IF Positive(p.lost) \/ Positive(p.rebooted) \/ Full(p) \/ IsOdd(p)
             THEN "degraded" ELSE "healthy"
  BY <1>3, WorstTable, Zenon DEF With
<1>5. CASE PlatformFails(p)
  <2>1. self \in {"degraded", "healthy"}
    BY <1>4
  <2>2. expired = IF p.expired THEN "unhealthy" ELSE self
    BY <2>1, WorstTable, Zenon DEF With
  <2>3. licence = "unhealthy"
    BY <1>5, <2>1, <2>2, WorstTable, Zenon DEF With, PlatformFails
  <2>4. invalid = "unhealthy"
    BY <2>3, WorstTable, Zenon DEF With
  <2>5. soon = "unhealthy"
    BY <2>4, WorstTable, Zenon DEF With
  <2> QED
    BY <1>1, <1>5, <2>5, WorstTable, Zenon DEF With
<1>6. CASE ~PlatformFails(p)
  <2>1. licence = self
    BY <1>6, Zenon DEF With, PlatformFails
  <2>2. invalid = IF self = "degraded" \/ IsInvalid(p) THEN "degraded" ELSE "healthy"
    BY <1>4, <2>1, WorstTable, Zenon DEF With
  <2>3. soon = IF self = "degraded" \/ IsInvalid(p) \/ RunsOut(p)
               THEN "degraded" ELSE "healthy"
    BY <2>2, WorstTable, Zenon DEF With
  <2>4. self = "degraded" <=> \/ Positive(p.lost) \/ Positive(p.rebooted)
                              \/ Full(p) \/ IsOdd(p)
    BY <1>4
  <2> QED
    BY <1>1, <1>6, <2>3, <2>4, WorstTable, Zenon DEF With, PlatformWarns
<1> QED
  BY <1>5, <1>6

-----------------------------------------------------------------------------
(* Scores.                                                                 *)

\* A score is clipped, and clipping keeps the order.
LEMMA ClampKeepsOrder ==
  /\ \A n \in Int : Clamp(n) \in 0..100
  /\ \A n, k \in Int : n <= k => Clamp(n) <= Clamp(k)
BY DEF Clamp, Least

\* The sets that are counted are finite, and a larger one has no lower count.
LEMMA CountsOf ==
  /\ \A X : X \subseteq HwItems \/ X \subseteq Ports => Cardinality(X) \in Nat
  /\ \A X, Y : X \subseteq Y /\ (Y \subseteq HwItems \/ Y \subseteq Ports)
                 => Cardinality(X) <= Cardinality(Y)
<1>1. \A X : X \subseteq HwItems \/ X \subseteq Ports => IsFiniteSet(X)
  BY FiniteAssumption, FS_Subset
<1>2. \A X : X \subseteq HwItems \/ X \subseteq Ports => Cardinality(X) \in Nat
  BY <1>1, FS_CardinalityType
<1>3. \A X, Y : X \subseteq Y /\ (Y \subseteq HwItems \/ Y \subseteq Ports)
                  => Cardinality(X) <= Cardinality(Y)
  BY <1>1, FS_Subset
<1> QED
  BY <1>2, <1>3

DeviceRaw(bad, down, weak, critical, warm, flapping) ==
    100 - 40 * bad - Cost(critical, 35) - Cost(warm, 15)
        - Least(5 * down, 25) - Cost(flapping, 15) - Least(5 * weak, 20)

Raw(dev) == DeviceRaw(Cardinality(BadItems(dev)), Cardinality(DownPorts(dev)),
                      Cardinality(WeakPorts(dev)), IsCritical(dev), IsWarm(dev),
                      IsFlapping(dev))

\* The score of a device in contact, in terms of its counts.
LEMMA ScoreIs ==
  ASSUME NEW dev
  PROVE DeviceScore(dev) = IF ~InContact(dev) THEN 0 ELSE Clamp(Raw(dev))
BY Zenon DEF DeviceScore, Raw, DeviceRaw

\* It is a number, and does not rise with any count.
LEMMA RawKeepsOrder ==
  ASSUME NEW b \in Nat, NEW d \in Nat, NEW w \in Nat,
         NEW c \in BOOLEAN, NEW h \in BOOLEAN, NEW f \in BOOLEAN, c => ~h
  PROVE /\ DeviceRaw(b, d, w, c, h, f) \in Int
        /\ \A b2, d2, w2 \in Nat, c2, h2, f2 \in BOOLEAN :
             /\ b <= b2 /\ d <= d2 /\ w <= w2
             /\ (c => c2) /\ (h => h2 \/ c2) /\ (f => f2)
             => DeviceRaw(b2, d2, w2, c2, h2, f2) <= DeviceRaw(b, d, w, c, h, f)
<1>1. ASSUME NEW d2 \in Nat, d <= d2 PROVE Least(5 * d, 25) <= Least(5 * d2, 25)
  BY <1>1 DEF Least
<1>2. ASSUME NEW w2 \in Nat, w <= w2 PROVE Least(5 * w, 20) <= Least(5 * w2, 20)
  BY <1>2 DEF Least
<1>3. ASSUME NEW x \in Nat PROVE Least(5 * x, 25) \in Nat /\ Least(5 * x, 20) \in Nat
  BY DEF Least
<1>4. DeviceRaw(b, d, w, c, h, f) \in Int
  BY <1>3 DEF DeviceRaw, Cost
<1>5. ASSUME NEW b2 \in Nat, NEW d2 \in Nat, NEW w2 \in Nat,
             NEW c2 \in BOOLEAN, NEW h2 \in BOOLEAN, NEW f2 \in BOOLEAN,
             b <= b2, d <= d2, w <= w2, c => c2, h => h2 \/ c2, f => f2
      PROVE DeviceRaw(b2, d2, w2, c2, h2, f2) <= DeviceRaw(b, d, w, c, h, f)
  <2>1. Least(5 * d, 25) <= Least(5 * d2, 25) /\ Least(5 * w, 20) <= Least(5 * w2, 20)
    BY <1>1, <1>2, <1>5
  <2>2. /\ Least(5 * d, 25) \in Nat /\ Least(5 * d2, 25) \in Nat
        /\ Least(5 * w, 20) \in Nat /\ Least(5 * w2, 20) \in Nat
    BY <1>3
  <2>3. Cost(c, 35) + Cost(h, 15) <= Cost(c2, 35) + Cost(h2, 15)
    <3>1. CASE c2
      <4>1. Cost(c2, 35) = 35
        BY <3>1, Zenon DEF Cost
      <4>2. (Cost(c, 35) = 0 /\ Cost(h, 15) \in {0, 15}) \/ (Cost(c, 35) = 35 /\ Cost(h, 15) = 0)
        BY Zenon DEF Cost
      <4>3. Cost(h2, 15) \in {0, 15}
        BY Zenon DEF Cost
      <4> QED
        BY <4>1, <4>2, <4>3
    <3>2. CASE ~c2
      <4>1. Cost(c, 35) = 0 /\ Cost(c2, 35) = 0
        BY <3>2, <1>5, Zenon DEF Cost
      <4>2. Cost(h, 15) = 0 \/ (Cost(h, 15) = 15 /\ Cost(h2, 15) = 15)
        BY <3>2, <1>5, Zenon DEF Cost
      <4>3. Cost(h2, 15) \in {0, 15}
        BY Zenon DEF Cost
      <4> QED
        BY <4>1, <4>2, <4>3
    <3> QED
      BY <3>1, <3>2
  <2>4. Cost(f, 15) = 0 \/ (Cost(f, 15) = 15 /\ Cost(f2, 15) = 15)
    BY <1>5, Zenon DEF Cost
  <2>5. /\ Cost(c, 35) \in {0, 35} /\ Cost(h, 15) \in {0, 15} /\ Cost(f, 15) \in {0, 15}
        /\ Cost(c2, 35) \in {0, 35} /\ Cost(h2, 15) \in {0, 15} /\ Cost(f2, 15) \in {0, 15}
    BY Zenon DEF Cost
  <2> QED
    BY <1>5, <2>1, <2>2, <2>3, <2>4, <2>5 DEF DeviceRaw
<1> QED
  BY <1>4, <1>5

-----------------------------------------------------------------------------
(* Worse records of a device.                                              *)

\* Everything that is found on a device is still found when nothing got better.
LEMMA FindingsStay ==
  ASSUME NEW a \in DeviceRecord, NEW b \in DeviceRecord, DeviceNotBetter(a, b)
  PROVE /\ InContact(b) => InContact(a)
        /\ BadItems(a) \subseteq BadItems(b) /\ DownPorts(a) \subseteq DownPorts(b)
        /\ FlappingPorts(a) \subseteq FlappingPorts(b)
        /\ WeakPorts(a) \subseteq WeakPorts(b)
        /\ IsCritical(a) => IsCritical(b)
        /\ IsWarm(a) => IsWarm(b) \/ IsCritical(b)
<1>1. InContact(b) => InContact(a)
  BY Zenon DEF DeviceNotBetter, InContact
<1>2. BadItems(a) \subseteq BadItems(b) /\ DownPorts(a) \subseteq DownPorts(b)
  BY Zenon DEF DeviceNotBetter, PortNotBetter, BadItems, DownPorts
<1>3. /\ TempWarn \in Int /\ TempCrit \in Int /\ FlapWindow \in Int /\ RxWarn \in Int
      /\ TempWarn <= TempCrit
  BY ThresholdsAssumption
<1>4. a.temps \subseteq Int /\ b.temps \subseteq Int
  BY NumbersAssumption DEF DeviceRecord
<1>5. ASSUME NEW limit \in Int, \E t \in a.temps : t >= limit
      PROVE \E t \in b.temps : t >= limit
  <2>1. PICK t \in a.temps : t >= limit
    BY <1>5
  <2>2. PICK u \in b.temps : t <= u
    BY Zenon DEF DeviceNotBetter
  <2> QED
    BY <2>1, <2>2, <1>4
<1>6. IsCritical(a) => IsCritical(b)
  BY <1>3, <1>5 DEF IsCritical
<1>7. IsWarm(a) => IsWarm(b) \/ IsCritical(b)
  BY <1>3, <1>5 DEF IsWarm
<1>8. \A p \in Ports : a.ports[p] \in PortRecords /\ b.ports[p] \in PortRecords
  BY DEF DeviceRecord
<1>9. ASSUME NEW p \in Ports
      PROVE /\ p \in FlappingPorts(a) => p \in FlappingPorts(b)
            /\ p \in WeakPorts(a) => p \in WeakPorts(b)
  <2> DEFINE x == a.ports[p]
             y == b.ports[p]
  <2>1. PortNotBetter(x, y)
    BY Zenon DEF DeviceNotBetter
  <2>2. x \in PortRecordType /\ y \in PortRecordType
    BY <1>8, RecordsAssumption, Zenon
  <2>3. /\ x.changed \in Int \cup {Unread} /\ y.changed \in Int \cup {Unread}
        /\ x.rx \in Int \cup {Unread} /\ y.rx \in Int \cup {Unread}
    BY <2>2 DEF PortRecordType
  <2>4. (p \in FlappingPorts(a) <=> x.changed # Unread /\ 0 < x.changed /\ x.changed < FlapWindow)
        /\ (p \in FlappingPorts(b) <=> y.changed # Unread /\ 0 < y.changed /\ y.changed < FlapWindow)
    BY Zenon DEF FlappingPorts
  <2>5. (p \in WeakPorts(a) <=> x.rx # Unread /\ x.rx < RxWarn /\ ~x.copper)
        /\ (p \in WeakPorts(b) <=> y.rx # Unread /\ y.rx < RxWarn /\ ~y.copper)
    BY Zenon DEF WeakPorts
  <2>6. /\ x.changed # Unread /\ 0 < x.changed => y.changed # Unread /\ y.changed \in 1..x.changed
        /\ x.rx # Unread /\ ~x.copper => y.rx # Unread /\ y.rx <= x.rx /\ ~y.copper
    BY <2>1, Zenon DEF PortNotBetter
  <2> HIDE DEF x, y
  <2>7. ASSUME p \in FlappingPorts(a) PROVE p \in FlappingPorts(b)
    BY <2>3, <2>4, <2>6, <2>7, <1>3
  <2>8. ASSUME p \in WeakPorts(a) PROVE p \in WeakPorts(b)
    BY <2>3, <2>5, <2>6, <2>8, <1>3
  <2> QED
    BY <2>7, <2>8
<1>10. FlappingPorts(a) \subseteq FlappingPorts(b) /\ WeakPorts(a) \subseteq WeakPorts(b)
  BY <1>9, Zenon DEF FlappingPorts, WeakPorts
<1> QED
  BY <1>1, <1>2, <1>6, <1>7, <1>10

\* The counts that go into a score.
LEMMA DeviceCounts ==
  ASSUME NEW dev
  PROVE /\ Cardinality(BadItems(dev)) \in Nat /\ Cardinality(DownPorts(dev)) \in Nat
        /\ Cardinality(FlappingPorts(dev)) \in Nat /\ Cardinality(WeakPorts(dev)) \in Nat
        /\ IsCritical(dev) \in BOOLEAN /\ IsWarm(dev) \in BOOLEAN
        /\ IsFlapping(dev) \in BOOLEAN
        /\ IsCritical(dev) => ~IsWarm(dev)
        /\ Raw(dev) \in Int
<1>1. /\ BadItems(dev) \subseteq HwItems /\ DownPorts(dev) \subseteq Ports
      /\ FlappingPorts(dev) \subseteq Ports /\ WeakPorts(dev) \subseteq Ports
  BY Zenon DEF BadItems, DownPorts, FlappingPorts, WeakPorts
<1>2. /\ Cardinality(BadItems(dev)) \in Nat /\ Cardinality(DownPorts(dev)) \in Nat
      /\ Cardinality(FlappingPorts(dev)) \in Nat /\ Cardinality(WeakPorts(dev)) \in Nat
  BY <1>1, CountsOf, Zenon
<1>3. IsCritical(dev) \in BOOLEAN /\ IsWarm(dev) \in BOOLEAN /\ IsFlapping(dev) \in BOOLEAN
  BY SMT DEF IsCritical, IsWarm, IsFlapping
<1>4. IsCritical(dev) => ~IsWarm(dev)
  BY Zenon DEF IsWarm
<1>5. Raw(dev) \in Int
  BY <1>2, <1>3, <1>4, RawKeepsOrder, Zenon DEF Raw
<1> QED
  BY <1>2, <1>3, <1>4, <1>5, Zenon

\* So nothing is taken off less.
LEMMA RawDoesNotRise ==
  ASSUME NEW a \in DeviceRecord, NEW b \in DeviceRecord, DeviceNotBetter(a, b)
  PROVE Raw(b) <= Raw(a) /\ (IsFlapping(a) => IsFlapping(b))
<1>1. /\ BadItems(a) \subseteq BadItems(b) /\ DownPorts(a) \subseteq DownPorts(b)
      /\ FlappingPorts(a) \subseteq FlappingPorts(b) /\ WeakPorts(a) \subseteq WeakPorts(b)
      /\ (IsCritical(a) => IsCritical(b)) /\ (IsWarm(a) => IsWarm(b) \/ IsCritical(b))
  BY FindingsStay, Zenon
<1>2. /\ BadItems(b) \subseteq HwItems /\ DownPorts(b) \subseteq Ports
      /\ FlappingPorts(b) \subseteq Ports /\ WeakPorts(b) \subseteq Ports
  BY Zenon DEF BadItems, DownPorts, FlappingPorts, WeakPorts
<1>3. /\ Cardinality(BadItems(a)) <= Cardinality(BadItems(b))
      /\ Cardinality(DownPorts(a)) <= Cardinality(DownPorts(b))
      /\ Cardinality(FlappingPorts(a)) <= Cardinality(FlappingPorts(b))
      /\ Cardinality(WeakPorts(a)) <= Cardinality(WeakPorts(b))
  BY <1>1, <1>2, CountsOf, Zenon
<1>4. FlapMin \in Int
  BY ThresholdsAssumption
<1>5. Cardinality(FlappingPorts(a)) \in Nat /\ Cardinality(FlappingPorts(b)) \in Nat
  BY DeviceCounts, Zenon
<1>6. IsFlapping(a) => IsFlapping(b)
  BY <1>3, <1>4, <1>5 DEF IsFlapping
<1>7. /\ Cardinality(BadItems(a)) \in Nat /\ Cardinality(DownPorts(a)) \in Nat
      /\ Cardinality(WeakPorts(a)) \in Nat
      /\ IsCritical(a) \in BOOLEAN /\ IsWarm(a) \in BOOLEAN /\ IsFlapping(a) \in BOOLEAN
      /\ IsCritical(a) => ~IsWarm(a)
  BY DeviceCounts, Zenon
<1>8. /\ Cardinality(BadItems(b)) \in Nat /\ Cardinality(DownPorts(b)) \in Nat
      /\ Cardinality(WeakPorts(b)) \in Nat
      /\ IsCritical(b) \in BOOLEAN /\ IsWarm(b) \in BOOLEAN /\ IsFlapping(b) \in BOOLEAN
  BY DeviceCounts, Zenon
<1>9. Raw(b) <= Raw(a)
  BY <1>1, <1>3, <1>6, <1>7, <1>8, RawKeepsOrder, Zenon DEF Raw
<1> QED
  BY <1>6, <1>9

\* The status of a device in contact, and its rank.
LEMMA StatusIs ==
  ASSUME NEW dev
  PROVE /\ DeviceStatus(dev) =
             IF ~InContact(dev) \/ DeviceFails(dev) THEN "unhealthy"
             ELSE IF DeviceWarns(dev) \/ DeviceScore(dev) < 85 THEN "degraded"
             ELSE "healthy"
        /\ DeviceScore(dev) \in 0..100
        /\ Rank(DeviceStatus(dev)) \in 0..2
<1>1. DeviceStatus(dev) =
             IF ~InContact(dev) \/ DeviceFails(dev) THEN "unhealthy"
             ELSE IF DeviceWarns(dev) \/ DeviceScore(dev) < 85 THEN "degraded"
             ELSE "healthy"
  <2>1. CASE ~InContact(dev)
    BY <2>1, Zenon DEF DeviceStatus
  <2>2. CASE InContact(dev) /\ DeviceFails(dev)
    <3>1. Optics(dev) = "unhealthy"
      BY <2>2, DeviceChain, Zenon
    <3>2. DeviceStatus(dev) = "unhealthy"
      BY <2>2, <3>1 DEF DeviceStatus
    <3> QED
      BY <2>2, <3>2, Zenon
  <2>3. CASE InContact(dev) /\ ~DeviceFails(dev) /\ DeviceWarns(dev)
    <3>1. Optics(dev) = "degraded"
      BY <2>3, DeviceChain, Zenon
    <3>2. DeviceStatus(dev) = "degraded"
      BY <2>3, <3>1 DEF DeviceStatus
    <3> QED
      BY <2>3, <3>2, Zenon
  <2>4. CASE InContact(dev) /\ ~DeviceFails(dev) /\ ~DeviceWarns(dev)
    <3>1. Optics(dev) = "healthy"
      BY <2>4, DeviceChain, Zenon
    <3>2. DeviceStatus(dev) = IF DeviceScore(dev) < 85 THEN "degraded" ELSE "healthy"
      BY <2>4, <3>1, Zenon DEF DeviceStatus
    <3> QED
      BY <2>4, <3>2, Zenon
  <2> QED
    BY <2>1, <2>2, <2>3, <2>4
<1>2. DeviceScore(dev) \in 0..100
  <2>1. Raw(dev) \in Int
    BY DeviceCounts, Zenon
  <2>2. Clamp(Raw(dev)) \in 0..100
    BY <2>1, ClampKeepsOrder, Zenon
  <2>3. 0 \in 0..100
    OBVIOUS
  <2> QED
    BY <2>2, <2>3, ScoreIs, Zenon
<1>3. DeviceStatus(dev) \in {"unhealthy", "degraded", "healthy"}
  BY <1>1, Zenon
<1>4. Rank(DeviceStatus(dev)) \in {0, 1, 2}
  BY <1>3, RankTable, Zenon
<1> QED
  BY <1>1, <1>2, <1>4

\* A device that is in no respect better has no better status or score.
LEMMA WorseDevice ==
  ASSUME NEW a \in DeviceRecord, NEW b \in DeviceRecord, DeviceNotBetter(a, b)
  PROVE /\ Rank(DeviceStatus(b)) <= Rank(DeviceStatus(a))
        /\ DeviceScore(b) <= DeviceScore(a)
<1>1. /\ InContact(b) => InContact(a)
      /\ DeviceFails(a) => DeviceFails(b)
      /\ DeviceWarns(a) => DeviceWarns(b) \/ DeviceFails(b)
  BY FindingsStay, RawDoesNotRise, Zenon DEF DeviceFails, DeviceWarns
<1>2. DeviceScore(a) \in 0..100 /\ DeviceScore(b) \in 0..100
  BY StatusIs
<1>3. DeviceScore(b) <= DeviceScore(a)
  <2>1. CASE ~InContact(b)
    <3>1. DeviceScore(b) = 0
      BY <2>1, ScoreIs, Zenon
    <3> QED
      BY <1>2, <3>1
  <2>2. CASE InContact(b)
    <3>1. DeviceScore(b) = Clamp(Raw(b)) /\ DeviceScore(a) = Clamp(Raw(a))
      BY <1>1, <2>2, ScoreIs, Zenon
    <3>2. Raw(b) <= Raw(a) /\ Raw(a) \in Int /\ Raw(b) \in Int
      BY RawDoesNotRise, DeviceCounts, Zenon
    <3> QED
      BY <3>1, <3>2, ClampKeepsOrder, Zenon
  <2> QED
    BY <2>1, <2>2
<1>4. DeviceScore(a) < 85 => DeviceScore(b) < 85
  BY <1>2, <1>3
<1>5. Rank(DeviceStatus(a)) \in 0..2 /\ Rank(DeviceStatus(b)) \in 0..2
  BY StatusIs
<1>6. CASE ~InContact(b) \/ DeviceFails(b)
  <2>1. Rank(DeviceStatus(b)) = 0
    BY <1>6, StatusIs, RankTable, Zenon
  <2> QED
    BY <1>3, <1>5, <2>1
<1>7. CASE InContact(b) /\ ~DeviceFails(b) /\ (DeviceWarns(b) \/ DeviceScore(b) < 85)
  <2>1. Rank(DeviceStatus(b)) = 1
    BY <1>7, StatusIs, RankTable, Zenon
  <2>2. DeviceStatus(a) \in {"degraded", "healthy"}
    BY <1>1, <1>7, StatusIs, Zenon
  <2>3. Rank(DeviceStatus(a)) \in {1, 2}
    BY <2>2, RankTable, Zenon
  <2> QED
    BY <1>3, <2>1, <2>3
<1>8. CASE InContact(b) /\ ~DeviceFails(b) /\ ~DeviceWarns(b) /\ ~(DeviceScore(b) < 85)
  <2>1. DeviceStatus(b) = "healthy" /\ DeviceStatus(a) = "healthy"
    BY <1>1, <1>4, <1>8, StatusIs, Zenon
  <2> QED
    BY <1>3, <1>5, <2>1
<1> QED
  BY <1>6, <1>7, <1>8

-----------------------------------------------------------------------------
(* Worse records of the platform.                                          *)

LostPoints(p) == IF Positive(p.lost) THEN Least(5 * p.lost, 30) ELSE 0

PlatformRaw(l, r, f, o, e, m, i, s, k) ==
    100 - l - Cost(r, 5) - Cost(f, 20) - Cost(o, 15) - Cost(e, 50) - Cost(m, 30)
        - Cost(i, 20) - Cost(s, 10) - Least(10 * k, 40)

RawOf(p) == PlatformRaw(LostPoints(p), Positive(p.rebooted), Full(p), IsOdd(p),
                        p.expired, p.missing, IsInvalid(p), RunsOut(p), p.problems)

\* The score of the platform, in terms of its findings.
LEMMA PlatformScoreIs == ASSUME NEW p PROVE PlatformScore(p) = Clamp(RawOf(p))
BY Zenon DEF PlatformScore, RawOf, PlatformRaw, LostPoints

\* What costs points is cost once, and never less when it is still found.
LEMMA CostKeepsOrder ==
  ASSUME NEW n \in Nat, NEW c, NEW d
  PROVE /\ Cost(c, n) \in Nat
        /\ (c => d) => Cost(c, n) <= Cost(d, n)
<1>1. Cost(c, n) = n \/ Cost(c, n) = 0
  BY Zenon DEF Cost
<1>2. Cost(d, n) = n \/ Cost(d, n) = 0
  BY Zenon DEF Cost
<1>3. (c => d) => Cost(c, n) = 0 \/ Cost(d, n) = n
  BY Zenon DEF Cost
<1> QED
  BY <1>1, <1>2, <1>3

\* What is known of the fields of a platform record.
LEMMA PlatformFields ==
  ASSUME NEW p \in PlatformRecord
  PROVE /\ p.lost # Unread => p.lost \in Nat
        /\ p.rebooted # Unread => p.rebooted \in Nat
        /\ p.free # Unread => p.free \in Nat
        /\ p.left # Unread => p.left \in Int
        /\ p.problems \in Nat
<1>1. Counts \subseteq Nat /\ Shares \subseteq Nat /\ Ages \subseteq Int
  BY NumbersAssumption
<1>2. /\ p.lost \in Counts \cup {Unread} /\ p.rebooted \in Counts \cup {Unread}
      /\ p.free \in Shares \cup {Unread} /\ p.left \in Ages \cup {Unread}
      /\ p.problems \in Counts
  BY DEF PlatformRecord
<1> QED
  BY <1>1, <1>2, Zenon

\* Points for lost contact and for problems do not fall with their number.
LEMMA PointsKeepOrder ==
  /\ \A n \in Nat : Least(10 * n, 40) \in Nat /\ Least(5 * n, 30) \in Nat
  /\ \A n, k \in Nat : n <= k => /\ Least(10 * n, 40) <= Least(10 * k, 40)
                                 /\ Least(5 * n, 30) <= Least(5 * k, 30)
BY DEF Least

\* The points of the platform are a number.
LEMMA RawOfType ==
  ASSUME NEW p \in PlatformRecord PROVE RawOf(p) \in Int /\ LostPoints(p) \in Nat
<1>1. LostPoints(p) \in Nat
  <2>1. CASE Positive(p.lost)
    <3>1. p.lost \in Nat
      BY <2>1, PlatformFields, Zenon DEF Positive
    <3> QED
      BY <2>1, <3>1, PointsKeepOrder, Zenon DEF LostPoints
  <2>2. CASE ~Positive(p.lost)
    <3>1. LostPoints(p) = 0
      BY <2>2, Zenon DEF LostPoints
    <3> QED
      BY <3>1
  <2> QED
    BY <2>1, <2>2
<1>2. Least(10 * p.problems, 40) \in Nat
  BY PlatformFields, PointsKeepOrder, Zenon
<1>3. \A c : /\ Cost(c, 5) \in Nat /\ Cost(c, 20) \in Nat /\ Cost(c, 15) \in Nat
             /\ Cost(c, 50) \in Nat /\ Cost(c, 30) \in Nat /\ Cost(c, 10) \in Nat
  <2>1. 5 \in Nat /\ 20 \in Nat /\ 15 \in Nat /\ 50 \in Nat /\ 30 \in Nat /\ 10 \in Nat
    OBVIOUS
  <2> QED
    BY <2>1, CostKeepsOrder, Zenon
<1> DEFINE l == LostPoints(p)
           r == Cost(Positive(p.rebooted), 5)
           f == Cost(Full(p), 20)
           o == Cost(IsOdd(p), 15)
           e == Cost(p.expired, 50)
           m == Cost(p.missing, 30)
           i == Cost(IsInvalid(p), 20)
           s == Cost(RunsOut(p), 10)
           k == Least(10 * p.problems, 40)
<1>4. RawOf(p) = 100 - l - r - f - o - e - m - i - s - k
  BY Zenon DEF RawOf, PlatformRaw
<1>5. /\ l \in Nat /\ r \in Nat /\ f \in Nat /\ o \in Nat /\ e \in Nat /\ m \in Nat
      /\ i \in Nat /\ s \in Nat /\ k \in Nat
  BY <1>1, <1>2, <1>3, Zenon
<1> HIDE DEF l, r, f, o, e, m, i, s, k
<1>6. RawOf(p) \in Int
  BY <1>4, <1>5
<1> QED
  BY <1>1, <1>6

\* What is found on the platform is still found when nothing got better.
LEMMA PlatformFindingsStay ==
  ASSUME NEW a \in PlatformRecord, NEW b \in PlatformRecord, PlatformNotBetter(a, b)
  PROVE /\ Positive(a.lost) => Positive(b.lost) /\ a.lost <= b.lost
        /\ Positive(a.rebooted) => Positive(b.rebooted)
        /\ Full(a) => Full(b)
        /\ IsOdd(a) => IsOdd(b)
        /\ a.expired => b.expired
        /\ a.missing => b.missing
        /\ IsInvalid(a) => IsInvalid(b) \/ b.missing
        /\ RunsOut(a) => RunsOut(b)
        /\ a.problems <= b.problems
<1>1. /\ a["lost"] # Unread => b["lost"] # Unread /\ a["lost"] <= b["lost"]
      /\ a["rebooted"] # Unread => b["rebooted"] # Unread /\ a["rebooted"] <= b["rebooted"]
  BY Zenon DEF PlatformNotBetter
<1>2. /\ a.lost # Unread => b.lost # Unread /\ a.lost <= b.lost
      /\ a.rebooted # Unread => b.rebooted # Unread /\ a.rebooted <= b.rebooted
  BY <1>1
<1>3. /\ a.lost # Unread => a.lost \in Nat
      /\ a.rebooted # Unread => a.rebooted \in Nat
      /\ a.free # Unread => a.free \in Nat
      /\ a.left # Unread => a.left \in Int
  BY PlatformFields, Zenon
<1>4. /\ b.lost # Unread => b.lost \in Nat
      /\ b.rebooted # Unread => b.rebooted \in Nat
      /\ b.free # Unread => b.free \in Nat
      /\ b.left # Unread => b.left \in Int
  BY PlatformFields, Zenon
<1>5. FreeWarn \in Int /\ ExpiryWindow \in Int
  BY ThresholdsAssumption
<1>6. Positive(a.lost) => Positive(b.lost) /\ a.lost <= b.lost
  BY <1>2, <1>3, <1>4 DEF Positive
<1>7. Positive(a.rebooted) => Positive(b.rebooted)
  BY <1>2, <1>3, <1>4 DEF Positive
<1>8. Full(a) => Full(b)
  <2>1. a.free # Unread => b.free # Unread /\ b.free <= a.free
    BY Zenon DEF PlatformNotBetter
  <2>2. a.free # Unread => a.free \in Nat
    BY PlatformFields, Zenon
  <2> QED
    BY <2>1, <2>2, <1>4, <1>5 DEF Full
<1>9. RunsOut(a) => RunsOut(b)
  <2>1. a.left # Unread /\ 0 < a.left => b.left # Unread /\ b.left \in 1..a.left
    BY Zenon DEF PlatformNotBetter
  <2>2. a.left # Unread => a.left \in Int
    BY PlatformFields, Zenon
  <2> QED
    BY <2>1, <2>2, <1>4, <1>5 DEF RunsOut
<1>10. /\ IsOdd(a) => IsOdd(b)
       /\ a.expired => b.expired
       /\ a.missing => b.missing
       /\ IsInvalid(a) => IsInvalid(b) \/ b.missing
       /\ a.problems <= b.problems
  BY Zenon DEF PlatformNotBetter, IsInvalid
<1> QED
  BY <1>6, <1>7, <1>8, <1>9, <1>10, Zenon

\* So the points of the platform do not rise.
LEMMA RawOfDoesNotRise ==
  ASSUME NEW a \in PlatformRecord, NEW b \in PlatformRecord, PlatformNotBetter(a, b)
  PROVE RawOf(b) <= RawOf(a)
<1>1. LostPoints(a) <= LostPoints(b)
  <2>1. CASE Positive(a.lost)
    <3>1. Positive(b.lost) /\ a.lost <= b.lost
      BY <2>1, PlatformFindingsStay, Zenon
    <3>2. a.lost \in Nat /\ b.lost \in Nat
      BY <2>1, <3>1, PlatformFields, Zenon DEF Positive
    <3>3. LostPoints(a) = Least(5 * a.lost, 30) /\ LostPoints(b) = Least(5 * b.lost, 30)
      BY <2>1, <3>1, Zenon DEF LostPoints
    <3> QED
      BY <3>1, <3>2, <3>3, PointsKeepOrder, Zenon
  <2>2. CASE ~Positive(a.lost)
    <3>1. LostPoints(a) = 0 /\ LostPoints(b) \in Nat
      BY <2>2, RawOfType, Zenon DEF LostPoints
    <3> QED
      BY <3>1
  <2> QED
    BY <2>1, <2>2
<1>2. /\ Cost(Positive(a.rebooted), 5) <= Cost(Positive(b.rebooted), 5)
      /\ Cost(Full(a), 20) <= Cost(Full(b), 20)
      /\ Cost(IsOdd(a), 15) <= Cost(IsOdd(b), 15)
      /\ Cost(a.expired, 50) <= Cost(b.expired, 50)
      /\ Cost(RunsOut(a), 10) <= Cost(RunsOut(b), 10)
  <2>1. 5 \in Nat /\ 20 \in Nat /\ 15 \in Nat /\ 50 \in Nat /\ 10 \in Nat
    OBVIOUS
  <2> QED
    BY <2>1, PlatformFindingsStay, CostKeepsOrder, Zenon
<1>3. Cost(a.missing, 30) + Cost(IsInvalid(a), 20) <= Cost(b.missing, 30) + Cost(IsInvalid(b), 20)
  <2>1. /\ a.missing => b.missing
        /\ IsInvalid(a) => IsInvalid(b) \/ b.missing
        /\ a.missing => ~IsInvalid(a)
    BY PlatformFindingsStay, Zenon DEF IsInvalid
  <2>2. \/ Cost(a.missing, 30) = 0 /\ Cost(IsInvalid(a), 20) = 0
        \/ Cost(b.missing, 30) = 30 /\ Cost(a.missing, 30) = 30 /\ Cost(IsInvalid(a), 20) = 0
        \/ Cost(b.missing, 30) = 30 /\ Cost(a.missing, 30) = 0 /\ Cost(IsInvalid(a), 20) = 20
        \/ Cost(IsInvalid(b), 20) = 20 /\ Cost(a.missing, 30) = 0 /\ Cost(IsInvalid(a), 20) = 20
    BY <2>1, Zenon DEF Cost
  <2>3. Cost(b.missing, 30) \in {0, 30} /\ Cost(IsInvalid(b), 20) \in {0, 20}
    BY Zenon DEF Cost
  <2> QED
    BY <2>2, <2>3
<1>4. Least(10 * a.problems, 40) <= Least(10 * b.problems, 40)
  BY PlatformFindingsStay, PlatformFields, PointsKeepOrder, Zenon
<1>5. ASSUME NEW p \in PlatformRecord
      PROVE /\ LostPoints(p) \in Nat /\ Least(10 * p.problems, 40) \in Nat
            /\ Cost(Positive(p.rebooted), 5) \in {0, 5} /\ Cost(Full(p), 20) \in {0, 20}
            /\ Cost(IsOdd(p), 15) \in {0, 15} /\ Cost(p.expired, 50) \in {0, 50}
            /\ Cost(RunsOut(p), 10) \in {0, 10} /\ Cost(p.missing, 30) \in {0, 30}
            /\ Cost(IsInvalid(p), 20) \in {0, 20}
  <2>1. LostPoints(p) \in Nat /\ Least(10 * p.problems, 40) \in Nat
    BY RawOfType, PlatformFields, PointsKeepOrder, Zenon
  <2> QED
    BY <2>1, Zenon DEF Cost
<1> DEFINE l(p) == LostPoints(p)
           r(p) == Cost(Positive(p.rebooted), 5)
           f(p) == Cost(Full(p), 20)
           o(p) == Cost(IsOdd(p), 15)
           e(p) == Cost(p.expired, 50)
           m(p) == Cost(p.missing, 30)
           i(p) == Cost(IsInvalid(p), 20)
           s(p) == Cost(RunsOut(p), 10)
           k(p) == Least(10 * p.problems, 40)
<1>6. ASSUME NEW p \in PlatformRecord
      PROVE /\ RawOf(p) = 100 - l(p) - r(p) - f(p) - o(p) - e(p) - m(p) - i(p) - s(p) - k(p)
            /\ l(p) \in Int /\ r(p) \in Int /\ f(p) \in Int /\ o(p) \in Int /\ e(p) \in Int
            /\ m(p) \in Int /\ i(p) \in Int /\ s(p) \in Int /\ k(p) \in Int
  <2>1. RawOf(p) = 100 - l(p) - r(p) - f(p) - o(p) - e(p) - m(p) - i(p) - s(p) - k(p)
    BY Zenon DEF RawOf, PlatformRaw
  <2> HIDE DEF l, r, f, o, e, m, i, s, k
  <2>2. /\ l(p) \in Nat /\ k(p) \in Nat /\ r(p) \in {0, 5} /\ f(p) \in {0, 20}
        /\ o(p) \in {0, 15} /\ e(p) \in {0, 50} /\ s(p) \in {0, 10} /\ m(p) \in {0, 30}
        /\ i(p) \in {0, 20}
    BY <1>5, Zenon DEF l, r, f, o, e, m, i, s, k
  <2> QED
    BY <2>1, <2>2
<1>7. /\ l(a) <= l(b) /\ k(a) <= k(b) /\ r(a) <= r(b) /\ f(a) <= f(b) /\ o(a) <= o(b)
      /\ e(a) <= e(b) /\ s(a) <= s(b) /\ m(a) + i(a) <= m(b) + i(b)
  BY <1>1, <1>2, <1>3, <1>4, Zenon
<1> HIDE DEF l, r, f, o, e, m, i, s, k
<1> QED
  BY <1>6, <1>7

\* The status of the platform and its rank.
LEMMA PlatformStatusIs ==
  ASSUME NEW p \in PlatformRecord
  PROVE /\ PlatformStatus(p) =
             IF PlatformFails(p) THEN "unhealthy"
             ELSE IF PlatformWarns(p) \/ PlatformScore(p) < 85 THEN "degraded"
             ELSE "healthy"
        /\ PlatformScore(p) \in 0..100
        /\ Rank(PlatformStatus(p)) \in 0..2
<1>1. PlatformStatus(p) =
             IF PlatformFails(p) THEN "unhealthy"
             ELSE IF PlatformWarns(p) \/ PlatformScore(p) < 85 THEN "degraded"
             ELSE "healthy"
  <2>1. CASE PlatformFails(p)
    <3>1. PlatformFound(p) = "unhealthy"
      BY <2>1, PlatformChain, Zenon
    <3>2. PlatformStatus(p) = "unhealthy"
      BY <3>1 DEF PlatformStatus
    <3> QED
      BY <2>1, <3>2, Zenon
  <2>2. CASE ~PlatformFails(p) /\ PlatformWarns(p)
    <3>1. PlatformFound(p) = "degraded"
      BY <2>2, PlatformChain, Zenon
    <3>2. PlatformStatus(p) = "degraded"
      BY <3>1 DEF PlatformStatus
    <3> QED
      BY <2>2, <3>2, Zenon
  <2>3. CASE ~PlatformFails(p) /\ ~PlatformWarns(p)
    <3>1. PlatformFound(p) = "healthy"
      BY <2>3, PlatformChain, Zenon
    <3>2. PlatformStatus(p) = IF PlatformScore(p) < 85 THEN "degraded" ELSE "healthy"
      BY <3>1, Zenon DEF PlatformStatus
    <3> QED
      BY <2>3, <3>2, Zenon
  <2> QED
    BY <2>1, <2>2, <2>3
<1>2. PlatformScore(p) \in 0..100
  BY RawOfType, PlatformScoreIs, ClampKeepsOrder, Zenon
<1>3. PlatformStatus(p) \in {"unhealthy", "degraded", "healthy"}
  BY <1>1, Zenon
<1>4. Rank(PlatformStatus(p)) \in {0, 1, 2}
  BY <1>3, RankTable, Zenon
<1> QED
  BY <1>1, <1>2, <1>4

\* A platform that is in no respect better has no better status or score.
LEMMA WorsePlatform ==
  ASSUME NEW a \in PlatformRecord, NEW b \in PlatformRecord, PlatformNotBetter(a, b)
  PROVE /\ Rank(PlatformStatus(b)) <= Rank(PlatformStatus(a))
        /\ PlatformScore(b) <= PlatformScore(a)
<1>1. PlatformFails(a) => PlatformFails(b)
  BY PlatformFindingsStay, Zenon DEF PlatformFails
<1>2. PlatformWarns(a) => PlatformWarns(b) \/ PlatformFails(b)
  <2>1. a.problems > 0 => b.problems > 0
    <3>1. a.problems \in Nat /\ b.problems \in Nat
      BY PlatformFields, Zenon
    <3>2. a.problems <= b.problems
      BY PlatformFindingsStay, Zenon
    <3> QED
      BY <3>1, <3>2
  <2> QED
    BY <2>1, PlatformFindingsStay, Zenon DEF PlatformWarns, PlatformFails
<1>3. PlatformScore(b) <= PlatformScore(a)
  BY RawOfType, RawOfDoesNotRise, PlatformScoreIs, ClampKeepsOrder, Zenon
<1>4. PlatformScore(a) \in 0..100 /\ PlatformScore(b) \in 0..100
  BY PlatformStatusIs, Zenon
<1>5. PlatformScore(a) < 85 => PlatformScore(b) < 85
  BY <1>3, <1>4
<1>6. Rank(PlatformStatus(a)) \in 0..2 /\ Rank(PlatformStatus(b)) \in 0..2
  BY PlatformStatusIs
<1>7. CASE PlatformFails(b)
  <2>1. Rank(PlatformStatus(b)) = 0
    BY <1>7, PlatformStatusIs, RankTable, Zenon
  <2> QED
    BY <1>3, <1>6, <2>1
<1>8. CASE ~PlatformFails(b) /\ (PlatformWarns(b) \/ PlatformScore(b) < 85)
  <2>1. Rank(PlatformStatus(b)) = 1
    BY <1>8, PlatformStatusIs, RankTable, Zenon
  <2>2. PlatformStatus(a) \in {"degraded", "healthy"}
    BY <1>1, <1>8, PlatformStatusIs, Zenon
  <2>3. Rank(PlatformStatus(a)) \in {1, 2}
    BY <2>2, RankTable, Zenon
  <2> QED
    BY <1>3, <2>1, <2>3
<1>9. CASE ~PlatformFails(b) /\ ~PlatformWarns(b) /\ ~(PlatformScore(b) < 85)
  <2>1. PlatformStatus(b) = "healthy" /\ PlatformStatus(a) = "healthy"
    BY <1>1, <1>2, <1>5, <1>9, PlatformStatusIs, Zenon
  <2> QED
    BY <1>3, <1>6, <2>1
<1> QED
  BY <1>7, <1>8, <1>9

-----------------------------------------------------------------------------
(* The records are of their types, from poll to poll.                      *)

Records == device \in DeviceRecord /\ platform \in PlatformRecord

\* One respect of a device is polled anew.
LEMMA DeviceStaysARecord ==
  ASSUME Records, PollDevice PROVE device' \in DeviceRecord
<1>1. /\ device \in DeviceRecord /\ device.hw \in [HwItems -> HwSeen]
      /\ device.ports \in [Ports -> PortRecords]
  BY DEF Records, DeviceRecord
<1>2. ASSUME NEW v \in Identities PROVE [device EXCEPT !.named = v] \in DeviceRecord
  BY <1>1 DEF DeviceRecord
<1>3. ASSUME NEW v \in BOOLEAN
      PROVE [device EXCEPT !.lost = v] \in DeviceRecord /\ [device EXCEPT !.off = v] \in DeviceRecord
  BY <1>1 DEF DeviceRecord
<1>4. ASSUME NEW n \in HwItems, NEW v \in HwSeen
      PROVE [device EXCEPT !.hw[n] = v] \in DeviceRecord
  <2>1. [device.hw EXCEPT ![n] = v] \in [HwItems -> HwSeen]
    BY <1>1
  <2>2. ASSUME NEW g \in [HwItems -> HwSeen] PROVE [device EXCEPT !.hw = g] \in DeviceRecord
    BY <1>1 DEF DeviceRecord
  <2> QED
    BY <2>1, <2>2
<1>5. ASSUME NEW v \in SUBSET Readings PROVE [device EXCEPT !.temps = v] \in DeviceRecord
  BY <1>1 DEF DeviceRecord
<1>6. ASSUME NEW p \in Ports, NEW v \in PortRecords
      PROVE [device EXCEPT !.ports[p] = v] \in DeviceRecord
  <2>1. [device.ports EXCEPT ![p] = v] \in [Ports -> PortRecords]
    BY <1>1
  <2>2. ASSUME NEW g \in [Ports -> PortRecords] PROVE [device EXCEPT !.ports = g] \in DeviceRecord
    BY <1>1 DEF DeviceRecord
  <2> QED
    BY <2>1, <2>2
<1> QED
  BY <1>2, <1>3, <1>4, <1>5, <1>6, Zenon DEF PollDevice

\* One respect of the platform is polled anew.
LEMMA PlatformStaysARecord ==
  ASSUME Records, PollPlatform PROVE platform' \in PlatformRecord
<1>1. platform \in PlatformRecord
  BY DEF Records
<1>2. ASSUME NEW v \in Counts \cup {Unread}
      PROVE /\ [platform EXCEPT !.lost = v] \in PlatformRecord
            /\ [platform EXCEPT !.rebooted = v] \in PlatformRecord
  BY <1>1 DEF PlatformRecord
<1>3. ASSUME NEW v \in Shares \cup {Unread} PROVE [platform EXCEPT !.free = v] \in PlatformRecord
  BY <1>1 DEF PlatformRecord
<1>4. ASSUME NEW v \in Buffers PROVE [platform EXCEPT !.buffer = v] \in PlatformRecord
  BY <1>1 DEF PlatformRecord
<1>5. ASSUME NEW v \in BOOLEAN
      PROVE /\ [platform EXCEPT !.expired = v] \in PlatformRecord
            /\ [platform EXCEPT !.missing = v] \in PlatformRecord
            /\ [platform EXCEPT !.invalid = v] \in PlatformRecord
  BY <1>1 DEF PlatformRecord
<1>6. ASSUME NEW v \in Ages \cup {Unread} PROVE [platform EXCEPT !.left = v] \in PlatformRecord
  BY <1>1 DEF PlatformRecord
<1>7. ASSUME NEW v \in Counts PROVE [platform EXCEPT !.problems = v] \in PlatformRecord
  BY <1>1 DEF PlatformRecord
<1> QED
  BY <1>2, <1>3, <1>4, <1>5, <1>6, <1>7, Zenon DEF PollPlatform

\* A step keeps the records.
LEMMA RecordsStay == Records /\ [MapperNext]_mapperVars => Records'
<1> SUFFICES ASSUME Records, [MapperNext]_mapperVars PROVE Records'
  OBVIOUS
<1>1. CASE PollDevice
  BY <1>1, DeviceStaysARecord, Zenon DEF PollDevice, Records
<1>2. CASE PollPlatform
  BY <1>2, PlatformStaysARecord, Zenon DEF PollPlatform, Records
<1>3. CASE UNCHANGED mapperVars
  BY <1>3, Zenon DEF mapperVars, Records
<1> QED
  BY <1>1, <1>2, <1>3 DEF MapperNext

-----------------------------------------------------------------------------
(* What is sent.                                                           *)

\* A reason is given or not, and up to n of a list are kept.
LEMMA ReasonList ==
  /\ \A found, reason : Because(found, reason) \in Seq({reason})
  /\ \A S : \A seq \in Seq(S), n \in Nat : Len(FirstOf(n, seq)) \in 0..n
<1>1. ASSUME NEW found, NEW reason PROVE Because(found, reason) \in Seq({reason})
  <2>1. <<>> \in Seq({reason}) /\ <<reason>> \in Seq({reason})
    OBVIOUS
  <2> QED
    BY <2>1, Zenon DEF Because
<1>2. ASSUME NEW S, NEW seq \in Seq(S), NEW n \in Nat PROVE Len(FirstOf(n, seq)) \in 0..n
  <2> DEFINE m == Least(n, Len(seq))
  <2>1. m \in Nat /\ m <= n /\ m <= Len(seq)
    BY DEF Least
  <2> HIDE DEF m
  <2>2. Len(SubSeq(seq, 1, m)) = m
    BY <2>1
  <2>3. FirstOf(n, seq) = SubSeq(seq, 1, m)
    BY Zenon DEF FirstOf, m
  <2> QED
    BY <2>1, <2>2, <2>3
<1> QED
  BY <1>1, <1>2

Named == {"lost_contact", "hardware_fault", "thermal_critical", "thermal_warning",
          "ports_down", "link_flap", "optical_low", "optical_edge_out_of_contact",
          "optical_edge_rebooted_24h", "platform_disk_low", "bufferwatch",
          "license_expired", "license_file_missing", "license_invalid",
          "license_expires", "active_problems"}

\* The reasons are a sequence.
LEMMA ReasonsAreSeq ==
  /\ \A dev : DeviceReasons(dev) \in Seq(Named)
  /\ \A p : PlatformReasons(p) \in Seq(Named)
<1>1. ASSUME NEW found, NEW reason \in Named PROVE Because(found, reason) \in Seq(Named)
  <2>1. <<>> \in Seq(Named) /\ <<reason>> \in Seq(Named)
    OBVIOUS
  <2> QED
    BY <2>1, Zenon DEF Because
<1>2. \A s, t \in Seq(Named) : s \o t \in Seq(Named)
  OBVIOUS
<1>3. ASSUME NEW dev PROVE DeviceReasons(dev) \in Seq(Named)
  <2> DEFINE faults == [i \in 1..Cardinality(BadItems(dev)) |-> "hardware_fault"]
  <2>1. faults \in Seq(Named)
    <3> DEFINE n == Cardinality(BadItems(dev))
    <3>1. n \in Nat
      BY DeviceCounts, Zenon
    <3>2. "hardware_fault" \in Named
      BY Zenon DEF Named
    <3> HIDE DEF n
    <3>3. faults \in [1..n -> Named]
      BY <3>2, Zenon DEF n
    <3> HIDE DEF faults
    <3> QED
      BY <3>1, <3>3
  <2>2. /\ Because(IsCritical(dev), "thermal_critical") \in Seq(Named)
        /\ Because(IsWarm(dev), "thermal_warning") \in Seq(Named)
        /\ Because(DownPorts(dev) # {}, "ports_down") \in Seq(Named)
        /\ Because(IsFlapping(dev), "link_flap") \in Seq(Named)
        /\ Because(WeakPorts(dev) # {}, "optical_low") \in Seq(Named)
    BY <1>1, Zenon DEF Named
  <2>3. <<"lost_contact">> \in Seq(Named)
    BY DEF Named
  <2> HIDE DEF faults
  <2>4. CASE ~InContact(dev)
    <3>1. DeviceReasons(dev) = <<"lost_contact">>
      BY <2>4, Zenon DEF DeviceReasons
    <3> QED
      BY <2>3, <3>1, Zenon
  <2>5. CASE InContact(dev)
    <3> DEFINE c == Because(IsCritical(dev), "thermal_critical")
               h == Because(IsWarm(dev), "thermal_warning")
               d == Because(DownPorts(dev) # {}, "ports_down")
               f == Because(IsFlapping(dev), "link_flap")
               w == Because(WeakPorts(dev) # {}, "optical_low")
    <3>1. DeviceReasons(dev) = faults \o c \o h \o d \o f \o w
      BY <2>5, Zenon DEF DeviceReasons, faults
    <3> HIDE DEF c, h, d, f, w
    <3>2. /\ c \in Seq(Named) /\ h \in Seq(Named) /\ d \in Seq(Named)
          /\ f \in Seq(Named) /\ w \in Seq(Named)
      BY <2>2, Zenon DEF c, h, d, f, w
    <3>3. faults \o c \o h \o d \o f \o w \in Seq(Named)
      BY <1>2, <2>1, <3>2, Zenon
    <3> QED
      BY <3>1, <3>3, Zenon
  <2> QED
    BY <2>4, <2>5
<1>4. ASSUME NEW p PROVE PlatformReasons(p) \in Seq(Named)
  <2>1. /\ Because(Positive(p.lost), "optical_edge_out_of_contact") \in Seq(Named)
        /\ Because(Positive(p.rebooted), "optical_edge_rebooted_24h") \in Seq(Named)
        /\ Because(Full(p), "platform_disk_low") \in Seq(Named)
        /\ Because(IsOdd(p), "bufferwatch") \in Seq(Named)
        /\ Because(p.expired, "license_expired") \in Seq(Named)
        /\ Because(p.missing, "license_file_missing") \in Seq(Named)
        /\ Because(IsInvalid(p), "license_invalid") \in Seq(Named)
        /\ Because(RunsOut(p), "license_expires") \in Seq(Named)
        /\ Because(p.problems > 0, "active_problems") \in Seq(Named)
    BY <1>1, Zenon DEF Named
  <2> QED
    BY <1>2, <2>1, Zenon DEF PlatformReasons
<1> QED
  BY <1>3, <1>4

\* There is always an event, and never more than five.
LEMMA EventCounts ==
  /\ \A reasons \in Seq(Named) : Len(TopEvents(reasons)) \in 1..5
  /\ \A p \in PlatformRecord : Len(PlatformEvents(p)) \in 1..5
<1>1. ASSUME NEW reasons \in Seq(Named) PROVE Len(TopEvents(reasons)) \in 1..5
  <2>1. CASE reasons = <<>>
    <3>1. TopEvents(reasons) = <<"info">>
      BY <2>1, Zenon DEF TopEvents
    <3> QED
      BY <3>1
  <2>2. CASE reasons # <<>>
    <3> DEFINE n == Least(5, Len(reasons))
               list == [i \in 1..n |-> EventSeverity(reasons[i])]
    <3>1. n \in 1..5
      <4>1. Len(reasons) \in Nat \ {0}
        BY <2>2, EmptySeq, Zenon
      <4>2. \A k \in Nat \ {0} : Least(5, k) \in 1..5
        BY DEF Least
      <4> QED
        BY <4>1, <4>2, Zenon
    <3>2. TopEvents(reasons) = list
      BY <2>2, Zenon DEF TopEvents
    <3> HIDE DEF n
    <3>3. Len(list) = n
      BY <3>1
    <3> HIDE DEF list
    <3> QED
      BY <3>1, <3>2, <3>3, Zenon
  <2> QED
    BY <2>1, <2>2
<1>2. ASSUME NEW p \in PlatformRecord PROVE Len(PlatformEvents(p)) \in 1..5
  <2> DEFINE named == Least(p.problems, 5)
             warned == Least(Len(PlatformReasons(p)), 5 - named)
             list == [i \in 1..(named + warned) |-> IF i <= named THEN "err" ELSE "warning"]
  <2>1. named \in 0..5
    BY PlatformFields DEF Least
  <2>2. Len(PlatformReasons(p)) \in Nat
    BY ReasonsAreSeq
  <2> HIDE DEF named
  <2>3. warned \in 0..(5 - named)
    BY <2>1, <2>2 DEF Least
  <2> HIDE DEF warned
  <2>4. PlatformEvents(p) = IF named + warned = 0 THEN <<"info">> ELSE list
    BY Zenon DEF PlatformEvents, named, warned
  <2>5. named + warned \in 0..5
    BY <2>1, <2>3
  <2>6. Len(list) = named + warned
    BY <2>5
  <2>7. Len(<<"info">>) = 1
    OBVIOUS
  <2> HIDE DEF list
  <2>8. CASE named + warned = 0
    BY <2>4, <2>7, <2>8
  <2>9. CASE named + warned # 0
    BY <2>4, <2>5, <2>6, <2>9
  <2> QED
    BY <2>8, <2>9
<1> QED
  BY <1>1, <1>2

\* So the backend accepts what is sent of a device.
LEMMA DeviceAccepted ==
  ASSUME NEW dev, DeviceMessage(dev) # NoMessage PROVE IsAccepted(DeviceMessage(dev))
<1> DEFINE m == DeviceMessage(dev)
<1>1. m = [id |-> DeviceIdFor(dev), status |-> DeviceStatus(dev), score |-> DeviceScore(dev),
           reasons |-> FirstOf(10, DeviceReasons(dev)),
           events |-> TopEvents(DeviceReasons(dev))]
  BY Zenon DEF DeviceMessage
<1>2. /\ m.status = DeviceStatus(dev) /\ m.score = DeviceScore(dev)
      /\ m.reasons = FirstOf(10, DeviceReasons(dev))
      /\ m.events = TopEvents(DeviceReasons(dev))
  BY <1>1
<1> HIDE DEF m
<1>3. m.status \in Levels /\ m.score \in 0..100
  <2>1. DeviceStatus(dev) \in {"unhealthy", "degraded", "healthy"}
    BY StatusIs, Zenon
  <2> QED
    BY <1>2, <2>1, StatusIs, Zenon DEF Levels
<1>4. Len(m.reasons) \in 0..10 /\ Len(m.events) \in 1..5
  <2>1. 10 \in Nat
    OBVIOUS
  <2> QED
    BY <1>2, <2>1, ReasonsAreSeq, ReasonList, EventCounts, Zenon
<1>5. Len(m.reasons) <= 10
  <2>1. \A n \in 0..10 : n <= 10
    OBVIOUS
  <2> QED
    BY <1>4, <2>1, Zenon
<1> QED
  BY <1>3, <1>4, <1>5, Zenon DEF IsAccepted, Levels, m

\* And what is sent of the platform.
LEMMA PlatformAccepted ==
  ASSUME NEW p \in PlatformRecord PROVE IsAccepted(PlatformMessage(p))
<1> DEFINE m == PlatformMessage(p)
<1>1. /\ m.status = PlatformStatus(p) /\ m.score = PlatformScore(p)
      /\ m.reasons = FirstOf(10, PlatformReasons(p))
      /\ m.events = PlatformEvents(p)
  BY DEF PlatformMessage
<1> HIDE DEF m
<1>2. m.status \in Levels /\ m.score \in 0..100
  <2>1. PlatformStatus(p) \in {"unhealthy", "degraded", "healthy"}
    BY PlatformStatusIs, Zenon
  <2> QED
    BY <1>1, <2>1, PlatformStatusIs, Zenon DEF Levels
<1>3. Len(m.reasons) \in 0..10 /\ Len(m.events) \in 1..5
  <2>1. 10 \in Nat
    OBVIOUS
  <2> QED
    BY <1>1, <2>1, ReasonsAreSeq, ReasonList, EventCounts, Zenon
<1>4. Len(m.reasons) <= 10
  <2>1. \A n \in 0..10 : n <= 10
    OBVIOUS
  <2> QED
    BY <1>3, <2>1, Zenon
<1> QED
  BY <1>2, <1>3, <1>4, Zenon DEF IsAccepted, Levels, m

\* The records are of their types, and every message that status_to_message
\* and device_to_message build is one that the backend's schema accepts.
THEOREM MessagesAccepted == MapperSpec => []MapperTypeOK
<1>1. MapperInit => Records
  BY DEF MapperInit, Records
<1>2. Records => MapperTypeOK
  BY DeviceAccepted, PlatformAccepted, Zenon DEF Records, MapperTypeOK
<1> QED
  BY <1>1, <1>2, RecordsStay, PTL DEF MapperSpec

-----------------------------------------------------------------------------
(* What the events say.                                                    *)

Warnings == {"thermal_warning", "ports_down", "link_flap", "optical_low"}

\* What is found first stays first, and lists of warnings make a list of them.
LEMMA Joining ==
  /\ \A S : \A s, t \in Seq(S) : s \o t \in Seq(S)
  /\ \A S : \A s, t \in Seq(S) : s # <<>> => s \o t # <<>> /\ (s \o t)[1] = s[1]
  /\ \A S : \A t \in Seq(S) : <<>> \o t = t /\ t \o <<>> = t
<1>1. ASSUME NEW S, NEW s \in Seq(S), NEW t \in Seq(S), s # <<>>
      PROVE s \o t # <<>> /\ (s \o t)[1] = s[1]
  <2>1. Len(s) \in Nat \ {0}
    BY <1>1, EmptySeq, Zenon
  <2>2. Len(s \o t) = Len(s) + Len(t) /\ Len(t) \in Nat
    OBVIOUS
  <2>3. s \o t # <<>>
    BY <2>1, <2>2
  <2>4. (s \o t)[1] = s[1]
    BY <2>1, <2>2
  <2> QED
    BY <2>3, <2>4
<1>2. \A S : \A s, t \in Seq(S) : s \o t \in Seq(S)
  OBVIOUS
<1>3. \A S : \A t \in Seq(S) : <<>> \o t = t /\ t \o <<>> = t
  OBVIOUS
<1> QED
  BY <1>1, <1>2, <1>3

\* A reason is given exactly if it is found.
LEMMA BecauseIs ==
  \A found, reason : /\ found => Because(found, reason) = <<reason>> /\ Because(found, reason) # <<>>
                     /\ ~found => Because(found, reason) = <<>>
<1> SUFFICES ASSUME NEW found, NEW reason
             PROVE /\ found => Because(found, reason) = <<reason>> /\ Because(found, reason) # <<>>
                   /\ ~found => Because(found, reason) = <<>>
  OBVIOUS
<1>1. <<reason>> # <<>>
  OBVIOUS
<1> QED
  BY <1>1, Zenon DEF Because

\* The reasons for a device in contact begin with what makes it unhealthy; a
\* device that nothing makes unhealthy has warnings, or no reason at all.
LEMMA FirstReason ==
  ASSUME NEW dev, InContact(dev)
  PROVE /\ DeviceFails(dev) => /\ DeviceReasons(dev) # <<>>
                               /\ DeviceReasons(dev)[1] \in {"hardware_fault", "thermal_critical"}
        /\ ~DeviceFails(dev) => /\ DeviceReasons(dev) \in Seq(Warnings)
                                /\ DeviceReasons(dev) # <<>> <=> DeviceWarns(dev)
<1> DEFINE faults == [i \in 1..Cardinality(BadItems(dev)) |-> "hardware_fault"]
           c == Because(IsCritical(dev), "thermal_critical")
           h == Because(IsWarm(dev), "thermal_warning")
           d == Because(DownPorts(dev) # {}, "ports_down")
           f == Because(IsFlapping(dev), "link_flap")
           w == Because(WeakPorts(dev) # {}, "optical_low")
<1>1. DeviceReasons(dev) = faults \o c \o h \o d \o f \o w
  BY Zenon DEF DeviceReasons
<1>2. /\ BadItems(dev) # {} => faults \in Seq(Named) /\ faults # <<>> /\ faults[1] = "hardware_fault"
      /\ BadItems(dev) = {} => faults = <<>>
  <2>1. IsFiniteSet(BadItems(dev))
    <3>1. BadItems(dev) \subseteq HwItems
      BY Zenon DEF BadItems
    <3> QED
      BY <3>1, FiniteAssumption, FS_Subset
  <2> DEFINE n == Cardinality(BadItems(dev))
  <2>2. n \in Nat /\ (n = 0 <=> BadItems(dev) = {})
    BY <2>1, FS_CardinalityType, FS_EmptySet
  <2>3. \A k \in Nat : LET g == [i \in 1..k |-> "hardware_fault"] IN
          /\ k # 0 => g \in Seq(Named) /\ g # <<>> /\ g[1] = "hardware_fault"
          /\ k = 0 => g = <<>>
    <3> SUFFICES ASSUME NEW k \in Nat
                 PROVE LET g == [i \in 1..k |-> "hardware_fault"] IN
                         /\ k # 0 => g \in Seq(Named) /\ g # <<>> /\ g[1] = "hardware_fault"
                         /\ k = 0 => g = <<>>
      OBVIOUS
    <3> DEFINE g == [i \in 1..k |-> "hardware_fault"]
    <3>1. "hardware_fault" \in Named
      BY Zenon DEF Named
    <3>2. g \in Seq(Named) /\ Len(g) = k /\ (k # 0 => g[1] = "hardware_fault")
      BY <3>1
    <3> HIDE DEF g
    <3>3. (k # 0 => g # <<>>) /\ (k = 0 => g = <<>>)
      BY <3>2
    <3> QED
      BY <3>2, <3>3 DEF g
  <2> HIDE DEF n
  <2> QED
    BY <2>2, <2>3, Zenon DEF n
<1>3. /\ c \in Seq(Named) /\ h \in Seq(Named) /\ d \in Seq(Named)
      /\ f \in Seq(Named) /\ w \in Seq(Named)
  <2>1. ASSUME NEW found, NEW reason \in Named PROVE Because(found, reason) \in Seq(Named)
    <3>1. <<>> \in Seq(Named) /\ <<reason>> \in Seq(Named)
      OBVIOUS
    <3> QED
      BY <3>1, Zenon DEF Because
  <2> QED
    BY <2>1, Zenon DEF Named
<1>4. /\ h \in Seq(Warnings) /\ d \in Seq(Warnings) /\ f \in Seq(Warnings)
      /\ w \in Seq(Warnings)
  <2>1. ASSUME NEW found, NEW reason \in Warnings PROVE Because(found, reason) \in Seq(Warnings)
    <3>1. <<>> \in Seq(Warnings) /\ <<reason>> \in Seq(Warnings)
      OBVIOUS
    <3> QED
      BY <3>1, Zenon DEF Because
  <2> QED
    BY <2>1, Zenon DEF Warnings
<1>5. /\ (IsCritical(dev) => c # <<>> /\ c = <<"thermal_critical">>) /\ (~IsCritical(dev) => c = <<>>)
      /\ h # <<>> <=> IsWarm(dev)
      /\ d # <<>> <=> DownPorts(dev) # {}
      /\ f # <<>> <=> IsFlapping(dev)
      /\ w # <<>> <=> WeakPorts(dev) # {}
  <2>1. /\ <<"thermal_critical">> # <<>> /\ <<"thermal_warning">> # <<>>
        /\ <<"ports_down">> # <<>> /\ <<"link_flap">> # <<>> /\ <<"optical_low">> # <<>>
    OBVIOUS
  <2>2. (IsCritical(dev) => c # <<>> /\ c = <<"thermal_critical">>) /\ (~IsCritical(dev) => c = <<>>)
    BY <2>1, Zenon DEF Because
  <2>3. h # <<>> <=> IsWarm(dev)
    BY <2>1, Zenon DEF Because
  <2>4. d # <<>> <=> DownPorts(dev) # {}
    BY <2>1, Zenon DEF Because
  <2>5. f # <<>> <=> IsFlapping(dev)
    BY <2>1, Zenon DEF Because
  <2>6. w # <<>> <=> WeakPorts(dev) # {}
    BY <2>1, Zenon DEF Because
  <2> QED
    BY <2>2, <2>3, <2>4, <2>5, <2>6, Zenon
<1> HIDE DEF faults, c, h, d, f, w
<1>6. CASE BadItems(dev) # {}
  <2>1. faults \in Seq(Named) /\ faults # <<>> /\ faults[1] = "hardware_fault"
    BY <1>2, <1>6
  <2>2. faults \o c \in Seq(Named) /\ faults \o c # <<>> /\ (faults \o c)[1] = faults[1]
    BY <1>3, <2>1, Joining, Zenon
  <2>3. /\ faults \o c \o h \in Seq(Named) /\ faults \o c \o h # <<>>
        /\ (faults \o c \o h)[1] = faults[1]
    BY <1>3, <2>2, Joining, Zenon
  <2>4. /\ faults \o c \o h \o d \in Seq(Named) /\ faults \o c \o h \o d # <<>>
        /\ (faults \o c \o h \o d)[1] = faults[1]
    BY <1>3, <2>3, Joining, Zenon
  <2>5. /\ faults \o c \o h \o d \o f \in Seq(Named) /\ faults \o c \o h \o d \o f # <<>>
        /\ (faults \o c \o h \o d \o f)[1] = faults[1]
    BY <1>3, <2>4, Joining, Zenon
  <2>6. /\ faults \o c \o h \o d \o f \o w # <<>>
        /\ (faults \o c \o h \o d \o f \o w)[1] = faults[1]
    BY <1>3, <2>5, Joining, Zenon
  <2> QED
    BY <1>1, <1>6, <2>1, <2>6, Zenon DEF DeviceFails
<1>7. CASE BadItems(dev) = {} /\ IsCritical(dev)
  <2>1. faults \o c = c /\ c # <<>> /\ c[1] = "thermal_critical"
    <3>1. faults = <<>> /\ c # <<>> /\ c = <<"thermal_critical">>
      BY <1>2, <1>5, <1>7, Zenon
    <3>2. c[1] = "thermal_critical"
      BY <3>1
    <3> QED
      BY <1>3, <3>1, <3>2, Joining, Zenon
  <2>2. c \o h \in Seq(Named) /\ c \o h # <<>> /\ (c \o h)[1] = c[1]
    BY <1>3, <2>1, Joining, Zenon
  <2>3. c \o h \o d \in Seq(Named) /\ c \o h \o d # <<>> /\ (c \o h \o d)[1] = c[1]
    BY <1>3, <2>2, Joining, Zenon
  <2>4. /\ c \o h \o d \o f \in Seq(Named) /\ c \o h \o d \o f # <<>>
        /\ (c \o h \o d \o f)[1] = c[1]
    BY <1>3, <2>3, Joining, Zenon
  <2>5. c \o h \o d \o f \o w # <<>> /\ (c \o h \o d \o f \o w)[1] = c[1]
    BY <1>3, <2>4, Joining, Zenon
  <2> QED
    BY <1>1, <1>7, <2>1, <2>5, Zenon DEF DeviceFails
<1>8. CASE ~DeviceFails(dev)
  <2>1. faults = <<>> /\ c = <<>>
    BY <1>2, <1>5, <1>8, Zenon DEF DeviceFails
  <2>2. DeviceReasons(dev) = h \o d \o f \o w
    BY <1>1, <1>3, <2>1, Joining, Zenon
  <2>3. /\ h \o d \in Seq(Warnings) /\ h \o d \o f \in Seq(Warnings)
        /\ h \o d \o f \o w \in Seq(Warnings)
    BY <1>4, Joining, Zenon
  <2>4. ASSUME NEW s \in Seq(Warnings), NEW t \in Seq(Warnings)
        PROVE s \o t # <<>> <=> (s # <<>> \/ t # <<>>)
    <3>1. /\ Len(s \o t) = Len(s) + Len(t) /\ Len(s) \in Nat /\ Len(t) \in Nat
          /\ (s # <<>> <=> Len(s) # 0) /\ (t # <<>> <=> Len(t) # 0)
          /\ (s \o t # <<>> <=> Len(s \o t) # 0)
      OBVIOUS
    <3> QED
      BY <3>1
  <2>5. /\ h \o d # <<>> <=> (h # <<>> \/ d # <<>>)
        /\ h \o d \o f # <<>> <=> (h \o d # <<>> \/ f # <<>>)
        /\ h \o d \o f \o w # <<>> <=> (h \o d \o f # <<>> \/ w # <<>>)
    BY <1>4, <2>3, <2>4, Zenon
  <2> QED
    BY <1>5, <1>8, <2>2, <2>3, <2>5, Zenon DEF DeviceWarns
<1> QED
  BY <1>6, <1>7, <1>8, Zenon DEF DeviceFails

\* The first event is an error if the first reason is, warnings stay
\* warnings, and only an empty list is reported as "returned to normal".
LEMMA EventsSay ==
  /\ \A reasons \in Seq(Named) :
       /\ reasons = <<>> => TopEvents(reasons) = <<"info">>
       /\ reasons # <<>> => /\ TopEvents(reasons) # <<"info">>
                            /\ 1 \in DOMAIN TopEvents(reasons)
                            /\ TopEvents(reasons)[1] = EventSeverity(reasons[1])
  /\ \A reasons \in Seq(Warnings) : \A i \in DOMAIN TopEvents(reasons) :
       TopEvents(reasons)[i] \in {"info", "warning"}
<1>1. \A r : EventSeverity(r) # "info"
  BY DEF EventSeverity
<1>2. \A r \in Warnings : EventSeverity(r) = "warning"
  BY DEF EventSeverity, Warnings
<1>3. ASSUME NEW S, NEW reasons \in Seq(S), reasons # <<>>
      PROVE \E n \in 1..5 : /\ n <= Len(reasons)
                            /\ TopEvents(reasons) = [i \in 1..n |-> EventSeverity(reasons[i])]
  <2>1. Len(reasons) \in Nat \ {0}
    BY <1>3, EmptySeq, Zenon
  <2>2. \A k \in Nat \ {0} : Least(5, k) \in 1..5 /\ Least(5, k) <= k
    BY DEF Least
  <2>3. TopEvents(reasons) = [i \in 1..Least(5, Len(reasons)) |-> EventSeverity(reasons[i])]
    BY <1>3, Zenon DEF TopEvents
  <2> QED
    BY <2>1, <2>2, <2>3, Zenon
<1>4. ASSUME NEW reasons \in Seq(Named), reasons # <<>>
      PROVE /\ TopEvents(reasons) # <<"info">>
            /\ 1 \in DOMAIN TopEvents(reasons)
            /\ TopEvents(reasons)[1] = EventSeverity(reasons[1])
  <2>1. PICK n \in 1..5 : TopEvents(reasons) = [i \in 1..n |-> EventSeverity(reasons[i])]
    BY <1>3, <1>4, Zenon
  <2>2. 1 \in 1..n
    OBVIOUS
  <2>3. DOMAIN TopEvents(reasons) = 1..n /\ TopEvents(reasons)[1] = EventSeverity(reasons[1])
    BY <2>1, <2>2, Zenon
  <2>4. <<"info">>[1] = "info"
    OBVIOUS
  <2>5. TopEvents(reasons) # <<"info">>
    BY <1>1, <2>3, <2>4, Zenon
  <2> QED
    BY <2>2, <2>3, <2>5, Zenon
<1>5. ASSUME NEW reasons \in Seq(Warnings), NEW i \in DOMAIN TopEvents(reasons)
      PROVE TopEvents(reasons)[i] \in {"info", "warning"}
  <2>1. CASE reasons = <<>>
    <3>1. TopEvents(reasons) = <<"info">>
      BY <2>1, Zenon DEF TopEvents
    <3>2. \A k \in DOMAIN <<"info">> : <<"info">>[k] = "info"
      OBVIOUS
    <3> QED
      BY <3>1, <3>2, Zenon
  <2>2. CASE reasons # <<>>
    <3>1. PICK n \in 1..5 : /\ n <= Len(reasons)
                            /\ TopEvents(reasons) = [k \in 1..n |-> EventSeverity(reasons[k])]
      BY <1>3, <2>2, Zenon
    <3>2. i \in 1..n /\ TopEvents(reasons)[i] = EventSeverity(reasons[i])
      BY <3>1, Zenon
    <3>3. reasons[i] \in Warnings
      <4>1. Len(reasons) \in Nat
        OBVIOUS
      <4>2. i \in 1..Len(reasons)
        BY <3>1, <3>2, <4>1
      <4> QED
        BY <4>2
    <3> QED
      BY <1>2, <3>2, <3>3, Zenon
  <2> QED
    BY <2>1, <2>2
<1> QED
  BY <1>4, <1>5, Zenon DEF TopEvents

\* Nothing found on a device in contact: full score.
LEMMA NothingFound ==
  ASSUME NEW dev, InContact(dev), ~DeviceFails(dev), ~DeviceWarns(dev)
  PROVE DeviceScore(dev) = 100
<1>1. /\ BadItems(dev) = {} /\ DownPorts(dev) = {} /\ WeakPorts(dev) = {}
      /\ ~IsCritical(dev) /\ ~IsWarm(dev) /\ ~IsFlapping(dev)
  BY Zenon DEF DeviceFails, DeviceWarns
<1>2. Cardinality({}) = 0
  BY FS_EmptySet
<1>3. /\ Cost(IsCritical(dev), 35) = 0 /\ Cost(IsWarm(dev), 15) = 0
      /\ Cost(IsFlapping(dev), 15) = 0
  BY <1>1, Zenon DEF Cost
<1>4. Raw(dev) = 100 - 40 * 0 - 0 - 0 - Least(5 * 0, 25) - 0 - Least(5 * 0, 20)
  BY <1>1, <1>2, <1>3, Zenon DEF Raw, DeviceRaw
<1>5. Raw(dev) = 100
  BY <1>4 DEF Least
<1>6. Clamp(100) = 100
  BY DEF Clamp, Least
<1> QED
  BY <1>5, <1>6, ScoreIs, Zenon

\* The events of a device name the cause of its status.
LEMMA DeviceCause ==
  ASSUME NEW dev, DeviceMessage(dev) # NoMessage
  PROVE LET m == DeviceMessage(dev) IN
          /\ m.status = "unhealthy" <=> \E i \in DOMAIN m.events : m.events[i] \in {"crit", "err"}
          /\ m.status = "healthy" <=> m.events = <<"info">>
<1> DEFINE m == DeviceMessage(dev)
           reasons == DeviceReasons(dev)
<1>1. m.status = DeviceStatus(dev) /\ m.events = TopEvents(reasons)
  <2>1. m = [id |-> DeviceIdFor(dev), status |-> DeviceStatus(dev), score |-> DeviceScore(dev),
             reasons |-> FirstOf(10, reasons), events |-> TopEvents(reasons)]
    BY Zenon DEF DeviceMessage
  <2> HIDE DEF m
  <2> QED
    BY <2>1
<1> HIDE DEF m
<1>2. reasons \in Seq(Named)
  BY ReasonsAreSeq, Zenon
<1>3. <<"info">>[1] = "info" /\ \A i \in DOMAIN <<"info">> : <<"info">>[i] = "info"
  OBVIOUS
<1>4. EventSeverity("lost_contact") = "crit" /\ EventSeverity("hardware_fault") = "err"
      /\ EventSeverity("thermal_critical") = "err"
  BY DEF EventSeverity
<1>5. CASE ~InContact(dev) \/ DeviceFails(dev)
  <2>1. m.status = "unhealthy" /\ m.status # "healthy"
    BY <1>1, <1>5, StatusIs
  <2>2. reasons # <<>> /\ reasons[1] \in {"lost_contact", "hardware_fault", "thermal_critical"}
    <3>1. CASE ~InContact(dev)
      <4>1. reasons = <<"lost_contact">>
        BY <3>1, Zenon DEF DeviceReasons
      <4> HIDE DEF reasons
      <4> QED
        BY <4>1
    <3>2. CASE InContact(dev)
      BY <1>5, <3>2, FirstReason, Zenon
    <3> QED
      BY <3>1, <3>2
  <2> HIDE DEF reasons
  <2>3. /\ m.events # <<"info">> /\ 1 \in DOMAIN m.events
        /\ m.events[1] \in {"crit", "err"}
    BY <1>1, <1>2, <1>4, <2>2, EventsSay, Zenon
  <2> QED
    BY <2>1, <2>3, Zenon DEF m
<1>6. CASE InContact(dev) /\ ~DeviceFails(dev)
  <2>1. reasons \in Seq(Warnings) /\ (reasons # <<>> <=> DeviceWarns(dev))
    BY <1>6, FirstReason, Zenon
  <2>2. \A i \in DOMAIN m.events : m.events[i] \in {"info", "warning"}
    BY <1>1, <2>1, EventsSay, Zenon
  <2>3. \A i \in DOMAIN m.events : m.events[i] \notin {"crit", "err"}
    BY <2>2
  <2>4. m.status # "unhealthy"
    BY <1>1, <1>6, StatusIs
  <2>5. m.status = "healthy" <=> m.events = <<"info">>
    <3>1. CASE DeviceWarns(dev)
      <4>1. m.status # "healthy"
        BY <1>1, <1>6, <3>1, StatusIs
      <4>2. m.events # <<"info">>
        BY <1>1, <1>2, <2>1, <3>1, EventsSay, Zenon
      <4> QED
        BY <4>1, <4>2
    <3>2. CASE ~DeviceWarns(dev)
      <4>1. DeviceScore(dev) = 100
        BY <1>6, <3>2, NothingFound, Zenon
      <4>2. m.status = "healthy"
        BY <1>1, <1>6, <3>2, <4>1, StatusIs
      <4>3. m.events = <<"info">>
        BY <1>1, <1>2, <2>1, <3>2, EventsSay, Zenon
      <4> QED
        BY <4>2, <4>3
    <3> QED
      BY <3>1, <3>2
  <2> QED
    BY <2>3, <2>4, <2>5, Zenon DEF m
<1> QED
  BY <1>5, <1>6

\* There is a reason exactly if something is found on the platform.
LEMMA PlatformReasonsIff ==
  ASSUME NEW p PROVE PlatformReasons(p) = <<>> <=> ~PlatformFails(p) /\ ~PlatformWarns(p)
<1> DEFINE l == Because(Positive(p.lost), "optical_edge_out_of_contact")
           r == Because(Positive(p.rebooted), "optical_edge_rebooted_24h")
           f == Because(Full(p), "platform_disk_low")
           o == Because(IsOdd(p), "bufferwatch")
           e == Because(p.expired, "license_expired")
           m == Because(p.missing, "license_file_missing")
           i == Because(IsInvalid(p), "license_invalid")
           s == Because(RunsOut(p), "license_expires")
           k == Because(p.problems > 0, "active_problems")
<1>1. PlatformReasons(p) = l \o r \o f \o o \o e \o m \o i \o s \o k
  BY Zenon DEF PlatformReasons
<1>2. \A reason : <<>> \in Seq(STRING) /\ <<reason>> # <<>>
  OBVIOUS
<1>3. /\ l = <<>> <=> ~Positive(p.lost)
      /\ r = <<>> <=> ~Positive(p.rebooted)
      /\ f = <<>> <=> ~Full(p)
      /\ o = <<>> <=> ~IsOdd(p)
      /\ e = <<>> <=> ~p.expired
      /\ m = <<>> <=> ~p.missing
      /\ i = <<>> <=> ~IsInvalid(p)
      /\ s = <<>> <=> ~RunsOut(p)
      /\ k = <<>> <=> ~(p.problems > 0)
  BY <1>2, Zenon DEF Because
<1>4. /\ l \in Seq(Named) /\ r \in Seq(Named) /\ f \in Seq(Named) /\ o \in Seq(Named)
      /\ e \in Seq(Named) /\ m \in Seq(Named) /\ i \in Seq(Named) /\ s \in Seq(Named)
      /\ k \in Seq(Named)
  <2>1. ASSUME NEW found, NEW reason \in Named PROVE Because(found, reason) \in Seq(Named)
    <3>1. <<>> \in Seq(Named) /\ <<reason>> \in Seq(Named)
      OBVIOUS
    <3> QED
      BY <3>1, Zenon DEF Because
  <2> QED
    BY <2>1, Zenon DEF Named
<1>5. ASSUME NEW x \in Seq(Named), NEW y \in Seq(Named)
      PROVE x \o y \in Seq(Named) /\ (x \o y = <<>> <=> (x = <<>> /\ y = <<>>))
  <2>1. /\ Len(x \o y) = Len(x) + Len(y) /\ Len(x) \in Nat /\ Len(y) \in Nat
        /\ (x = <<>> <=> Len(x) = 0) /\ (y = <<>> <=> Len(y) = 0)
        /\ (x \o y = <<>> <=> Len(x \o y) = 0) /\ x \o y \in Seq(Named)
    OBVIOUS
  <2> QED
    BY <2>1
<1> HIDE DEF l, r, f, o, e, m, i, s, k
<1> DEFINE None(q) == q = <<>>
<1> HIDE DEF None
<1>6. ASSUME NEW x \in Seq(Named), NEW y \in Seq(Named)
      PROVE x \o y \in Seq(Named) /\ (None(x \o y) <=> (None(x) /\ None(y)))
  BY <1>5, Zenon DEF None
<1>7. ASSUME NEW x \in Seq(Named), NEW y \in Seq(Named), NEW z \in Seq(Named)
      PROVE /\ x \o y \o z \in Seq(Named)
            /\ None(x \o y \o z) <=> (None(x) /\ None(y) /\ None(z))
  BY <1>6, Zenon
<1> DEFINE first == l \o r \o f
           second == first \o o \o e
           third == second \o m \o i
<1>8. PlatformReasons(p) = third \o s \o k
  BY <1>1
<1> HIDE DEF first, second, third
<1>9. first \in Seq(Named) /\ (None(first) <=> (None(l) /\ None(r) /\ None(f)))
  <2>1. l \in Seq(Named) /\ r \in Seq(Named) /\ f \in Seq(Named)
    BY <1>4
  <2> QED
    BY <1>7, <2>1, Zenon DEF first
<1>10. second \in Seq(Named) /\ (None(second) <=> (None(first) /\ None(o) /\ None(e)))
  <2>1. first \in Seq(Named) /\ o \in Seq(Named) /\ e \in Seq(Named)
    BY <1>4, <1>9
  <2> QED
    BY <1>7, <2>1, Zenon DEF second
<1>11. third \in Seq(Named) /\ (None(third) <=> (None(second) /\ None(m) /\ None(i)))
  <2>1. second \in Seq(Named) /\ m \in Seq(Named) /\ i \in Seq(Named)
    BY <1>4, <1>10
  <2> QED
    BY <1>7, <2>1, Zenon DEF third
<1>12. None(PlatformReasons(p)) <=> (None(third) /\ None(s) /\ None(k))
  <2>1. third \in Seq(Named) /\ s \in Seq(Named) /\ k \in Seq(Named)
    BY <1>4, <1>11
  <2>2. None(third \o s \o k) <=> (None(third) /\ None(s) /\ None(k))
    BY <1>7, <2>1, Zenon
  <2> QED
    BY <1>8, <2>2, Zenon
<1>13. None(PlatformReasons(p))
         <=> /\ None(l) /\ None(r) /\ None(f) /\ None(o) /\ None(e) /\ None(m)
             /\ None(i) /\ None(s) /\ None(k)
  BY <1>9, <1>10, <1>11, <1>12, Zenon
<1> QED
  BY <1>3, <1>13, Zenon DEF PlatformFails, PlatformWarns, None

\* Nothing found on the platform: full score, and so healthy.
LEMMA NothingFoundOnPlatform ==
  ASSUME NEW p \in PlatformRecord, ~PlatformFails(p), ~PlatformWarns(p)
  PROVE PlatformStatus(p) = "healthy"
<1>1. /\ ~Positive(p.lost) /\ ~Positive(p.rebooted) /\ ~Full(p) /\ ~IsOdd(p) /\ ~p.expired
      /\ ~p.missing /\ ~IsInvalid(p) /\ ~RunsOut(p) /\ ~(p.problems > 0)
  BY Zenon DEF PlatformFails, PlatformWarns
<1>2. p.problems = 0
  BY <1>1, PlatformFields
<1>3. /\ LostPoints(p) = 0 /\ Cost(Positive(p.rebooted), 5) = 0 /\ Cost(Full(p), 20) = 0
      /\ Cost(IsOdd(p), 15) = 0 /\ Cost(p.expired, 50) = 0 /\ Cost(p.missing, 30) = 0
      /\ Cost(IsInvalid(p), 20) = 0 /\ Cost(RunsOut(p), 10) = 0
  BY <1>1, Zenon DEF Cost, LostPoints
<1>4. RawOf(p) = 100 - 0 - 0 - 0 - 0 - 0 - 0 - 0 - 0 - Least(10 * 0, 40)
  BY <1>2, <1>3, Zenon DEF RawOf, PlatformRaw
<1>5. RawOf(p) = 100
  BY <1>4 DEF Least
<1>6. Clamp(100) = 100 /\ ~(100 < 85)
  BY DEF Clamp, Least
<1> QED
  BY <1>5, <1>6, PlatformScoreIs, PlatformStatusIs, Zenon

\* The events of the platform name its problems, and are silent only if it is
\* healthy.
LEMMA PlatformCause ==
  ASSUME NEW p \in PlatformRecord
  PROVE LET m == PlatformMessage(p) IN
          /\ m.status = "healthy" <=> m.events = <<"info">>
          /\ p.problems > 0 <=> \E i \in DOMAIN m.events : m.events[i] = "err"
<1> DEFINE m == PlatformMessage(p)
           named == Least(p.problems, 5)
           warned == Least(Len(PlatformReasons(p)), 5 - named)
           list == [i \in 1..(named + warned) |-> IF i <= named THEN "err" ELSE "warning"]
<1>1. m.status = PlatformStatus(p) /\ m.events = PlatformEvents(p)
  BY DEF PlatformMessage
<1> HIDE DEF m
<1>2. named \in 0..5 /\ p.problems \in Nat /\ (named = 0 <=> p.problems = 0)
  BY PlatformFields DEF Least
<1>3. Len(PlatformReasons(p)) \in Nat /\ (Len(PlatformReasons(p)) = 0 <=> PlatformReasons(p) = <<>>)
  BY ReasonsAreSeq
<1>4. PlatformEvents(p) = IF named + warned = 0 THEN <<"info">> ELSE list
  BY Zenon DEF PlatformEvents
<1> HIDE DEF named
<1>5. warned \in Nat /\ (named = 0 => (warned = 0 <=> PlatformReasons(p) = <<>>))
  BY <1>2, <1>3 DEF Least
<1> HIDE DEF warned
<1>6. \A i \in 1..(named + warned) : list[i] = IF i <= named THEN "err" ELSE "warning"
  OBVIOUS
<1>7. DOMAIN list = 1..(named + warned)
  OBVIOUS
<1> HIDE DEF list
<1>8. <<"info">>[1] = "info" /\ \A i \in DOMAIN <<"info">> : <<"info">>[i] # "err"
  OBVIOUS
<1>9. named + warned = 0 <=> ~PlatformFails(p) /\ ~PlatformWarns(p)
  <2>1. named + warned = 0 <=> (p.problems = 0 /\ PlatformReasons(p) = <<>>)
    BY <1>2, <1>5
  <2>2. PlatformReasons(p) = <<>> => p.problems = 0
    <3>1. PlatformReasons(p) = <<>> => ~(p.problems > 0)
      BY PlatformReasonsIff, Zenon DEF PlatformWarns
    <3> QED
      BY <1>2, <3>1
  <2> QED
    BY <2>1, <2>2, PlatformReasonsIff, Zenon
<1>10. CASE named + warned = 0
  <2>1. m.events = <<"info">>
    BY <1>1, <1>4, <1>10, Zenon
  <2>2. m.status = "healthy"
    BY <1>1, <1>9, <1>10, NothingFoundOnPlatform, Zenon
  <2>3. ~(p.problems > 0)
    BY <1>2, <1>5, <1>10
  <2> QED
    BY <1>8, <2>1, <2>2, <2>3, Zenon DEF m
<1>11. CASE named + warned # 0
  <2>1. m.events = list
    BY <1>1, <1>4, <1>11, Zenon
  <2>2. 1 \in 1..(named + warned)
    BY <1>2, <1>5, <1>11
  <2>3. list[1] # "info"
    BY <1>6, <2>2, Zenon
  <2>4. m.events # <<"info">>
    BY <1>8, <2>1, <2>3, Zenon
  <2>5. m.status # "healthy"
    BY <1>1, <1>9, <1>11, PlatformStatusIs
  <2>6. CASE p.problems > 0
    <3>1. 1 <= named
      BY <1>2, <2>6
    <3>2. list[1] = "err"
      BY <1>6, <2>2, <3>1, Zenon
    <3> QED
      BY <1>7, <2>1, <2>2, <2>4, <2>5, <2>6, <3>2, Zenon DEF m
  <2>7. CASE ~(p.problems > 0)
    <3>1. named = 0
      BY <1>2, <2>7
    <3>2. \A i \in 1..(named + warned) : ~(i <= named)
      BY <1>5, <3>1
    <3>3. \A i \in DOMAIN m.events : m.events[i] # "err"
      BY <1>6, <1>7, <2>1, <3>2, Zenon
    <3> QED
      BY <2>4, <2>5, <2>7, <3>3, Zenon DEF m
  <2> QED
    BY <2>6, <2>7
<1> QED
  BY <1>10, <1>11

\* The events that are sent with a message, five at most, name the cause of
\* its status.
THEOREM CauseAlwaysNamed == MapperSpec => []CauseIsNamed
<1>1. MapperInit => Records
  BY DEF MapperInit, Records
<1>2. Records => CauseIsNamed
  BY DeviceCause, PlatformCause, Zenon DEF Records, CauseIsNamed
<1> QED
  BY <1>1, <1>2, RecordsStay, PTL DEF MapperSpec

\* More trouble never looks better: when a record has become worse, neither
\* the status nor the score that _assess_device and status_to_message give it
\* rises.
THEOREM WorseNeverLooksBetter == MapperSpec => WorseLooksWorse
<1>1. MapperInit => Records
  BY DEF MapperInit, Records
<1>2. Records /\ Records' /\ [MapperNext]_mapperVars =>
        [/\ device' # device /\ DeviceNotBetter(device, device') =>
            /\ Rank(DeviceStatus(device')) <= Rank(DeviceStatus(device))
            /\ DeviceScore(device') <= DeviceScore(device)
         /\ platform' # platform /\ PlatformNotBetter(platform, platform') =>
            /\ Rank(PlatformStatus(platform')) <= Rank(PlatformStatus(platform))
            /\ PlatformScore(platform') <= PlatformScore(platform)]_mapperVars
  BY WorseDevice, WorsePlatform, Zenon DEF Records
<1> QED
  BY <1>1, <1>2, RecordsStay, PTL DEF MapperSpec, WorseLooksWorse
=============================================================================
