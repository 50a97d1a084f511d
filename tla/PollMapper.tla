----------------------------- MODULE PollMapper -----------------------------
(***************************************************************************)
(* What the SD-LAN poller makes of the platform's answers: the record of   *)
(* each device, and the status of the platform itself, are assessed and    *)
(* become messages for the backend.  The records change from poll to poll, *)
(* here in one respect at a time; PollCycle decides what is sent when.     *)
(***************************************************************************)
EXTENDS Integers, Sequences, FiniteSets

CONSTANTS
    HwItems,        \* PSU and fan attributes of a device
    HwSeen,         \* values they have
    Ports,          \* entries of its connections
    PortRecords,    \* what may be said of a port
    Readings,       \* temperatures, in degrees
    Identities,     \* the identifying fields that are filled in
    Counts,         \* counts the platform reports
    Shares,         \* percentages of free space
    Ages,           \* seconds until the licence ends
    TempWarn, TempCrit, FlapWindow, FlapMin, RxWarn, FreeWarn,   \* thresholds
    ExpiryWindow,   \* 30 days
    Unread,         \* no value, or none that _num can read
    NoMessage

HwValues == {"null", "true", "false", "empty", "a good word", "a bad word",
             "text with a bad word", "other text"}
PortRecordType == [down : BOOLEAN, changed : Int \cup {Unread},
                   rx : Int \cup {Unread}, copper : BOOLEAN]
IdFields == <<"dev_id", "hw_sn", "hw_ident", "endpoint_name", "hw_hostname">>
Buffers == {"", "normal", "starting", "other"}

ASSUME RecordsAssumption == HwSeen \subseteq HwValues /\ PortRecords \subseteq PortRecordType
ASSUME FiniteAssumption == IsFiniteSet(HwItems) /\ IsFiniteSet(Ports)
ASSUME NumbersAssumption ==
    Readings \cup Ages \subseteq Int /\ Counts \cup Shares \subseteq Nat /\ Unread \notin Int
ASSUME ThresholdsAssumption ==
    {TempWarn, TempCrit, FlapWindow, FlapMin, RxWarn, FreeWarn, ExpiryWindow} \subseteq Int
    /\ TempWarn <= TempCrit

DeviceRecord ==
    [named : Identities, lost : BOOLEAN, off : BOOLEAN, hw : [HwItems -> HwSeen],
     temps : SUBSET Readings, ports : [Ports -> PortRecords]]
PlatformRecord ==
    [lost : Counts \cup {Unread}, rebooted : Counts \cup {Unread},
     free : Shares \cup {Unread}, buffer : Buffers, expired : BOOLEAN,
     missing : BOOLEAN, invalid : BOOLEAN, left : Ages \cup {Unread}, problems : Counts]

VARIABLES
    device,         \* the record of a device in the last poll
    platform        \* the status response and the list of problems

mapperVars == <<device, platform>>

-----------------------------------------------------------------------------
(* Helpers of the assessment.                                              *)

Least(a, b) == IF a <= b THEN a ELSE b

\* Mutant of Clamp: only the upper bound.
ClampAbove(score) == Least(score, 100)

Clamp(score) == IF score < 0 THEN 0 ELSE Least(score, 100)

Rank(status) == IF status = "unhealthy" THEN 0 ELSE IF status = "degraded" THEN 1
                ELSE IF status = "healthy" THEN 2 ELSE 3

Worst(a, b) == IF Rank(a) <= Rank(b) THEN a ELSE b

\* The status after one more test.
With(status, found, finding) == IF found THEN Worst(status, finding) ELSE status

Cost(found, points) == IF found THEN points ELSE 0
Because(found, reason) == IF found THEN <<reason>> ELSE <<>>

FirstOf(n, seq) == SubSeq(seq, 1, Least(n, Len(seq)))

HwState(v) ==
    IF v \in {"true", "a good word"} THEN "ok"
    ELSE IF v \in {"false", "a bad word", "text with a bad word"} THEN "bad"
    ELSE "unknown"

-----------------------------------------------------------------------------
(* Devices.                                                                *)

InContact(dev) == ~dev.lost /\ ~dev.off

BadItems(dev) == {n \in HwItems : HwState(dev.hw[n]) = "bad"}
IsCritical(dev) == \E t \in dev.temps : t >= TempCrit
IsWarm(dev) == ~IsCritical(dev) /\ \E t \in dev.temps : t >= TempWarn
DownPorts(dev) == {p \in Ports : dev.ports[p].down}

\* Mutant of FlappingPorts: the comparison with the window is inverted.
FlappingPortsOld(dev) == {p \in Ports : LET age == dev.ports[p].changed IN
                                        age # Unread /\ 0 < age /\ age > FlapWindow}

FlappingPorts(dev) == {p \in Ports : LET age == dev.ports[p].changed IN
                                     age # Unread /\ 0 < age /\ age < FlapWindow}
IsFlapping(dev) == Cardinality(FlappingPorts(dev)) >= FlapMin
WeakPorts(dev) == {p \in Ports : LET rx == dev.ports[p].rx IN
                                 rx # Unread /\ rx < RxWarn /\ ~dev.ports[p].copper}

Hardware(dev) == With("healthy", BadItems(dev) # {}, "unhealthy")
Thermal(dev) == With(With(Hardware(dev), IsCritical(dev), "unhealthy"), IsWarm(dev), "degraded")
Down(dev) == With(Thermal(dev), DownPorts(dev) # {}, "degraded")
Flap(dev) == With(Down(dev), IsFlapping(dev), "degraded")
Optics(dev) == With(Flap(dev), WeakPorts(dev) # {}, "degraded")

DeviceScore(dev) ==
    IF ~InContact(dev) THEN 0
    ELSE Clamp(100 - 40 * Cardinality(BadItems(dev))
               - Cost(IsCritical(dev), 35) - Cost(IsWarm(dev), 15)
               - Least(5 * Cardinality(DownPorts(dev)), 25) - Cost(IsFlapping(dev), 15)
               - Least(5 * Cardinality(WeakPorts(dev)), 20))

DeviceStatus(dev) ==
    IF ~InContact(dev) THEN "unhealthy"
    ELSE IF Optics(dev) = "healthy" /\ DeviceScore(dev) < 85 THEN "degraded"
    ELSE Optics(dev)

DeviceReasons(dev) ==
    IF ~InContact(dev) THEN <<"lost_contact">>
    ELSE [i \in 1..Cardinality(BadItems(dev)) |-> "hardware_fault"]
         \o Because(IsCritical(dev), "thermal_critical")
         \o Because(IsWarm(dev), "thermal_warning")
         \o Because(DownPorts(dev) # {}, "ports_down")
         \o Because(IsFlapping(dev), "link_flap")
         \o Because(WeakPorts(dev) # {}, "optical_low")

\* Mutant of EventSeverity: hardware is reported like the ports.
EventSeveritySoft(reason) == IF reason = "lost_contact" THEN "crit" ELSE "warning"

EventSeverity(reason) ==
    IF reason = "lost_contact" THEN "crit"
    ELSE IF reason \in {"hardware_fault", "thermal_critical"} THEN "err"
    ELSE "warning"

\* Five events at most; one that says so if there is nothing to say.
TopEvents(reasons) ==
    IF reasons = <<>> THEN <<"info">>
    ELSE [i \in 1..Least(5, Len(reasons)) |-> EventSeverity(reasons[i])]

\* The configured field identifies the device, else the first that is filled in.
DeviceIdFor(dev) ==
    IdFields[CHOOSE i \in DOMAIN IdFields :
               IdFields[i] \in dev.named /\ \A j \in 1..(i - 1) : IdFields[j] \notin dev.named]

\* A device that nothing identifies is left out.
DeviceMessage(dev) ==
    IF dev.named = {} THEN NoMessage
    ELSE [id |-> DeviceIdFor(dev), status |-> DeviceStatus(dev), score |-> DeviceScore(dev),
          reasons |-> FirstOf(10, DeviceReasons(dev)),
          events |-> TopEvents(DeviceReasons(dev))]

-----------------------------------------------------------------------------
(* The platform.                                                           *)

Positive(n) == n # Unread /\ n > 0
Full(p) == p.free # Unread /\ p.free < FreeWarn
IsOdd(p) == p.buffer \notin {"", "normal", "starting"}
RunsOut(p) == p.left # Unread /\ 0 < p.left /\ p.left < ExpiryWindow

\* An invalid licence is not mentioned when the file is missing.
IsInvalid(p) == p.invalid /\ ~p.missing

PlatformFound(p) ==
    LET edge == With("healthy", Positive(p.lost) \/ Positive(p.rebooted), "degraded")
        self == With(With(edge, Full(p), "degraded"), IsOdd(p), "degraded")
        licence == With(With(self, p.expired, "unhealthy"), p.missing, "unhealthy")
        soon == With(With(licence, IsInvalid(p), "degraded"), RunsOut(p), "degraded")
    IN  With(soon, p.problems > 0, "degraded")

PlatformScore(p) ==
    Clamp(100 - (IF Positive(p.lost) THEN Least(5 * p.lost, 30) ELSE 0)
          - Cost(Positive(p.rebooted), 5) - Cost(Full(p), 20) - Cost(IsOdd(p), 15)
          - Cost(p.expired, 50) - Cost(p.missing, 30) - Cost(IsInvalid(p), 20)
          - Cost(RunsOut(p), 10) - Least(10 * p.problems, 40))

PlatformStatus(p) ==
    IF PlatformFound(p) = "healthy" /\ PlatformScore(p) < 85 THEN "degraded"
    ELSE PlatformFound(p)

PlatformReasons(p) ==
    Because(Positive(p.lost), "optical_edge_out_of_contact")
    \o Because(Positive(p.rebooted), "optical_edge_rebooted_24h")
    \o Because(Full(p), "platform_disk_low") \o Because(IsOdd(p), "bufferwatch")
    \o Because(p.expired, "license_expired") \o Because(p.missing, "license_file_missing")
    \o Because(IsInvalid(p), "license_invalid") \o Because(RunsOut(p), "license_expires")
    \o Because(p.problems > 0, "active_problems")

\* Problems come first, each with a name; what is left of five goes to reasons.
PlatformEvents(p) ==
    LET named == Least(p.problems, 5)
        warned == Least(Len(PlatformReasons(p)), 5 - named)
    IN  IF named + warned = 0 THEN <<"info">>
        ELSE [i \in 1..(named + warned) |-> IF i <= named THEN "err" ELSE "warning"]

PlatformMessage(p) ==
    [id |-> "platform", status |-> PlatformStatus(p), score |-> PlatformScore(p),
     reasons |-> FirstOf(10, PlatformReasons(p)), events |-> PlatformEvents(p)]

-----------------------------------------------------------------------------
\* The next poll finds a device changed in one respect.
PollDevice ==
    /\ \/ \E v \in Identities : device' = [device EXCEPT !.named = v]
       \/ \E v \in BOOLEAN : \/ device' = [device EXCEPT !.lost = v]
                             \/ device' = [device EXCEPT !.off = v]
       \/ \E n \in HwItems, v \in HwSeen : device' = [device EXCEPT !.hw[n] = v]
       \/ \E v \in SUBSET Readings : device' = [device EXCEPT !.temps = v]
       \/ \E p \in Ports, v \in PortRecords : device' = [device EXCEPT !.ports[p] = v]
    /\ UNCHANGED platform

PollPlatform ==
    /\ \/ \E v \in Counts \cup {Unread} : \/ platform' = [platform EXCEPT !.lost = v]
                                          \/ platform' = [platform EXCEPT !.rebooted = v]
       \/ \E v \in Shares \cup {Unread} : platform' = [platform EXCEPT !.free = v]
       \/ \E v \in Buffers : platform' = [platform EXCEPT !.buffer = v]
       \/ \E v \in BOOLEAN : \/ platform' = [platform EXCEPT !.expired = v]
                             \/ platform' = [platform EXCEPT !.missing = v]
                             \/ platform' = [platform EXCEPT !.invalid = v]
       \/ \E v \in Ages \cup {Unread} : platform' = [platform EXCEPT !.left = v]
       \/ \E v \in Counts : platform' = [platform EXCEPT !.problems = v]
    /\ UNCHANGED device

MapperInit == device \in DeviceRecord /\ platform \in PlatformRecord
MapperNext == PollDevice \/ PollPlatform
MapperSpec == MapperInit /\ [][MapperNext]_mapperVars

-----------------------------------------------------------------------------
(* Properties.                                                             *)

\* What the backend's schema demands of a message, or the whole batch is
\* refused: a known status and a score from 0 to 100.
IsAccepted(m) ==
    /\ m.status \in {"healthy", "degraded", "unhealthy"} /\ m.score \in 0..100
    /\ Len(m.reasons) <= 10 /\ Len(m.events) \in 1..5

MapperTypeOK ==
    /\ device \in DeviceRecord /\ platform \in PlatformRecord
    /\ DeviceMessage(device) # NoMessage => IsAccepted(DeviceMessage(device))
    /\ IsAccepted(PlatformMessage(platform))

\* b is in no respect better than a: nothing repaired, nothing cooler, no link
\* change longer ago, no signal stronger.
PortNotBetter(a, b) ==
    /\ a.down => b.down
    /\ a.changed # Unread /\ 0 < a.changed => b.changed # Unread /\ b.changed \in 1..a.changed
    /\ a.rx # Unread /\ ~a.copper => b.rx # Unread /\ b.rx <= a.rx /\ ~b.copper

DeviceNotBetter(a, b) ==
    /\ (a.lost => b.lost) /\ (a.off => b.off)
    /\ \A n \in HwItems : HwState(a.hw[n]) = "bad" => HwState(b.hw[n]) = "bad"
    /\ \A t \in a.temps : \E u \in b.temps : t <= u
    /\ \A p \in Ports : PortNotBetter(a.ports[p], b.ports[p])

PlatformNotBetter(a, b) ==
    /\ \A n \in {"lost", "rebooted"} : a[n] # Unread => b[n] # Unread /\ a[n] <= b[n]
    /\ a.free # Unread => b.free # Unread /\ b.free <= a.free
    /\ IsOdd(a) => IsOdd(b)
    /\ (a.expired => b.expired) /\ (a.missing => b.missing) /\ (a.invalid => b.invalid)
    /\ a.left # Unread /\ 0 < a.left => b.left # Unread /\ b.left \in 1..a.left
    /\ a.problems <= b.problems

\* More trouble never looks better: when a record has become worse, neither
\* the status nor the score it is given rises.
WorseLooksWorse ==
    [][/\ device' # device /\ DeviceNotBetter(device, device') =>
            /\ Rank(DeviceStatus(device')) <= Rank(DeviceStatus(device))
            /\ DeviceScore(device') <= DeviceScore(device)
       /\ platform' # platform /\ PlatformNotBetter(platform, platform') =>
            /\ Rank(PlatformStatus(platform')) <= Rank(PlatformStatus(platform))
            /\ PlatformScore(platform') <= PlatformScore(platform)]_mapperVars

\* The alert of a transition shows why: an unhealthy device has an error among
\* the five events that are sent, however many reasons there are, a degraded
\* one has warnings only, and only what is healthy is "returned to normal".
CauseIsNamed ==
    /\ LET m == DeviceMessage(device) IN
       m # NoMessage =>
         /\ m.status = "unhealthy" <=> \E i \in DOMAIN m.events : m.events[i] \in {"crit", "err"}
         /\ m.status = "healthy" <=> m.events = <<"info">>
    /\ LET m == PlatformMessage(platform) IN
         /\ m.status = "healthy" <=> m.events = <<"info">>
         /\ platform.problems > 0 <=> \E i \in DOMAIN m.events : m.events[i] = "err"
=============================================================================
