-------------------------- MODULE MCRelayAndEstate --------------------------
(* The outbox relay, the estate views and the assessment of the SD-LAN     *)
(* poller for TLC, side by side in one run: which one moves is chosen in   *)
(* the initial state, and the others rest.                                 *)
EXTENDS OutboxRelay, EstateView, PollMapper, TLC

MCSites == <<"A", "B">>
\* Names that the database and Python put in different order.
MCNameRank == [site \in {"A", "B"} |-> IF site = "A" THEN 2 ELSE 1]
MCSiteOf == [x \in SiteDevices \cup EdgeBoxes |-> "A"]
MCReports == {[status |-> "healthy", score |-> 95], [status |-> "unhealthy", score |-> 60],
              [status |-> "unknown", score |-> NoScore]}
MCInterval == [b \in EdgeBoxes |-> IF b = "e1" THEN 1 ELSE 2]

Port(isDown, ago, level, isCopper) ==
    [down |-> isDown, changed |-> ago, rx |-> level, copper |-> isCopper]
MCPortRecords == {Port(FALSE, Unread, Unread, TRUE), Port(TRUE, 60, -30, TRUE),
                  Port(TRUE, 60, -30, FALSE), Port(TRUE, 5000, -10, FALSE)}
MCIdentities == {{}, {"hw_sn", "hw_hostname"}}
MCAges == {-5, 100, 10000000}
MCRxWarn == -20

VARIABLE part

-----------------------------------------------------------------------------
EstateAtRest ==
    /\ deviceHealth = [d \in SiteDevices |-> NotThere]
    /\ openAlerts = {} /\ lag = [b \in EdgeBoxes |-> NotThere]
    /\ EstateInit

\* d1 and e1 have reported; d2 and e2 may still do so for the first time.  d1
\* gets over its problem in the first commit, if at all.
EstateInUse ==
    /\ EstateInit
    /\ lag["e1"] # NotThere
    /\ deviceHealth["d1"] # NotThere /\ deviceHealth["d1"].status = "unhealthy"

\* One request is enough: the next would find such a database again.
Answered == part = "estate" /\ response # NotThere /\ UNCHANGED <<part, estateVars>>

DeviceAtRest ==
    device = [named |-> {}, lost |-> FALSE, off |-> FALSE, temps |-> {},
              hw |-> [n \in HwItems |-> "true"],
              ports |-> [p \in Ports |-> Port(FALSE, Unread, Unread, TRUE)]]

PlatformAtRest ==
    platform = [lost |-> Unread, rebooted |-> Unread, free |-> Unread, buffer |-> "",
                expired |-> FALSE, missing |-> FALSE, invalid |-> FALSE,
                left |-> Unread, problems |-> 0]

MCInit ==
    /\ Init
    /\ \/ part = "relay" /\ EstateAtRest /\ DeviceAtRest /\ PlatformAtRest
       \/ part = "estate" /\ EstateInUse /\ DeviceAtRest /\ PlatformAtRest
       \/ part = "device" /\ EstateAtRest /\ device \in DeviceRecord /\ PlatformAtRest
       \/ part = "platform" /\ EstateAtRest /\ DeviceAtRest /\ platform \in PlatformRecord

OthersThanRelay == <<part, estateVars, mapperVars>>

MCNext ==
    \/ part = "relay" /\ Next /\ UNCHANGED OthersThanRelay
    \/ /\ (part = "estate" /\ response = NotThere /\ EstateNext) \/ Answered
       /\ UNCHANGED <<part, vars, mapperVars>>
    \/ part = "device" /\ PollDevice /\ UNCHANGED <<part, vars, estateVars>>
    \/ part = "platform" /\ PollPlatform /\ UNCHANGED <<part, vars, estateVars>>

mcVars == <<OthersThanRelay, vars>>

MCSpec ==
    /\ MCInit /\ [][MCNext]_mcVars
    /\ \A p \in Pollers : WF_vars(part = "relay" /\ Work(p))
=============================================================================
