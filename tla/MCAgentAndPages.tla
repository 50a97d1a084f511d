-------------------------- MODULE MCAgentAndPages --------------------------
(* The syslog agent and the pages of alerts for TLC, side by side in one   *)
(* run: which one moves is chosen in the initial state, the other rests.   *)
EXTENDS SyslogAgent, AlertPages, TLC

\* One device, known under any address, and one message that counts as an
\* error; what is not parsed, not in the map or noise, leaves no trace.
MCDeviceMap == <<"*", "sw1">> :> "d1" @@ <<"10.0.0.9", "sw2">> :> "d1"
MCDatagram == [ip |-> "10.0.0.1", host |-> "sw1", parses |-> TRUE, pri |-> 131,
               category |-> "hardware", text |-> "power supply # fault"]
MCDatagrams == {MCDatagram, [MCDatagram EXCEPT !.parses = FALSE],
                [MCDatagram EXCEPT !.host = "sw2"], [MCDatagram EXCEPT !.pri = 135]}

VARIABLE part

-----------------------------------------------------------------------------
MCInit == SyslogInit /\ PagesInit /\ part \in {"agent", "pages", "details"}

\* Walks over alerts of two properties, whose details no page cares for ...
FirstDetails ==
    \A a \in AlertIds : alertState'[a] # "absent" =>
        /\ alertProperty'[a] = IF a = 2 THEN "p2" ELSE "p1"
        /\ detail'[a].correlation = "first"

\* ... and all that can become of two alerts and their details, without a walk.
TwoAlerts == walk' = "idle" /\ alertState'[3] = "absent"

mcVars == <<part, syslogVars, pageVars>>

MCNext ==
    \/ part = "agent" /\ SyslogNext /\ UNCHANGED <<part, pageVars>>
    \/ /\ PagesNext
       /\ (part = "pages" /\ FirstDetails) \/ (part = "details" /\ TwoAlerts)
       /\ UNCHANGED <<part, syslogVars>>

MCSpec ==
    /\ MCInit /\ [][MCNext]_mcVars
    /\ WF_syslogVars(part = "agent" /\ Periodic) /\ WF_syslogVars(part = "agent" /\ Uploader)
=============================================================================
