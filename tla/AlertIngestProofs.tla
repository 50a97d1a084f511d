------------------------- MODULE AlertIngestProofs -------------------------
(***************************************************************************)
(* What AlertIngest guarantees for any number of requests, devices, keys   *)
(* and messages per batch.  The inductive invariant says what a handler    *)
(* remembers between its statements and why that is still true when it     *)
(* commits: the lock on the device's row keeps other handlers away, and    *)
(* auto-fix, which takes no such lock, only moves an alert to "acting".    *)
(***************************************************************************)
EXTENDS AlertIngest, TLAPS

USE SentAssumption, BoundAssumption, RowAssumption, NoneAssumption, FixesAssumption

-----------------------------------------------------------------------------
(* Facts about the data.                                                   *)

\* A message that is handled names an alert of its own.
LEMMA IdIsAlertId ==
    ASSUME NEW r \in Requests, pos[r] \in 1..MaxBatch
    PROVE  Id(r) \in AlertId
BY DEF Id, AlertId, MsgId

\* The alert that a transition to a problem creates is well formed.
LEMMA OpenedIsAlert ==
    ASSUME NEW m \in Msg, m.kind = "transition", m.status # "healthy"
    PROVE  /\ Opened(m) \in Alert
           /\ Opened(m).device = m.row
           /\ Opened(m).kind = m.status
           /\ Opened(m).state = "opened"
           /\ Opened(m).resolved_at = FALSE
BY DEF Opened, Msg, Alert, Open, Problem, Status

\* Resolving an alert changes its state and stamps it, nothing else.
LEMMA ResolvedIsAlert ==
    ASSUME NEW al \in Alert
    PROVE  /\ Resolved(al) \in Alert
           /\ Resolved(al).device = al.device
           /\ Resolved(al).kind = al.kind
           /\ Resolved(al).state = "resolved"
           /\ Resolved(al).resolved_at = TRUE
           /\ Resolved(al).authorized = al.authorized
BY DEF Resolved, Alert

-----------------------------------------------------------------------------
(* The inductive invariant.                                                *)

\* What holds at each program point of a handler: the message is there while
\* it is handled, and what came before it in the batch is over.
Control ==
    \A r \in Requests :
        /\ pc[r] \in {"begin"} \cup InTx => msg[r] # None /\ pos[r] <= MaxBatch
        /\ pc[r] = "alerts" => msg[r].kind = "transition"
        /\ \A i \in rejected[r] : i < pos[r]

\* No two transactions have written the row of one device.
RowLock ==
    \A r, s \in Requests :
        pc[r] \in InTx /\ pc[s] \in InTx /\ r # s => msg[r].row # msg[s].row

\* Alerts and events bear the names of messages that are over.
Fresh ==
    \A r \in Requests, i \in 1..MaxBatch :
        /\ alerts[<<r, i>>] # None => i < pos[r]
        /\ \A row \in outbox : row.by = <<r, i>> => i < pos[r]

\* A resolved alert has its time stamp.
Stamped ==
    \A a \in AlertId :
        alerts[a] # None /\ alerts[a].state = "resolved" => alerts[a].resolved_at

\* What a handler found is still so when it commits: the alerts are open and
\* of its device, and there is no live alert that it has not found.
FoundBy(r) ==
    /\ \A a \in found[r] : IsOpen(a) /\ alerts[a].device = msg[r].row
    /\ msg[r].status = "healthy" =>
          \A a \in AlertId : IsLive(a) /\ alerts[a].device = msg[r].row
                             => a \in found[r]
    /\ msg[r].status # "healthy" =>
          /\ \A a \in found[r] : alerts[a].kind = msg[r].status
          /\ found[r] = {} =>
                \A a \in AlertId : IsLive(a) /\ alerts[a].device = msg[r].row
                                   => alerts[a].kind # msg[r].status

FoundHolds ==
    \A r \in Requests : pc[r] = "commit" /\ msg[r].kind = "transition" => FoundBy(r)

\* An auto-fix request knows its alert, and the alert exists when it acts.
FixKnows ==
    \A f \in Fixes :
        /\ fpc[f] \notin {"new"} => fix[f] # None
        /\ fpc[f] \in {"act"} => alerts[fix[f].alert] # None

IInv == TypeOK /\ Control /\ RowLock /\ Fresh /\ Stamped /\ FoundHolds /\ FixKnows

-----------------------------------------------------------------------------
(* Type correctness.                                                       *)

LEMMA InitType == Init => TypeOK
BY DEF Init, TypeOK, Status, AlertId, MsgId

\* The end of a transaction, committed or not.
LEMMA EndOfTxType ==
    ASSUME TypeOK, NEW r \in Requests, pos[r] <= MaxBatch, EndOfTx(r)
    PROVE  /\ pc' \in [Requests -> {"new", "next", "begin", "done", "dead"} \cup InTx]
           /\ pos' \in [Requests -> 1..(MaxBatch + 1)]
           /\ msg' \in [Requests -> Msg \cup {None}]
           /\ prior' \in [Requests -> Status]
           /\ found' \in [Requests -> SUBSET AlertId]
<1>1. prior' \in [Requests -> Status]
  BY DEF TypeOK, EndOfTx, Status
<1>2. QED
  BY <1>1 DEF TypeOK, EndOfTx

\* The events of a transaction are well formed rows, by its own message.
LEMMA EventsType ==
    ASSUME TypeOK, NEW r \in Requests, msg[r] # None, pos[r] <= MaxBatch
    PROVE  /\ Events(r) \subseteq OutboxRow
           /\ \A row \in Events(r) : row.by = Id(r)
<1>1. Id(r) \in AlertId /\ Id(r) \in MsgId
  BY IdIsAlertId DEF TypeOK, AlertId
<1>2. found[r] \subseteq AlertId
  BY DEF TypeOK
<1>3. ASSUME NEW e \in {"alert.opened", "alert.updated", "alert.state_changed",
                       "device.health_changed", "edge.heartbeat"},
             NEW a \in AlertId \cup {None}
      PROVE  Row(e, a, Id(r)) \in OutboxRow /\ Row(e, a, Id(r)).by = Id(r)
  BY <1>1 DEF Row, OutboxRow
<1>4. QED
  BY <1>1, <1>2, <1>3 DEF Events

\* Table alerts after a commit.
LEMMA AlertsAfterType ==
    ASSUME TypeOK, NEW r \in Requests, msg[r] # None, pos[r] <= MaxBatch,
           \A a \in found[r] : alerts[a] # None
    PROVE  AlertsAfter(r) \in [AlertId -> Alert \cup {None}]
<1>1. Id(r) \in AlertId
  BY IdIsAlertId DEF TypeOK
<1>2. msg[r] \in Msg
  BY DEF TypeOK
<1>3. CASE msg[r].kind # "transition"
  BY <1>3 DEF AlertsAfter, TypeOK
<1>4. CASE msg[r].kind = "transition" /\ msg[r].status = "healthy"
  <2>1. ASSUME NEW a \in AlertId
        PROVE  (IF a \in found[r] THEN Resolved(alerts[a]) ELSE alerts[a])
                  \in Alert \cup {None}
    <3>1. a \in found[r] => alerts[a] \in Alert
      BY DEF TypeOK
    <3>2. QED
      BY <3>1, ResolvedIsAlert DEF TypeOK
  <2>2. QED
    BY <1>4, <2>1 DEF AlertsAfter
<1>5. CASE msg[r].kind = "transition" /\ msg[r].status # "healthy"
  BY <1>1, <1>2, <1>5, OpenedIsAlert DEF AlertsAfter, TypeOK
<1>6. QED
  BY <1>3, <1>4, <1>5

\* What the committing transaction found exists.
LEMMA FoundExist ==
    ASSUME IInv, NEW r \in Requests, pc[r] = "commit", msg[r].kind = "transition"
    PROVE  \A a \in found[r] : a \in AlertId /\ alerts[a] # None
BY DEF IInv, TypeOK, FoundHolds, FoundBy, IsOpen

\* Table alerts when any message commits.
LEMMA CommitAlertsType ==
    ASSUME IInv, NEW r \in Requests, pc[r] = "commit"
    PROVE  AlertsAfter(r) \in [AlertId -> Alert \cup {None}]
<1>1. CASE msg[r].kind # "transition"
  BY <1>1 DEF AlertsAfter, IInv, TypeOK
<1>2. CASE msg[r].kind = "transition"
  <2>1. msg[r] # None /\ pos[r] <= MaxBatch
    BY DEF IInv, Control, InTx
  <2>2. QED
    BY <1>2, <2>1, FoundExist, AlertsAfterType DEF IInv
<1>3. QED
  BY <1>1, <1>2

\* Every step preserves the type invariant.
LEMMA TypeStep ==
    ASSUME IInv, [Next]_vars
    PROVE  TypeOK'
<1> USE DEF IInv, fixVars, ingestVars
<1>1. ASSUME NEW r \in Requests, TakeMessage(r) PROVE TypeOK'
  BY <1>1 DEF TypeOK, TakeMessage
<1>2. ASSUME NEW r \in Requests, TouchRow(r) PROVE TypeOK'
  <2>1. pc' \in [Requests -> {"new", "next", "begin", "done", "dead"} \cup InTx]
    BY <1>2 DEF TypeOK, TouchRow, InTx
  <2>2. prior' \in [Requests -> Status]
    BY <1>2 DEF TypeOK, TouchRow
  <2>3. QED
    BY <1>2, <2>1, <2>2 DEF TypeOK, TouchRow
<1>3. ASSUME NEW r \in Requests, ResolveAll(r) PROVE TypeOK'
  <2>1. OpenOn(msg[r].row) \in SUBSET AlertId
    BY DEF OpenOn
  <2>2. QED
    BY <1>3, <2>1 DEF TypeOK, ResolveAll, InTx
<1>4. ASSUME NEW r \in Requests, FindOpen(r) PROVE TypeOK'
  <2>1. found' \in [Requests -> SUBSET AlertId]
    BY <1>4 DEF TypeOK, FindOpen, OpenOfKind, OpenOn
  <2>2. QED
    BY <1>4, <2>1 DEF TypeOK, FindOpen, InTx
<1>5. ASSUME NEW r \in Requests, Commit(r) PROVE TypeOK'
  <2>1. msg[r] # None /\ pos[r] <= MaxBatch /\ msg[r] \in Msg
    BY <1>5 DEF Commit, Control, InTx, TypeOK
  <2>2. msg[r].status \in Status
    BY <2>1 DEF Msg, Status
  <2>3. status' \in [Devices -> Status]
    BY <1>5, <2>2 DEF Commit, TypeOK
  <2>4. lastTransition' \in [Devices -> Status \cup {None}]
    BY <1>5, <2>2 DEF Commit, TypeOK
  <2>5. outbox' \subseteq OutboxRow
    BY <1>5, <2>1, EventsType DEF Commit, TypeOK
  <2>6. alerts' \in [AlertId -> Alert \cup {None}]
    BY <1>5, CommitAlertsType DEF Commit
  <2>7. QED
    BY <1>5, <2>1, <2>3, <2>4, <2>5, <2>6, EndOfTxType DEF Commit, TypeOK
<1>6. ASSUME NEW r \in Requests, Reject(r) PROVE TypeOK'
  <2>1. pos[r] \in 1..MaxBatch
    BY <1>6 DEF Reject, Control, TypeOK
  <2>2. rejected' \in [Requests -> SUBSET (1..MaxBatch)]
    BY <1>6, <2>1 DEF Reject, TypeOK
  <2>3. QED
    BY <1>6, <2>1, <2>2, EndOfTxType DEF Reject, TypeOK
<1>7. ASSUME NEW r \in Requests, Respond(r) PROVE TypeOK'
  BY <1>7 DEF TypeOK, Respond
<1>8. ASSUME NEW r \in Requests, Crash(r) PROVE TypeOK'
  <2>1. prior' \in [Requests -> Status]
    BY <1>8 DEF TypeOK, Crash, Status
  <2>2. QED
    BY <1>8, <2>1 DEF TypeOK, Crash
<1>9. ASSUME NEW f \in Fixes, LookUp(f) PROVE TypeOK'
  BY <1>9 DEF TypeOK, LookUp
<1>10. ASSUME NEW f \in Fixes, GetAlert(f) PROVE TypeOK'
  BY <1>10 DEF TypeOK, GetAlert
<1>11. ASSUME NEW f \in Fixes, SetActing(f) PROVE TypeOK'
  <2>1. fix[f] \in [alert : AlertId, key : Keys]
    BY <1>11 DEF SetActing, FixKnows, TypeOK
  <2>2. alerts[fix[f].alert] \in Alert
    BY <1>11, <2>1 DEF SetActing, FixKnows, TypeOK
  <2>3. [alerts[fix[f].alert] EXCEPT !.state = "acting"] \in Alert
    BY <2>2 DEF Alert, Open
  <2>4. QED
    BY <1>11, <2>1, <2>3 DEF TypeOK, SetActing
<1>12. ASSUME NEW f \in Fixes, Dispatch(f) PROVE TypeOK'
  <2>1. fix[f].alert \in AlertId
    BY <1>12 DEF Dispatch, FixKnows, TypeOK
  <2>2. Row("auto_fix.dispatched", fix[f].alert, f) \in OutboxRow
    BY <2>1 DEF Row, OutboxRow
  <2>3. QED
    BY <1>12, <2>2 DEF TypeOK, Dispatch
<1>13. ASSUME NEW f \in Fixes, Remember(f) PROVE TypeOK'
  BY <1>13 DEF TypeOK, Remember
<1>14. ASSUME NEW f \in Fixes, CrashFix(f) PROVE TypeOK'
  BY <1>14 DEF TypeOK, CrashFix
<1>15. ASSUME NEW a \in AlertId, Authorize(a) PROVE TypeOK'
  <2>1. alerts[a] \in Alert
    BY <1>15 DEF TypeOK, Authorize, IsOpen
  <2>2. [alerts[a] EXCEPT !.authorized = TRUE] \in Alert
    BY <2>1 DEF Alert
  <2>3. QED
    BY <1>15, <2>2 DEF TypeOK, Authorize
<1>16. CASE UNCHANGED vars
  BY <1>16 DEF TypeOK, vars
<1>17. QED
  BY <1>1, <1>2, <1>3, <1>4, <1>5, <1>6, <1>7, <1>8, <1>9, <1>10, <1>11, <1>12,
     <1>13, <1>14, <1>15, <1>16 DEF Next, Ingest, AutoFix, AllEnded

-----------------------------------------------------------------------------
(* How the steps change the alerts.                                        *)

\* What every step but a commit leaves of an alert: at most its state moves
\* to "acting" and its authorisation is set.
Mild ==
    \A a \in AlertId :
        /\ alerts[a] = None <=> alerts'[a] = None
        /\ alerts[a] # None =>
              /\ alerts'[a].device = alerts[a].device
              /\ alerts'[a].kind = alerts[a].kind
              /\ alerts'[a].resolved_at = alerts[a].resolved_at
              /\ alerts'[a].state \in {alerts[a].state, "acting"}

LEMMA UnchangedIsMild == UNCHANGED alerts => Mild
BY DEF Mild

LEMMA SetActingIsMild ==
    ASSUME IInv, NEW f \in Fixes, SetActing(f)
    PROVE  Mild
<1>1. fix[f] \in [alert : AlertId, key : Keys] /\ alerts[fix[f].alert] \in Alert
  BY DEF SetActing, IInv, FixKnows, TypeOK
<1>2. [alerts[fix[f].alert] EXCEPT !.state = "acting"] # None
  BY <1>1 DEF Alert, Open
<1>3. QED
  BY <1>1, <1>2 DEF SetActing, Mild, IInv, TypeOK, Alert

LEMMA AuthorizeIsMild ==
    ASSUME IInv, NEW a \in AlertId, Authorize(a)
    PROVE  Mild
<1>1. alerts[a] \in Alert
  BY DEF Authorize, IsOpen, IInv, TypeOK
<1>2. [alerts[a] EXCEPT !.authorized = TRUE] # None
  BY <1>1 DEF Alert
<1>3. QED
  BY <1>1, <1>2 DEF Authorize, Mild, IInv, TypeOK, Alert

\* A mild step makes no alert live and closes none.
LEMMA MildKeeps ==
    ASSUME IInv, Mild, NEW a \in AlertId
    PROVE  /\ IsOpen(a) => IsOpen(a)'
           /\ IsLive(a)' => IsLive(a)
<1>1. CASE alerts[a] = None
  BY <1>1 DEF Mild, IsOpen, IsLive
<1>2. CASE alerts[a] # None
  <2>1. alerts[a] \in Alert
    BY <1>2 DEF IInv, TypeOK
  <2>2. QED
    BY <1>2, <2>1 DEF Mild, IsOpen, IsLive, Open, IInv, Stamped, Alert
<1>3. QED
  BY <1>1, <1>2

\* A commit resolves what it found, or opens the one alert named after its
\* message, or leaves the table alone.
LEMMA CommitAlerts ==
    ASSUME IInv, NEW r \in Requests, Commit(r), NEW a \in AlertId
    PROVE  \/ /\ msg[r].kind = "transition" /\ msg[r].status = "healthy"
              /\ a \in found[r] /\ alerts[a] \in Alert
              /\ alerts'[a] = Resolved(alerts[a])
           \/ /\ msg[r].kind = "transition" /\ msg[r].status # "healthy"
              /\ found[r] = {} /\ a = Id(r) /\ alerts[a] = None
              /\ alerts'[a] = Opened(msg[r])
           \/ /\ alerts'[a] = alerts[a]
              /\ msg[r].kind = "transition" /\ msg[r].status = "healthy"
                    => a \notin found[r]
              /\ msg[r].kind = "transition" /\ msg[r].status # "healthy" /\ found[r] = {}
                    => a # Id(r)
<1>1. msg[r] # None /\ pos[r] \in 1..MaxBatch /\ pc[r] = "commit"
  BY DEF IInv, Control, InTx, TypeOK, Commit
<1>2. Id(r) \in AlertId /\ alerts[Id(r)] = None
  BY <1>1, IdIsAlertId DEF IInv, Fresh, Id, TypeOK
<1>3. alerts' = AlertsAfter(r)
  BY DEF Commit
<1>4. CASE msg[r].kind # "transition"
  BY <1>3, <1>4 DEF AlertsAfter
<1>5. CASE msg[r].kind = "transition" /\ msg[r].status = "healthy"
  <2>1. a \in found[r] => alerts[a] \in Alert
    BY <1>1, <1>5, FoundExist DEF IInv, TypeOK
  <2>2. QED
    BY <1>3, <1>5, <2>1 DEF AlertsAfter
<1>6. CASE msg[r].kind = "transition" /\ msg[r].status # "healthy"
  BY <1>2, <1>3, <1>6 DEF AlertsAfter, IInv, TypeOK
<1>7. QED
  BY <1>4, <1>5, <1>6

\* Which table changes an action makes to the alerts: a commit or a mild one.
LEMMA AlertsStep ==
    ASSUME IInv, [Next]_vars
    PROVE  Mild \/ \E r \in Requests : Commit(r)
<1> USE UnchangedIsMild
<1>1. ASSUME NEW r \in Requests, Ingest(r) \/ Reject(r) \/ Crash(r)
      PROVE  UNCHANGED alerts \/ Commit(r)
  BY <1>1 DEF Ingest, TakeMessage, TouchRow, ResolveAll, FindOpen, Respond, Reject, Crash
<1>2. ASSUME NEW f \in Fixes, AutoFix(f) \/ CrashFix(f)
      PROVE  Mild
  BY <1>2, SetActingIsMild DEF AutoFix, CrashFix, LookUp, GetAlert, Dispatch, Remember
<1>3. CASE UNCHANGED vars
  BY <1>3 DEF vars
<1>4. QED
  BY <1>1, <1>2, <1>3, AuthorizeIsMild DEF Next, AllEnded

-----------------------------------------------------------------------------
(* Every step preserves the invariant, one conjunct at a time.             *)

LEMMA ControlStep ==
    ASSUME IInv, [Next]_vars
    PROVE  Control'
<1> USE DEF IInv, Control, TypeOK, InTx
<1>1. ASSUME NEW r \in Requests, TakeMessage(r) PROVE Control'
  <2>1. msg'[r] # None
    BY <1>1 DEF TakeMessage
  <2>2. QED
    BY <1>1, <2>1 DEF TakeMessage
<1>2. ASSUME NEW r \in Requests, TouchRow(r) PROVE Control'
  BY <1>2 DEF TouchRow
<1>3. ASSUME NEW r \in Requests, ResolveAll(r) \/ FindOpen(r) \/ Respond(r)
      PROVE Control'
  BY <1>3 DEF ResolveAll, FindOpen, Respond
<1>4. ASSUME NEW r \in Requests, Commit(r) PROVE Control'
  BY <1>4 DEF Commit, EndOfTx
<1>5. ASSUME NEW r \in Requests, Reject(r) PROVE Control'
  BY <1>5 DEF Reject, EndOfTx
<1>6. ASSUME NEW r \in Requests, Crash(r) PROVE Control'
  BY <1>6 DEF Crash
<1>7. ASSUME UNCHANGED ingestVars PROVE Control'
  BY <1>7 DEF ingestVars
<1>8. QED
  BY <1>1, <1>2, <1>3, <1>4, <1>5, <1>6, <1>7
     DEF Next, Ingest, AutoFix, AllEnded, vars, LookUp, GetAlert, SetActing, Dispatch,
         Remember, CrashFix, Authorize

\* Only TouchRow enters a transaction, and it waits for the row to be free.
LEMMA RowLockStep ==
    ASSUME IInv, [Next]_vars
    PROVE  RowLock'
<1> USE DEF IInv, RowLock, TypeOK, InTx
<1>1. ASSUME NEW r \in Requests, TouchRow(r) PROVE RowLock'
  BY <1>1 DEF TouchRow, RowFree
<1>2. ASSUME NEW r \in Requests,
             TakeMessage(r) \/ ResolveAll(r) \/ FindOpen(r) \/ Respond(r) \/ Crash(r)
      PROVE  RowLock'
  BY <1>2 DEF TakeMessage, ResolveAll, FindOpen, Respond, Crash
<1>3. ASSUME NEW r \in Requests, Commit(r) \/ Reject(r) PROVE RowLock'
  BY <1>3 DEF Commit, Reject, EndOfTx
<1>4. ASSUME UNCHANGED ingestVars PROVE RowLock'
  BY <1>4 DEF ingestVars
<1>5. QED
  BY <1>1, <1>2, <1>3, <1>4
     DEF Next, Ingest, AutoFix, AllEnded, vars, LookUp, GetAlert, SetActing, Dispatch,
         Remember, CrashFix, Authorize

\* A name is used by the commit that ends its message.
LEMMA FreshStep ==
    ASSUME IInv, [Next]_vars
    PROVE  Fresh'
<1> USE DEF IInv, Fresh
<1>0. /\ pos \in [Requests -> 1..(MaxBatch + 1)]
      /\ \A r \in Requests, i \in 1..MaxBatch : <<r, i>> \in AlertId
  BY DEF TypeOK, AlertId, MsgId
<1>1. ASSUME UNCHANGED outbox, Mild,
             pos' \in [Requests -> Nat], \A r \in Requests : pos'[r] >= pos[r]
      PROVE  Fresh'
  <2>1. ASSUME NEW r \in Requests, NEW i \in 1..MaxBatch, i < pos[r]
        PROVE  i < pos'[r]
    BY <1>0, <1>1, <2>1
  <2>2. ASSUME NEW r \in Requests, NEW i \in 1..MaxBatch, alerts'[<<r, i>>] # None
        PROVE  alerts[<<r, i>>] # None
    BY <1>0, <1>1, <2>2 DEF Mild
  <2>3. QED
    BY <1>1, <2>1, <2>2
<1>2. ASSUME NEW r \in Requests, Ingest(r) \/ Reject(r) \/ Crash(r), ~Commit(r)
      PROVE  Fresh'
  <2>1. UNCHANGED <<alerts, outbox>>
    BY <1>2 DEF Ingest, TakeMessage, TouchRow, ResolveAll, FindOpen, Respond,
                Reject, Crash
  <2>2. pos' = pos \/ pos' = [pos EXCEPT ![r] = @ + 1]
    BY <1>2 DEF Ingest, TakeMessage, TouchRow, ResolveAll, FindOpen, Respond,
                Reject, Crash, EndOfTx
  <2>3. pos' \in [Requests -> Nat] /\ \A s \in Requests : pos'[s] >= pos[s]
    BY <1>0, <2>2
  <2>4. QED
    BY <1>1, <2>1, <2>3, UnchangedIsMild
<1>3. ASSUME NEW r \in Requests, Commit(r) PROVE Fresh'
  <2>1. msg[r] # None /\ pos[r] <= MaxBatch
    BY <1>3 DEF Control, Commit, InTx
  <2>2. \A row \in Events(r) : row.by = Id(r)
    BY <2>1, EventsType
  <2>3. /\ \A s \in Requests : pos[s] \in Nat /\ pos'[s] \in Nat /\ pos'[s] >= pos[s]
        /\ pos'[r] = pos[r] + 1
    BY <1>0, <1>3 DEF Commit, EndOfTx
  <2>4. ASSUME NEW s \in Requests, NEW i \in 1..MaxBatch, alerts'[<<s, i>>] # None
        PROVE  i < pos'[s]
    <3> DEFINE a == <<s, i>>
    <3>1. a \in AlertId
      BY <1>0
    <3>2. ASSUME a \in found[r], alerts[a] \in Alert PROVE alerts[a] # None
      BY <3>2
    <3>3. a = Id(r) \/ alerts[a] # None
      BY <1>3, <2>4, <3>1, <3>2, CommitAlerts
    <3>4. CASE a = Id(r)
      BY <2>3, <3>4 DEF Id
    <3>5. CASE alerts[a] # None
      BY <2>3, <3>5
    <3>6. QED
      BY <3>3, <3>4, <3>5
  <2>5. ASSUME NEW s \in Requests, NEW i \in 1..MaxBatch,
               NEW row \in outbox', row.by = <<s, i>>
        PROVE  i < pos'[s]
    <3>1. CASE row \in outbox
      <4>1. i < pos[s]
        BY <2>5, <3>1
      <4>2. QED
        BY <2>3, <4>1
    <3>2. CASE row \in Events(r)
      <4>1. <<s, i>> = <<r, pos[r]>>
        BY <2>2, <2>5, <3>2 DEF Id
      <4>2. QED
        BY <2>3, <4>1
    <3>3. QED
      BY <1>3, <2>5, <3>1, <3>2 DEF Commit
  <2>6. QED
    BY <2>4, <2>5
<1>4. ASSUME NEW f \in Fixes, Dispatch(f) PROVE Fresh'
  <2>1. pos' = pos /\ alerts' = alerts
    BY <1>4 DEF Dispatch, ingestVars
  <2>2. ASSUME NEW r \in Requests, NEW i \in 1..MaxBatch,
               NEW row \in outbox', row.by = <<r, i>>
        PROVE  row \in outbox
    <3>1. <<r, i>> \notin Fixes
      BY FixesAssumption DEF MsgId
    <3>2. QED
      BY <1>4, <2>2, <3>1 DEF Dispatch, Row
  <2>3. QED
    BY <2>1, <2>2
<1>5. ASSUME UNCHANGED <<ingestVars, outbox>>, Mild PROVE Fresh'
  <2>1. pos' \in [Requests -> Nat] /\ \A s \in Requests : pos'[s] >= pos[s]
    BY <1>0, <1>5 DEF ingestVars
  <2>2. QED
    BY <1>1, <1>5, <2>1
<1>6. QED
  BY <1>2, <1>3, <1>4, <1>5, UnchangedIsMild, SetActingIsMild, AuthorizeIsMild
     DEF Next, AutoFix, AllEnded, vars, LookUp, GetAlert, SetActing, Remember,
         CrashFix, Authorize

\* Only Resolved moves an alert to "resolved".
LEMMA StampedStep ==
    ASSUME IInv, [Next]_vars
    PROVE  Stamped'
<1>1. CASE Mild
  BY <1>1 DEF Mild, IInv, Stamped, TypeOK
<1>2. ASSUME NEW r \in Requests, Commit(r) PROVE Stamped'
  <2>1. SUFFICES ASSUME NEW a \in AlertId, alerts'[a] # None, alerts'[a].state = "resolved"
                 PROVE  alerts'[a].resolved_at
    BY DEF Stamped
  <2>2. msg[r] \in Msg
    BY <1>2 DEF IInv, Control, InTx, TypeOK, Commit
  <2>3. QED
    BY <1>2, <2>1, <2>2, CommitAlerts, ResolvedIsAlert, OpenedIsAlert DEF IInv, Stamped
<1>3. QED
  BY <1>1, <1>2, AlertsStep


\* A commit changes alerts of its own device only.
LEMMA CommitElsewhere ==
    ASSUME IInv, NEW r \in Requests, Commit(r), NEW a \in AlertId
    PROVE  \/ alerts'[a] = alerts[a]
           \/ /\ alerts[a] # None => alerts[a].device = msg[r].row
              /\ alerts'[a] # None /\ alerts'[a].device = msg[r].row
<1>1. msg[r] \in Msg /\ pc[r] = "commit"
  BY DEF IInv, Control, InTx, TypeOK, Commit
<1>2. CASE msg[r].kind = "transition" /\ a \in found[r] /\ alerts[a] \in Alert
           /\ alerts'[a] = Resolved(alerts[a])
  <2>1. alerts[a].device = msg[r].row
    BY <1>1, <1>2 DEF IInv, FoundHolds, FoundBy
  <2>2. Resolved(alerts[a]) \in Alert /\ Resolved(alerts[a]).device = alerts[a].device
    BY <1>2, ResolvedIsAlert
  <2>3. QED
    BY <1>2, <2>1, <2>2
<1>3. CASE msg[r].kind = "transition" /\ msg[r].status # "healthy"
           /\ alerts[a] = None /\ alerts'[a] = Opened(msg[r])
  BY <1>1, <1>3, OpenedIsAlert
<1>4. QED
  BY <1>2, <1>3, CommitAlerts

\* What other handlers found survives a mild step.
LEMMA MildFound ==
    ASSUME IInv, Mild, NEW s \in Requests, FoundBy(s),
           msg'[s] = msg[s], found'[s] = found[s]
    PROVE  FoundBy(s)'
<1>1. \A a \in found[s] : a \in AlertId
  BY DEF IInv, TypeOK
<1>2. \A a \in AlertId : /\ IsOpen(a) => IsOpen(a)' /\ alerts[a] # None
                         /\ IsLive(a)' => IsLive(a) /\ alerts[a] # None
  BY MildKeeps DEF IsLive, IsOpen
<1>3. \A a \in AlertId : alerts[a] # None => /\ alerts'[a].device = alerts[a].device
                                             /\ alerts'[a].kind = alerts[a].kind
  BY DEF Mild
<1>4. QED
  BY <1>1, <1>2, <1>3 DEF FoundBy

\* What other handlers found survives a commit: it is on another device.
LEMMA CommitFound ==
    ASSUME IInv, NEW r \in Requests, Commit(r), NEW s \in Requests, FoundBy(s),
           msg[s].row # msg[r].row, msg'[s] = msg[s], found'[s] = found[s]
    PROVE  FoundBy(s)'
<1>1. \A a \in found[s] : a \in AlertId /\ alerts[a] # None /\ alerts'[a] = alerts[a]
  BY CommitElsewhere DEF IInv, TypeOK, FoundBy, IsOpen
<1>2. \A a \in AlertId : alerts'[a].device = msg[s].row /\ alerts'[a] # None
                            => alerts'[a] = alerts[a]
  BY CommitElsewhere
<1>3. QED
  BY <1>1, <1>2 DEF FoundBy, IsOpen, IsLive

\* ResolveAll and FindOpen establish what the commit relies on; the device
\* lock and the mildness of auto-fix keep it.
LEMMA FoundHoldsStep ==
    ASSUME IInv, [Next]_vars
    PROVE  FoundHolds'
<1>1. ASSUME Mild, \A s \in Requests :
                      pc'[s] = "commit" /\ msg'[s].kind = "transition" =>
                         /\ pc[s] = "commit"
                         /\ msg'[s] = msg[s] /\ found'[s] = found[s]
      PROVE  FoundHolds'
  BY <1>1, MildFound DEF IInv, FoundHolds
<1>2. ASSUME NEW r \in Requests, TakeMessage(r) \/ Respond(r) \/ Reject(r) \/ Crash(r)
      PROVE  FoundHolds'
  BY <1>1, <1>2, UnchangedIsMild
     DEF IInv, TypeOK, TakeMessage, Respond, Reject, Crash, EndOfTx
<1>3. ASSUME NEW r \in Requests, TouchRow(r) PROVE FoundHolds'
  BY <1>1, <1>3, UnchangedIsMild DEF IInv, TypeOK, TouchRow
<1>4. ASSUME NEW r \in Requests, ResolveAll(r) \/ FindOpen(r) PROVE FoundHolds'
  <2>1. UNCHANGED <<msg, alerts>> /\ Mild
    BY <1>4, UnchangedIsMild DEF ResolveAll, FindOpen
  <2>2. \A s \in Requests : s # r => pc'[s] = pc[s] /\ found'[s] = found[s]
    BY <1>4 DEF ResolveAll, FindOpen, IInv, TypeOK
  <2>3. FoundBy(r)'
    <3>1. CASE ResolveAll(r)
      <4>1. found'[r] = OpenOn(msg[r].row) /\ msg[r].status = "healthy"
        BY <3>1 DEF ResolveAll, IInv, TypeOK
      <4>2. QED
        BY <2>1, <4>1 DEF FoundBy, OpenOn, IsLive, IsOpen
    <3>2. CASE FindOpen(r)
      <4> DEFINE open == OpenOfKind(msg[r].row, msg[r].status)
      <4>0. /\ \/ open = {} /\ found'[r] = {}
               \/ \E a \in open : found'[r] = {a}
            /\ msg[r].status # "healthy"
        BY <3>2 DEF FindOpen, IInv, TypeOK
      <4>1. /\ found'[r] \subseteq open /\ (found'[r] = {} => open = {})
            /\ msg[r].status # "healthy"
        BY <4>0
      <4>2. \A a \in found'[r] : /\ a \in AlertId /\ IsOpen(a)
                                 /\ alerts[a].device = msg[r].row
                                 /\ alerts[a].kind = msg[r].status
        BY <4>1 DEF OpenOfKind, OpenOn
      <4>3. found'[r] = {} => \A a \in AlertId :
               IsLive(a) /\ alerts[a].device = msg[r].row => alerts[a].kind # msg[r].status
        BY <4>1 DEF OpenOfKind, OpenOn, IsLive
      <4>4. QED
        BY <2>1, <4>1, <4>2, <4>3 DEF FoundBy, IsLive, IsOpen
    <3>3. QED
      BY <1>4, <3>1, <3>2
  <2>4. QED
    BY <2>1, <2>2, <2>3, MildFound DEF IInv, FoundHolds
<1>5. ASSUME NEW r \in Requests, Commit(r) PROVE FoundHolds'
  <2>1. pc'[r] # "commit"
    BY <1>5 DEF Commit, EndOfTx, IInv, TypeOK
  <2>2. ASSUME NEW s \in Requests, s # r, pc'[s] = "commit", msg'[s].kind = "transition"
        PROVE  FoundBy(s)'
    <3>1. pc[s] = "commit" /\ msg'[s] = msg[s] /\ found'[s] = found[s]
      BY <1>5, <2>2 DEF Commit, EndOfTx, IInv, TypeOK
    <3>2. msg[s].row # msg[r].row
      BY <1>5, <2>2, <3>1 DEF Commit, IInv, RowLock, InTx
    <3>3. QED
      BY <1>5, <2>2, <3>1, <3>2, CommitFound DEF IInv, FoundHolds
  <2>3. QED
    BY <2>1, <2>2 DEF FoundHolds
<1>6. ASSUME UNCHANGED ingestVars, Mild PROVE FoundHolds'
  BY <1>1, <1>6 DEF ingestVars
<1>7. QED
  BY <1>2, <1>3, <1>4, <1>5, <1>6, UnchangedIsMild, SetActingIsMild, AuthorizeIsMild
     DEF Next, Ingest, AutoFix, AllEnded, vars, LookUp, GetAlert, SetActing, Dispatch,
         Remember, CrashFix, Authorize

\* LookUp names the alert, GetAlert sees that it is there; none is deleted.
LEMMA FixKnowsStep ==
    ASSUME IInv, [Next]_vars
    PROVE  FixKnows'
<1>1. ASSUME NEW a \in AlertId, alerts[a] # None PROVE alerts'[a] # None
  <2>1. CASE Mild
    BY <1>1, <2>1 DEF Mild
  <2>2. ASSUME NEW r \in Requests, Commit(r) PROVE alerts'[a] # None
    BY <1>1, <2>2, CommitElsewhere
  <2>3. QED
    BY <2>1, <2>2, AlertsStep
<1>2. ASSUME UNCHANGED <<fpc, fix>> PROVE FixKnows'
  <2>1. ASSUME NEW f \in Fixes, fpc[f] = "act" PROVE fix[f].alert \in AlertId
    BY <2>1 DEF IInv, FixKnows, TypeOK
  <2>2. QED
    BY <1>1, <1>2, <2>1 DEF IInv, FixKnows
<1>3. ASSUME NEW f \in Fixes, AutoFix(f) \/ CrashFix(f) PROVE FixKnows'
  <2>1. ASSUME NEW g \in Fixes, fpc'[g] # "new" PROVE fix'[g] # None
    BY <1>3, <2>1 DEF AutoFix, LookUp, GetAlert, SetActing, Dispatch, Remember,
                      CrashFix, IInv, FixKnows, TypeOK
  <2>2. ASSUME NEW g \in Fixes, fpc'[g] = "act"
        PROVE  fix'[g] = fix[g] /\ fix[g].alert \in AlertId /\ alerts[fix[g].alert] # None
    BY <1>3, <2>2 DEF AutoFix, LookUp, GetAlert, SetActing, Dispatch, Remember,
                      CrashFix, IInv, FixKnows, TypeOK, IsOpen
  <2>3. QED
    BY <1>1, <2>1, <2>2 DEF FixKnows
<1>4. QED
  BY <1>2, <1>3
     DEF Next, Ingest, AllEnded, vars, fixVars, TakeMessage, TouchRow, ResolveAll,
         FindOpen, Commit, Reject, Respond, Crash, Authorize

-----------------------------------------------------------------------------
(* The invariant holds in every behaviour.                                 *)

LEMMA InitIInv == Init => IInv
<1> SUFFICES ASSUME Init PROVE IInv
  OBVIOUS
<1>1. TypeOK
  BY InitType
<1>2. Control /\ RowLock /\ Stamped /\ FoundHolds
  BY DEF Init, Control, RowLock, Stamped, FoundHolds, InTx
<1>3. Fresh
  BY DEF Init, Fresh, AlertId, MsgId
<1>4. FixKnows
  BY DEF Init, FixKnows
<1>5. QED
  BY <1>1, <1>2, <1>3, <1>4 DEF IInv

THEOREM Invariance == SafeSpec => []IInv
<1>1. IInv /\ [Next]_vars => IInv'
  BY TypeStep, ControlStep, RowLockStep, FreshStep, StampedStep, FoundHoldsStep,
     FixKnowsStep DEF IInv
<1>2. QED
  BY InitIInv, <1>1, PTL DEF SafeSpec


\* Every value of the model's variables is of its type.
THEOREM TypeCorrect == SafeSpec => []TypeOK
<1>1. IInv => TypeOK
  BY DEF IInv
<1>2. QED
  BY <1>1, Invariance, PTL

-----------------------------------------------------------------------------
(* The properties.                                                         *)

\* The message that a committing handler holds.
LEMMA CommitMsg ==
    ASSUME IInv, NEW r \in Requests, Commit(r)
    PROVE  /\ msg[r] \in Msg /\ pc[r] = "commit"
           /\ pos[r] \in 1..MaxBatch
           /\ Id(r) \in AlertId
           /\ msg[r].kind = "transition" => /\ msg[r].row \in Devices
                                            /\ msg[r].status \in Status
                                            /\ FoundBy(r)
<1>1. msg[r] \in Msg /\ pc[r] = "commit" /\ pos[r] \in 1..MaxBatch
  BY DEF IInv, Control, InTx, TypeOK, Commit
<1>2. Id(r) \in AlertId
  BY <1>1, IdIsAlertId
<1>3. msg[r].kind = "transition" => msg[r].row \in Devices /\ msg[r].status \in Status
  BY <1>1 DEF Msg
<1>4. msg[r].kind = "transition" => FoundBy(r)
  BY <1>1 DEF IInv, FoundHolds
<1>5. QED
  BY <1>1, <1>2, <1>3, <1>4

LEMMA OneLiveStep ==
    ASSUME IInv, OneLiveAlertPerKind, [Next]_vars
    PROVE  OneLiveAlertPerKind'
<1>1. CASE Mild
  <2>1. \A a \in AlertId : IsLive(a)' => /\ IsLive(a)
                                         /\ alerts'[a].device = alerts[a].device
                                         /\ alerts'[a].kind = alerts[a].kind
    BY <1>1, MildKeeps DEF Mild, IsLive, IsOpen
  <2>2. QED
    BY <2>1 DEF OneLiveAlertPerKind
<1>2. ASSUME NEW r \in Requests, Commit(r) PROVE OneLiveAlertPerKind'
  <2>1. \A a \in AlertId : IsLive(a)' =>
           \/ alerts'[a] = alerts[a] /\ IsLive(a)
           \/ /\ msg[r].kind = "transition" /\ msg[r].status # "healthy" /\ found[r] = {}
              /\ a = Id(r) /\ alerts'[a] = Opened(msg[r])
    <3>1. ASSUME NEW a \in AlertId, alerts[a] \in Alert, alerts'[a] = Resolved(alerts[a])
          PROVE  ~IsLive(a)'
      BY <3>1, ResolvedIsAlert DEF IsLive, IsOpen
    <3>2. QED
      BY <1>2, <3>1, CommitAlerts DEF IsLive, IsOpen
  <2>2. CASE msg[r].kind = "transition" /\ msg[r].status # "healthy" /\ found[r] = {}
    <3>1. \A a \in AlertId : IsLive(a) => \/ alerts[a].device # msg[r].row
                                          \/ alerts[a].kind # msg[r].status
      BY <1>2, <2>2, CommitMsg DEF FoundBy
    <3>2. /\ Opened(msg[r]).device = msg[r].row
          /\ Opened(msg[r]).kind = msg[r].status
      BY <1>2, <2>2, CommitMsg, OpenedIsAlert
    <3>3. QED
      BY <2>1, <3>1, <3>2 DEF OneLiveAlertPerKind
  <2>3. QED
    BY <2>1, <2>2 DEF OneLiveAlertPerKind
<1>3. QED
  BY <1>1, <1>2, AlertsStep

\* At most one live alert per device and kind, for any number of requests.
THEOREM OneLive == SafeSpec => []OneLiveAlertPerKind
<1>1. Init => OneLiveAlertPerKind
  BY DEF Init, OneLiveAlertPerKind, IsLive, IsOpen
<1>2. IInv /\ OneLiveAlertPerKind /\ [Next]_vars => OneLiveAlertPerKind'
  BY OneLiveStep
<1>3. QED
  BY <1>1, <1>2, Invariance, PTL DEF SafeSpec

\* An alert is closed by a committed transition to healthy of its device only.
THEOREM OnlyHealthy == SafeSpec => OnlyHealthyResolves
<1> DEFINE Step ==
      \A a \in AlertId : alerts[a] # None =>
        /\ alerts'[a] # None
        /\ alerts'[a].device = alerts[a].device
        /\ alerts'[a].kind = alerts[a].kind
        /\ IsOpen(a) /\ ~IsOpen(a)' =>
              /\ lastTransition'[alerts[a].device] = "healthy"
              /\ status'[alerts[a].device] = "healthy"
<1>1. ASSUME IInv, [Next]_vars PROVE Step
  <2>1. CASE Mild
    BY <1>1, <2>1, MildKeeps DEF Mild
  <2>2. ASSUME NEW r \in Requests, Commit(r), NEW a \in AlertId, alerts[a] # None
        PROVE  /\ alerts'[a] # None
               /\ alerts'[a].device = alerts[a].device
               /\ alerts'[a].kind = alerts[a].kind
               /\ IsOpen(a) /\ ~IsOpen(a)' =>
                     /\ lastTransition'[alerts[a].device] = "healthy"
                     /\ status'[alerts[a].device] = "healthy"
    <3>1. CASE alerts'[a] = alerts[a]
      BY <2>2, <3>1 DEF IsOpen
    <3>2. CASE /\ msg[r].kind = "transition" /\ msg[r].status = "healthy"
               /\ a \in found[r] /\ alerts[a] \in Alert
               /\ alerts'[a] = Resolved(alerts[a])
      <4>1. /\ Resolved(alerts[a]) \in Alert
            /\ Resolved(alerts[a]).device = alerts[a].device
            /\ Resolved(alerts[a]).kind = alerts[a].kind
        BY <3>2, ResolvedIsAlert
      <4>2. alerts[a].device = msg[r].row /\ msg[r].row \in Devices
        BY <1>1, <2>2, <3>2, CommitMsg DEF FoundBy
      <4>3. lastTransition'[msg[r].row] = "healthy" /\ status'[msg[r].row] = "healthy"
        BY <1>1, <2>2, <3>2, <4>2 DEF Commit, IInv, TypeOK
      <4>4. QED
        BY <3>2, <4>1, <4>2, <4>3
    <3>3. QED
      BY <1>1, <2>2, <3>1, <3>2, CommitAlerts
  <2>3. QED
    BY <1>1, <2>1, <2>2, AlertsStep
<1>2. ASSUME IInv, [Next]_vars PROVE [Step]_vars
  BY <1>1, <1>2
<1>3. QED
  BY <1>2, Invariance, PTL DEF SafeSpec, OnlyHealthyResolves

LEMMA FollowStep ==
    ASSUME IInv, AlertsFollowTransitions, [Next]_vars
    PROVE  AlertsFollowTransitions'
<1>1. ASSUME Mild, lastTransition' = lastTransition PROVE AlertsFollowTransitions'
  <2>1. \A a \in AlertId : IsOpen(a) => /\ IsOpen(a)'
                                        /\ alerts'[a].device = alerts[a].device
                                        /\ alerts'[a].kind = alerts[a].kind
    BY <1>1, MildKeeps DEF Mild, IsOpen
  <2>2. \A a \in AlertId : IsLive(a)' => /\ IsLive(a)
                                         /\ alerts'[a].device = alerts[a].device
    BY <1>1, MildKeeps DEF Mild, IsLive, IsOpen
  <2>3. ASSUME NEW d \in Devices, lastTransition'[d] \in Problem
        PROVE  OpenOfKind(d, lastTransition[d])' # {}
    <3>1. PICK a \in AlertId : /\ IsOpen(a) /\ alerts[a].device = d
                               /\ alerts[a].kind = lastTransition[d]
      BY <1>1, <2>3 DEF AlertsFollowTransitions, OpenOfKind, OpenOn
    <3>2. QED
      BY <1>1, <2>1, <3>1 DEF OpenOfKind, OpenOn
  <2>4. ASSUME NEW d \in Devices, lastTransition'[d] = "healthy",
               NEW a \in AlertId, IsLive(a)'
        PROVE  alerts'[a].device # d
    BY <1>1, <2>2, <2>4 DEF AlertsFollowTransitions, OpenOn, IsLive
  <2>5. QED
    BY <2>3, <2>4 DEF AlertsFollowTransitions, OpenOn
<1>2. ASSUME NEW r \in Requests, Commit(r) PROVE AlertsFollowTransitions'
  <2> DEFINE m == msg[r]
  <2>1. CASE m.kind # "transition"
    <3>1. Mild /\ lastTransition' = lastTransition
      BY <1>2, <2>1, UnchangedIsMild DEF Commit, AlertsAfter
    <3>2. QED
      BY <1>1, <3>1
  <2>2. CASE m.kind = "transition"
    <3>1. /\ lastTransition' = [lastTransition EXCEPT ![m.row] = m.status]
          /\ m.row \in Devices /\ FoundBy(r) /\ m \in Msg
      BY <1>2, <2>2, CommitMsg DEF Commit
    <3>2. ASSUME NEW d \in Devices, d # m.row
          PROVE  /\ lastTransition'[d] \in Problem
                      => OpenOfKind(d, lastTransition[d])' # {}
                 /\ lastTransition'[d] = "healthy" => \A a \in OpenOn(d)' : ~IsLive(a)'
      <4>1. \A a \in AlertId : /\ alerts[a] # None /\ alerts[a].device = d
                                     => alerts'[a] = alerts[a]
                               /\ alerts'[a] # None /\ alerts'[a].device = d
                                     => alerts'[a] = alerts[a]
        BY <1>2, <3>2, CommitElsewhere
      <4>2. lastTransition'[d] = lastTransition[d]
        BY <3>1, <3>2 DEF IInv, TypeOK
      <4>3. OpenOn(d)' = OpenOn(d)
        BY <4>1 DEF OpenOn, IsOpen
      <4>4. \A a \in OpenOn(d) : alerts'[a] = alerts[a]
        BY <4>1 DEF OpenOn, IsOpen
      <4>5. OpenOfKind(d, lastTransition[d])' = OpenOfKind(d, lastTransition[d])
        BY <4>2, <4>3, <4>4 DEF OpenOfKind
      <4>6. QED
        BY <4>2, <4>3, <4>4, <4>5 DEF AlertsFollowTransitions, IsLive, IsOpen
    <3>3. CASE m.status = "healthy"
      <4>1. lastTransition'[m.row] = "healthy" /\ lastTransition'[m.row] \notin Problem
        BY <3>1, <3>3 DEF IInv, TypeOK, Problem
      <4>2. ASSUME NEW a \in AlertId, IsLive(a)' PROVE alerts'[a].device # m.row
        <5>1. ASSUME alerts[a] \in Alert, alerts'[a] = Resolved(alerts[a])
              PROVE  FALSE
          BY <4>2, <5>1, ResolvedIsAlert DEF IsLive, IsOpen
        <5>2. alerts'[a] = alerts[a] /\ a \notin found[r]
          BY <1>2, <2>2, <3>3, <5>1, CommitAlerts
        <5>3. QED
          BY <3>1, <3>3, <4>2, <5>2 DEF FoundBy, IsLive, IsOpen
      <4>3. QED
        BY <3>2, <4>1, <4>2 DEF AlertsFollowTransitions, OpenOn
    <3>4. CASE m.status # "healthy"
      <4>1. lastTransition'[m.row] = m.status /\ m.status # "healthy"
        BY <3>1, <3>4 DEF IInv, TypeOK
      <4>2. \E a \in AlertId : /\ IsOpen(a)' /\ alerts'[a].device = m.row
                               /\ alerts'[a].kind = m.status
        <5>1. CASE found[r] = {}
          <6>1. PICK a \in AlertId : alerts' = [alerts EXCEPT ![a] = Opened(m)]
            BY <1>2, <2>2, <3>4, <5>1, CommitMsg DEF Commit, AlertsAfter
          <6>2. /\ Opened(m) \in Alert /\ Opened(m).device = m.row
                /\ Opened(m).kind = m.status /\ Opened(m).state = "opened"
            BY <2>2, <3>1, <3>4, OpenedIsAlert
          <6>3. alerts'[a] = Opened(m) /\ IsOpen(a)'
            BY <6>1, <6>2 DEF IsOpen, Open, IInv, TypeOK
          <6>4. QED
            BY <6>1, <6>2, <6>3
        <5>2. CASE found[r] # {}
          <6>1. PICK a \in found[r] : a \in AlertId /\ alerts' = alerts
            BY <1>2, <2>2, <3>4, <5>2 DEF Commit, AlertsAfter, IInv, TypeOK
          <6>2. QED
            BY <3>1, <3>4, <6>1 DEF FoundBy, IsOpen
        <5>3. QED
          BY <5>1, <5>2
      <4>3. QED
        BY <3>2, <4>1, <4>2 DEF AlertsFollowTransitions, OpenOfKind, OpenOn
    <3>5. QED
      BY <3>3, <3>4
  <2>3. QED
    BY <2>1, <2>2
<1>3. ASSUME NEW r \in Requests, Ingest(r) \/ Reject(r) \/ Crash(r), ~Commit(r)
      PROVE  Mild /\ lastTransition' = lastTransition
  BY <1>3, UnchangedIsMild
     DEF Ingest, TakeMessage, TouchRow, ResolveAll, FindOpen, Respond, Reject, Crash
<1>4. CASE UNCHANGED ingestVars
  <2>1. lastTransition' = lastTransition
    BY <1>4 DEF ingestVars
  <2>2. (\E r \in Requests : Commit(r)) => AlertsFollowTransitions'
    BY <1>2
  <2>3. QED
    BY <1>1, <2>1, <2>2, AlertsStep
<1>5. QED
  BY <1>1, <1>2, <1>3, <1>4
     DEF Next, AutoFix, AllEnded, vars, LookUp, GetAlert, SetActing, Dispatch, Remember,
         CrashFix, Authorize

\* The alerts of a device agree with its last committed transition, always.
THEOREM Follow == SafeSpec => []AlertsFollowTransitions
<1>1. Init => AlertsFollowTransitions
  BY DEF Init, AlertsFollowTransitions, Problem, Status, OpenOn, IsOpen
<1>2. IInv /\ AlertsFollowTransitions /\ [Next]_vars => AlertsFollowTransitions'
  BY FollowStep
<1>3. QED
  BY <1>1, <1>2, Invariance, PTL DEF SafeSpec

-----------------------------------------------------------------------------
(* The outbox.                                                             *)

\* Only commits and Dispatch write the outbox.
LEMMA OutboxStep ==
    ASSUME IInv, [Next]_vars
    PROVE  \/ \E r \in Requests : Commit(r)
           \/ \E f \in Fixes : Dispatch(f) /\ Mild
           \/ UNCHANGED outbox /\ Mild
<1>1. ASSUME NEW r \in Requests, Ingest(r) \/ Reject(r) \/ Crash(r)
      PROVE  UNCHANGED outbox \/ Commit(r)
  BY <1>1 DEF Ingest, TakeMessage, TouchRow, ResolveAll, FindOpen, Respond, Reject, Crash
<1>2. ASSUME NEW f \in Fixes, AutoFix(f) \/ CrashFix(f)
      PROVE  UNCHANGED outbox \/ Dispatch(f)
  BY <1>2 DEF AutoFix, CrashFix, LookUp, GetAlert, SetActing, Remember
<1>3. ASSUME NEW a \in AlertId, Authorize(a) PROVE UNCHANGED outbox
  BY <1>3 DEF Authorize
<1>4. CASE UNCHANGED vars
  BY <1>4, UnchangedIsMild DEF vars
<1>5. QED
  BY <1>1, <1>2, <1>3, <1>4, AlertsStep DEF Next, AllEnded

\* The rows "opened" and "state_changed" that a commit adds.
LEMMA EventsOf ==
    ASSUME IInv, NEW r \in Requests, Commit(r), NEW a \in AlertId
    PROVE  /\ Row("alert.opened", a, a) \in Events(r)
                 <=> /\ msg[r].kind = "transition" /\ msg[r].status # "healthy"
                     /\ found[r] = {} /\ a = Id(r)
           /\ \A m \in MsgId : Row("alert.state_changed", a, m) \in Events(r)
                 <=> /\ msg[r].kind = "transition" /\ msg[r].status = "healthy"
                     /\ a \in found[r] /\ m = Id(r)
<1>1. \A e1, e2, a1, a2, b1, b2 :
         Row(e1, a1, b1) = Row(e2, a2, b2) <=> e1 = e2 /\ a1 = a2 /\ b1 = b2
  BY DEF Row
<1>2. msg[r].kind \in {"transition", "periodic", "edge_health"}
  BY CommitMsg DEF Msg
<1>3. CASE msg[r].kind # "transition"
  BY <1>1, <1>2, <1>3 DEF Events
<1>4. CASE msg[r].kind = "transition" /\ msg[r].status = "healthy"
  BY <1>1, <1>4 DEF Events
<1>5. CASE msg[r].kind = "transition" /\ msg[r].status # "healthy"
  BY <1>1, <1>5 DEF Events
<1>6. QED
  BY <1>3, <1>4, <1>5

LEMMA MatchStep ==
    ASSUME IInv, OutboxMatchesAlerts, [Next]_vars
    PROVE  OutboxMatchesAlerts'
<1>1. ASSUME NEW r \in Requests, Commit(r) PROVE OutboxMatchesAlerts'
  <2>1. SUFFICES ASSUME NEW a \in AlertId
        PROVE  /\ alerts'[a] # None <=> Row("alert.opened", a, a) \in outbox'
               /\ (alerts'[a] # None /\ alerts'[a].resolved_at)
                     <=> \E m \in MsgId : Row("alert.state_changed", a, m) \in outbox'
    BY DEF OutboxMatchesAlerts
  <2>2. outbox' = outbox \cup Events(r) /\ Id(r) \in MsgId
    BY <1>1, CommitMsg DEF Commit, AlertId
  <2>3. /\ alerts[a] # None <=> Row("alert.opened", a, a) \in outbox
        /\ (alerts[a] # None /\ alerts[a].resolved_at)
              <=> \E m \in MsgId : Row("alert.state_changed", a, m) \in outbox
    BY DEF OutboxMatchesAlerts
  <2>4. CASE /\ msg[r].kind = "transition" /\ msg[r].status = "healthy"
             /\ a \in found[r] /\ alerts[a] \in Alert
             /\ alerts'[a] = Resolved(alerts[a])
    <3>1. alerts'[a] # None /\ alerts'[a].resolved_at
      <4>1. Resolved(alerts[a]) \in Alert /\ Resolved(alerts[a]).resolved_at = TRUE
        BY <2>4, ResolvedIsAlert
      <4>2. QED
        BY <2>4, <4>1
    <3>2. Row("alert.opened", a, a) \in outbox'
      BY <2>2, <2>3, <2>4
    <3>3. Row("alert.state_changed", a, Id(r)) \in outbox'
      BY <1>1, <2>2, <2>4, EventsOf
    <3>4. QED
      BY <2>2, <3>1, <3>2, <3>3
  <2>5. CASE /\ msg[r].kind = "transition" /\ msg[r].status # "healthy"
             /\ found[r] = {} /\ a = Id(r) /\ alerts[a] = None
             /\ alerts'[a] = Opened(msg[r])
    <3>1. Opened(msg[r]) \in Alert /\ Opened(msg[r]).resolved_at = FALSE
      BY <1>1, <2>5, CommitMsg, OpenedIsAlert
    <3>2. QED
      BY <1>1, <2>2, <2>3, <2>5, <3>1, EventsOf
  <2>6. CASE /\ alerts'[a] = alerts[a]
             /\ msg[r].kind = "transition" /\ msg[r].status = "healthy"
                   => a \notin found[r]
             /\ msg[r].kind = "transition" /\ msg[r].status # "healthy" /\ found[r] = {}
                   => a # Id(r)
    BY <1>1, <2>2, <2>3, <2>6, EventsOf
  <2>7. QED
    BY <1>1, <2>4, <2>5, <2>6, CommitAlerts
<1>2. ASSUME Mild, \A a \in AlertId, e \in {"alert.opened", "alert.state_changed"}, m \in MsgId :
                      Row(e, a, m) \in outbox' <=> Row(e, a, m) \in outbox
      PROVE  OutboxMatchesAlerts'
  BY <1>2 DEF OutboxMatchesAlerts, Mild, AlertId
<1>3. ASSUME NEW f \in Fixes, Dispatch(f), Mild PROVE OutboxMatchesAlerts'
  BY <1>2, <1>3 DEF Dispatch, Row
<1>4. CASE UNCHANGED outbox /\ Mild
  BY <1>2, <1>4
<1>5. QED
  BY <1>1, <1>3, <1>4, OutboxStep

\* The transactional outbox tells of every alert opened and resolved, and of
\* no other.
THEOREM OutboxMatches == SafeSpec => []OutboxMatchesAlerts
<1>1. Init => OutboxMatchesAlerts
  BY DEF Init, OutboxMatchesAlerts
<1>2. IInv /\ OutboxMatchesAlerts /\ [Next]_vars => OutboxMatchesAlerts'
  BY MatchStep
<1>3. QED
  BY <1>1, <1>2, Invariance, PTL DEF SafeSpec

-----------------------------------------------------------------------------
(* Rejected messages.                                                      *)

LEMMA RejectedStep ==
    ASSUME IInv, RejectedLeavesNothing, [Next]_vars
    PROVE  RejectedLeavesNothing'
<1>1. \A m \in MsgId : m[1] \in Requests /\ m[2] \in 1..MaxBatch /\ m = <<m[1], m[2]>>
  BY DEF MsgId
<1>2. ASSUME NEW m \in MsgId, m[2] \in rejected'[m[1]]
      PROVE  alerts'[m] = None /\ \A row \in outbox' : row.by # m
  <2>0. m \in AlertId /\ m[1] \in Requests /\ m[2] \in 1..MaxBatch /\ m = <<m[1], m[2]>>
    BY <1>1, <1>2 DEF AlertId
  <2>1. ASSUME NEW r \in Requests, Commit(r)
        PROVE  alerts'[m] = None /\ \A row \in outbox' : row.by # m
    <3>1. rejected' = rejected /\ msg[r] # None /\ pos[r] \in 1..MaxBatch
      BY <2>1, CommitMsg DEF Commit, IInv, Control, InTx
    <3>2. m # Id(r)
      <4>1. pos[r] \notin rejected[r]
        BY <3>1 DEF IInv, Control, TypeOK
      <4>2. QED
        BY <1>2, <3>1, <4>1 DEF Id
    <3>3. alerts[m] = None /\ \A row \in outbox : row.by # m
      BY <1>2, <3>1 DEF RejectedLeavesNothing
    <3>4. alerts'[m] = None
      BY <2>0, <2>1, <3>2, <3>3, CommitAlerts
    <3>5. \A row \in outbox' : row.by # m
      BY <2>1, <3>1, <3>2, <3>3, EventsType DEF Commit, IInv
    <3>6. QED
      BY <3>4, <3>5
  <2>2. CASE ~\E r \in Requests : Commit(r)
    <3>1. alerts[m] = None /\ \A row \in outbox : row.by # m
      <4>1. CASE m[2] \in rejected[m[1]]
        BY <1>2, <4>1 DEF RejectedLeavesNothing
      <4>2. CASE m[2] \notin rejected[m[1]]
        <5>1. m[2] = pos[m[1]]
          <6>1. \/ UNCHANGED rejected
                \/ \E r \in Requests : rejected' = [rejected EXCEPT ![r] = @ \cup {pos[r]}]
            BY <2>2 DEF Next, Ingest, AutoFix, AllEnded, vars, ingestVars, TakeMessage,
                        TouchRow, ResolveAll, FindOpen, Respond, Reject, Crash, LookUp,
                        GetAlert, SetActing, Dispatch, Remember, CrashFix, Authorize
          <6>2. QED
            BY <1>2, <2>0, <4>2, <6>1 DEF IInv, TypeOK
        <5>2. /\ alerts[<<m[1], m[2]>>] # None => m[2] < pos[m[1]]
              /\ \A row \in outbox : row.by = <<m[1], m[2]>> => m[2] < pos[m[1]]
          BY <2>0 DEF IInv, Fresh
        <5>3. QED
          BY <2>0, <5>1, <5>2
      <4>3. QED
        BY <4>1, <4>2
    <3>2. Mild /\ (UNCHANGED outbox \/ \E f \in Fixes : Dispatch(f))
      BY <2>2, OutboxStep
    <3>3. \A f \in Fixes : f # m
      BY FixesAssumption
    <3>4. QED
      BY <2>0, <3>1, <3>2, <3>3 DEF Mild, Dispatch, Row
  <2>3. QED
    BY <2>1, <2>2
<1>3. QED
  BY <1>2 DEF RejectedLeavesNothing

\* A message that is answered as rejected has no effect, in any batch.
THEOREM Rejected == SafeSpec => []RejectedLeavesNothing
<1>1. Init => RejectedLeavesNothing
  BY DEF Init, RejectedLeavesNothing, MsgId
<1>2. IInv /\ RejectedLeavesNothing /\ [Next]_vars => RejectedLeavesNothing'
  BY RejectedStep
<1>3. QED
  BY <1>1, <1>2, Invariance, PTL DEF SafeSpec

-----------------------------------------------------------------------------
(* Auto-fix.                                                               *)

\* The dispatch of g is in the outbox, so g is under way or over.
Dispatched(g) ==
    /\ Row("auto_fix.dispatched", fix[g].alert, g) \in outbox
    /\ fpc[g] # "new"

\* Inductive form of AnsweredMeansDispatched: who is about to be remembered
\* has dispatched, and what is remembered is a dispatch with that key.
AnswerInv ==
    /\ \A f \in Fixes : fpc[f] = "remember" => Dispatched(f)
    /\ \A k \in Keys : cache[k] # None => fix[cache[k]].key = k /\ Dispatched(cache[k])
    /\ \A f \in Fixes : answer[f] = "202" =>
          /\ fpc[f] # "new"
          /\ \E g \in Fixes : /\ fix[g].key = fix[f].key
                              /\ fix[g].alert = fix[f].alert
                              /\ Dispatched(g)

LEMMA AnswerStep ==
    ASSUME IInv, AnswerInv, [Next]_vars
    PROVE  AnswerInv'
<1> USE DEF IInv, TypeOK
<1>1. ASSUME UNCHANGED <<fpc, fix, answer, cache, outbox>> PROVE AnswerInv'
  BY <1>1 DEF AnswerInv, Dispatched
<1>2. ASSUME NEW r \in Requests, Commit(r) PROVE AnswerInv'
  BY <1>2 DEF Commit, fixVars, AnswerInv, Dispatched
<1>3. ASSUME NEW f \in Fixes, LookUp(f) PROVE AnswerInv'
  <2>1. PICK a \in AlertId, k \in Keys :
          /\ \A g \in Fixes : fpc[g] # "new" /\ fix[g].key = k => fix[g].alert = a
          /\ fix' = [fix EXCEPT ![f] = [alert |-> a, key |-> k]]
          /\ \/ /\ cache[k] # None
                /\ fpc' = [fpc EXCEPT ![f] = "done"]
                /\ answer' = [answer EXCEPT ![f] = "202"]
             \/ /\ cache[k] = None
                /\ fpc' = [fpc EXCEPT ![f] = "get"]
                /\ UNCHANGED answer
    BY <1>3 DEF LookUp
  <2>2. outbox' = outbox /\ cache' = cache /\ fpc[f] = "new" /\ fpc'[f] # "new"
        /\ fpc'[f] # "remember"
    BY <1>3, <2>1 DEF LookUp
  <2>3. \A g \in Fixes : g # f => fix'[g] = fix[g] /\ fpc'[g] = fpc[g] /\ answer'[g] = answer[g]
    BY <2>1
  <2>4. \A g \in Fixes : Dispatched(g) => g # f /\ Dispatched(g)'
    BY <2>2, <2>3 DEF Dispatched
  <2>5. \A g \in Fixes : fpc'[g] = "remember" => Dispatched(g)'
    BY <2>2, <2>3, <2>4 DEF AnswerInv
  <2>6. \A h \in Keys : cache'[h] # None => fix'[cache'[h]].key = h /\ Dispatched(cache[h])'
    BY <2>2, <2>3, <2>4 DEF AnswerInv
  <2>7. ASSUME NEW e \in Fixes, answer'[e] = "202"
        PROVE  /\ fpc'[e] # "new"
               /\ \E g \in Fixes : /\ fix'[g].key = fix'[e].key
                                   /\ fix'[g].alert = fix'[e].alert
                                   /\ Dispatched(g)'
    <3>1. CASE e # f
      <4>1. PICK g \in Fixes : /\ fix[g].key = fix[e].key
                               /\ fix[g].alert = fix[e].alert
                               /\ Dispatched(g)
        BY <2>3, <2>7, <3>1 DEF AnswerInv
      <4>2. g # f /\ Dispatched(g)'
        BY <2>4, <4>1
      <4>3. QED
        BY <2>3, <2>7, <3>1, <4>1, <4>2 DEF AnswerInv
    <3>2. CASE e = f
      <4>1. answer[f] # "202"
        BY <2>2 DEF AnswerInv
      <4>2. cache[k] # None
        BY <2>1, <2>7, <3>2, <4>1
      <4>3. fix[cache[k]].key = k /\ Dispatched(cache[k]) /\ cache[k] \in Fixes
        BY <4>2 DEF AnswerInv
      <4>4. fix[cache[k]].alert = a
        BY <2>1, <4>3 DEF Dispatched
      <4>5. fix'[f].key = k /\ fix'[f].alert = a
        BY <2>1
      <4>6. cache[k] # f /\ Dispatched(cache[k])'
        BY <2>2, <2>4, <4>3
      <4>7. QED
        BY <2>2, <2>3, <3>2, <4>3, <4>4, <4>5, <4>6
    <3>3. QED
      BY <3>1, <3>2
  <2>8. QED
    BY <2>2, <2>5, <2>6, <2>7 DEF AnswerInv
<1>4. ASSUME NEW f \in Fixes, GetAlert(f) \/ SetActing(f) \/ CrashFix(f) PROVE AnswerInv'
  <2>1. /\ UNCHANGED <<outbox, fix, cache>>
        /\ \A g \in Fixes : /\ fpc'[g] = "remember" => fpc[g] = "remember"
                            /\ fpc[g] # "new" => fpc'[g] # "new"
                            /\ answer'[g] = "202" => answer[g] = "202"
    BY <1>4 DEF GetAlert, SetActing, CrashFix
  <2>2. QED
    BY <2>1 DEF AnswerInv, Dispatched
<1>5. ASSUME NEW f \in Fixes, Dispatch(f) PROVE AnswerInv'
  <2>1. /\ UNCHANGED <<answer, fix, cache>> /\ outbox \subseteq outbox'
        /\ fpc' = [fpc EXCEPT ![f] = "remember"]
        /\ Row("auto_fix.dispatched", fix[f].alert, f) \in outbox'
    BY <1>5 DEF Dispatch
  <2>2. Dispatched(f)' /\ \A g \in Fixes : Dispatched(g) => Dispatched(g)'
    BY <2>1 DEF Dispatched
  <2>3. QED
    BY <2>1, <2>2 DEF AnswerInv
<1>6. ASSUME NEW f \in Fixes, Remember(f) PROVE AnswerInv'
  <2>1. /\ UNCHANGED <<outbox, fix>>
        /\ cache' = [cache EXCEPT ![fix[f].key] = f]
        /\ fpc' = [fpc EXCEPT ![f] = "done"]
        /\ answer' = [answer EXCEPT ![f] = "202"]
        /\ fpc[f] = "remember"
    BY <1>6 DEF Remember
  <2>2. Dispatched(f) /\ \A g \in Fixes : Dispatched(g) => Dispatched(g)'
    BY <2>1 DEF AnswerInv, Dispatched
  <2>3. QED
    BY <2>1, <2>2 DEF AnswerInv
<1>7. ASSUME NEW r \in Requests, Ingest(r) \/ Reject(r) \/ Crash(r), ~Commit(r)
      PROVE  UNCHANGED <<fpc, fix, answer, cache, outbox>>
  BY <1>7 DEF Ingest, TakeMessage, TouchRow, ResolveAll, FindOpen, Respond, Reject,
              Crash, fixVars
<1>8. QED
  BY <1>1, <1>2, <1>3, <1>4, <1>5, <1>6, <1>7
     DEF Next, AutoFix, AllEnded, vars, fixVars, Authorize

\* A 202 stands for a dispatch, whoever made it, for any number of retries.
THEOREM Answered == SafeSpec => []AnsweredMeansDispatched
<1>1. Init => AnswerInv
  BY DEF Init, AnswerInv
<1>2. IInv /\ AnswerInv /\ [Next]_vars => AnswerInv'
  BY AnswerStep
<1>3. AnswerInv => AnsweredMeansDispatched
  BY DEF AnswerInv, AnsweredMeansDispatched, Dispatched
<1>4. QED
  BY <1>1, <1>2, <1>3, Invariance, PTL DEF SafeSpec

-----------------------------------------------------------------------------
(* Waiting.  A handler waits for the row of its device while it has locked *)
(* nothing, and auto-fix keeps no lock from one statement to the next: a   *)
(* circle of waiting handlers would need a third wait, for an alert row.   *)

\* The alert rows that resolve_all_for_device or update_detail writes are not
\* locked by another transaction.
NoSecondWait ==
    \A r \in Requests : pc[r] = "alerts" => \A a \in OpenOn(msg[r].row) : AlertFree(a)

\* Only a transition finds alerts.
FoundOnlyThen ==
    \A r \in Requests : found[r] # {} => pc[r] = "commit" /\ msg[r].kind = "transition"

LEMMA FoundOnlyStep ==
    ASSUME IInv, FoundOnlyThen, [Next]_vars PROVE FoundOnlyThen'
<1> USE DEF IInv, FoundOnlyThen, TypeOK, InTx
<1>1. ASSUME NEW r \in Requests, TakeMessage(r) \/ TouchRow(r) \/ Respond(r) PROVE FoundOnlyThen'
  BY <1>1 DEF TakeMessage, TouchRow, Respond
<1>2. ASSUME NEW r \in Requests, ResolveAll(r) \/ FindOpen(r) PROVE FoundOnlyThen'
  <2>1. /\ pc' = [pc EXCEPT ![r] = "commit"] /\ msg' = msg /\ msg[r].kind = "transition"
        /\ \A s \in Requests \ {r} : found'[s] = found[s]
    BY <1>2 DEF ResolveAll, FindOpen, Control
  <2> QED
    BY <2>1
<1>3. ASSUME NEW r \in Requests, Commit(r) \/ Reject(r) \/ Crash(r) PROVE FoundOnlyThen'
  BY <1>3 DEF Commit, Reject, Crash, EndOfTx
<1>4. ASSUME UNCHANGED ingestVars PROVE FoundOnlyThen'
  BY <1>4 DEF ingestVars
<1>5. QED
  BY <1>1, <1>2, <1>3, <1>4
     DEF Next, Ingest, AutoFix, AllEnded, vars, LookUp, GetAlert, SetActing, Dispatch,
         Remember, CrashFix, Authorize

\* No handler of ingest that has locked its row waits for another: there is no
\* deadlock on the tables, for any number of requests, devices and alerts.
THEOREM NoDeadlock == SafeSpec => []NoSecondWait
<1>1. Init => FoundOnlyThen
  BY DEF Init, FoundOnlyThen
<1>2. IInv /\ FoundOnlyThen => NoSecondWait
  <2> SUFFICES ASSUME IInv, FoundOnlyThen, NEW r \in Requests, pc[r] = "alerts",
                      NEW a \in OpenOn(msg[r].row), NEW s \in Requests, pc[s] = "commit",
                      a \in found[s]
               PROVE  FALSE
    BY DEF NoSecondWait, AlertFree
  <2>1. alerts[a].device = msg[r].row
    BY DEF OpenOn
  <2>2. alerts[a].device = msg[s].row
    BY DEF FoundOnlyThen, IInv, FoundHolds, FoundBy
  <2>3. msg[r].row # msg[s].row
    BY DEF IInv, RowLock, InTx
  <2> QED
    BY <2>1, <2>2, <2>3
<1>3. IInv /\ FoundOnlyThen /\ [Next]_vars => FoundOnlyThen'
  BY FoundOnlyStep
<1>4. QED
  BY <1>1, <1>2, <1>3, Invariance, PTL DEF SafeSpec

============================================================================
