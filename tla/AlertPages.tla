----------------------------- MODULE AlertPages -----------------------------
(***************************************************************************)
(* Reading the alerts of a provider while they change: GET /v1/alerts and  *)
(* GET /v1/properties/{id}/alerts return pages cut by a cursor that holds  *)
(* the sort key of the last row, GET /v1/alerts/{id} returns the detail    *)
(* that was materialised when the alert was opened or last refreshed, with *)
(* the live state laid over it.  The writers are a health transition and   *)
(* auto-fix, each seen at its commit; AlertIngest looks inside them.       *)
(***************************************************************************)
EXTENDS Integers, FiniteSets

CONSTANTS
    AlertIds,       \* alert_id values: integers, for the order of the strings
    PageDevices,
    Properties,     \* property_id values of the envelopes
    Problems,       \* the statuses other than healthy that devices report
    Moments,        \* values of opened_at
    Limit,          \* limit
    Wanted,         \* the states asked for in status
    AllProperties,  \* the scope of GET /v1/alerts
    NoCursor

OpenStates == {"opened", "triaged", "acting"}
AlertStates == OpenStates \cup {"resolved"}

ASSUME AlertIdsAssumption == AlertIds \subseteq Int /\ IsFiniteSet(AlertIds)
ASSUME MomentsAssumption == Moments \subseteq Int
ASSUME DevicesAssumption == PageDevices # {} /\ Properties # {}
ASSUME ProblemsAssumption == Problems \subseteq {"unhealthy", "degraded", "unknown"}
ASSUME LimitAssumption == Limit \in Nat \ {0}
ASSUME WantedAssumption == Wanted \subseteq AlertStates     \* else VALIDATION_FAILED
ASSUME NoCursorAssumption == NoCursor \notin [rank : Int, opened : Int, id : Int]

VARIABLES
    alertState,     \* alerts.state, "absent" before the row is there
    alertDevice,    \* alerts.device_id
    alertProperty,  \* alerts.property_id
    correlation,    \* alerts.correlation_id: "first", or none
    severity,       \* alerts.severity
    kind,           \* alerts.alert_kind, named for the status it ends in
    openedAt,       \* alerts.opened_at
    detail,         \* alerts.detail_json
    walk,           \* a client that follows next_cursor: "idle", "more", "done"
    scope,          \* the property it asks about, or all of them
    cursor,
    page,           \* the page it got last
    seen,           \* those it got before
    steady          \* history: alerts it should see, throughout its walk

columns == <<alertDevice, alertProperty, correlation, severity, kind, openedAt>>
tableVars == <<alertState, columns, detail>>
walkVars == <<walk, scope, cursor, page, seen>>
pageVars == <<tableVars, walkVars, steady>>

-----------------------------------------------------------------------------
(* Writers.                                                                *)

SeverityForTransition(status) ==
    IF status = "unhealthy" THEN "p1" ELSE IF status = "degraded" THEN "p2"
    ELSE IF status = "healthy" THEN "p4" ELSE "p3"

\* materialize_alert_from_transition, as far as columns of the row repeat it.
\* Each time correlation_id is a new one: "first" with the row, "later" after.
\* The causal chain, the series and the reasoning are taken from the message.
Materialize(d, property, status, opened, corr) ==
    [severity |-> SeverityForTransition(status), kind |-> status, device |-> d,
     property |-> property, correlation |-> corr, state |-> "opened", opened |-> opened]

Present == {a \in AlertIds : alertState[a] # "absent"}
OpenAlertsOf(d) == {a \in Present : alertDevice[a] = d /\ alertState[a] \in OpenStates}

\* Mutant of FoundOpen: any open alert of the device will do.
FoundOpenAny(d, status) ==
    {a \in OpenAlertsOf(d) : \A b \in OpenAlertsOf(d) : openedAt[b] <= openedAt[a]}

\* find_open_for_device: the latest open alert of that kind, if there is one.
FoundOpen(d, status) ==
    LET same == {a \in OpenAlertsOf(d) : kind[a] = status}
    IN  {a \in same : \A b \in same : openedAt[b] <= openedAt[a]}

\* Every row that a walk in this scope would show.
MatchingIn(where, states) ==
    {a \in Present : /\ states[a] \in Wanted
                     /\ where = AllProperties \/ alertProperty[a] = where}

\* What stops to match is no longer owed to the client.
Unsettle == steady' = {a \in steady : alertState'[a] \in Wanted}

Recover(d) ==
    /\ alertState' = [a \in AlertIds |->
                        IF a \in OpenAlertsOf(d) THEN "resolved" ELSE alertState[a]]
    /\ Unsettle
    /\ UNCHANGED <<columns, detail, walkVars>>

\* The alert is found by its device, whatever property the envelope names, and
\* of its columns none but the summary is written with the detail.
Refresh(d, property, status) ==
    \E a \in FoundOpen(d, status) :
        /\ detail' = [detail EXCEPT ![a] =
                        Materialize(d, property, status, openedAt[a], "later")]
        /\ UNCHANGED <<alertState, columns, walkVars, steady>>

\* alert_id is random, and now is when the batch arrived: neither needs to be
\* later than those of the rows there are.
Open(d, property, status) ==
    /\ FoundOpen(d, status) = {}
    /\ \E a \in AlertIds \ Present, now \in Moments :
        /\ alertState' = [alertState EXCEPT ![a] = "opened"]
        /\ alertDevice' = [alertDevice EXCEPT ![a] = d]
        /\ alertProperty' = [alertProperty EXCEPT ![a] = property]
        /\ correlation' = [correlation EXCEPT ![a] = "first"]
        /\ severity' = [severity EXCEPT ![a] = SeverityForTransition(status)]
        /\ kind' = [kind EXCEPT ![a] = status]
        /\ openedAt' = [openedAt EXCEPT ![a] = now]
        /\ detail' = [detail EXCEPT ![a] = Materialize(d, property, status, now, "first")]
    /\ UNCHANGED <<walkVars, steady>>

\* auto-fix makes whatever it is asked for "acting", a resolved alert too.
ActOn(a) ==
    /\ a \in Present
    /\ alertState' = [alertState EXCEPT ![a] = "acting"]
    /\ Unsettle
    /\ UNCHANGED <<columns, detail, walkVars>>

-----------------------------------------------------------------------------
(* Pages.                                                                  *)

SevRank(a) == IF severity[a] = "p1" THEN 1 ELSE IF severity[a] = "p2" THEN 2
              ELSE IF severity[a] = "p3" THEN 3 ELSE 4

\* ORDER BY sev_rank ASC, opened_at DESC, alert_id DESC
ComesBefore(a, b) ==
    \/ SevRank(a) < SevRank(b)
    \/ SevRank(a) = SevRank(b) /\ openedAt[a] > openedAt[b]
    \/ SevRank(a) = SevRank(b) /\ openedAt[a] = openedAt[b] /\ a > b

EncodeCursor(a) == [rank |-> SevRank(a), opened |-> openedAt[a], id |-> a]

\* Mutant of BeyondCursor: the row of the cursor is let in again.
BeyondCursorOrAt(a) ==
    \/ cursor = NoCursor
    \/ SevRank(a) > cursor.rank
    \/ SevRank(a) = cursor.rank /\ openedAt[a] < cursor.opened
    \/ SevRank(a) = cursor.rank /\ openedAt[a] = cursor.opened /\ a <= cursor.id

\* Mutant of BeyondCursor: rows opened at the same time are taken for one.
BeyondCursorUntied(a) ==
    \/ cursor = NoCursor
    \/ SevRank(a) > cursor.rank
    \/ SevRank(a) = cursor.rank /\ openedAt[a] < cursor.opened

\* The cursor clause.
BeyondCursor(a) ==
    \/ cursor = NoCursor
    \/ SevRank(a) > cursor.rank
    \/ SevRank(a) = cursor.rank /\ openedAt[a] < cursor.opened
    \/ SevRank(a) = cursor.rank /\ openedAt[a] = cursor.opened /\ a < cursor.id

Candidates == {a \in MatchingIn(scope, alertState) : BeyondCursor(a)}

\* Mutant of IsFetched: the LIMIT is lost.
IsFetchedAll(rows) == rows = Candidates

\* ORDER BY ... LIMIT limit + 1
IsFetched(rows) ==
    /\ \A a \in rows, b \in Candidates : ComesBefore(b, a) => b \in rows
    /\ Cardinality(rows) = Limit + 1 \/ (rows = Candidates /\ Cardinality(rows) <= Limit)

IsLast(a, rows) == a \in rows /\ \A b \in rows \ {a} : ComesBefore(b, a)

StartWalk(where) ==
    /\ scope' = where /\ walk' = "more" /\ cursor' = NoCursor
    /\ page' = {} /\ seen' = {}
    /\ steady' = MatchingIn(where, alertState)
    /\ UNCHANGED tableVars

\* The row that was fetched in addition tells that there is more, and is cut off.
NextPage ==
    /\ walk = "more"
    /\ seen' = seen \cup page
    /\ \E rows \in SUBSET Candidates :
        /\ IsFetched(rows)
        /\ \/ /\ Cardinality(rows) <= Limit
              /\ page' = rows /\ walk' = "done" /\ UNCHANGED cursor
           \/ \E extra \in rows, last \in rows :
              /\ Cardinality(rows) > Limit
              /\ IsLast(extra, rows) /\ IsLast(last, rows \ {extra})
              /\ page' = rows \ {extra} /\ walk' = "more"
              /\ cursor' = EncodeCursor(last)
    /\ UNCHANGED <<tableVars, scope, steady>>

\* GET /v1/alerts/{id}, and each item of the list of a property.
AlertResponse(a) == [detail[a] EXCEPT !.state = alertState[a]]

-----------------------------------------------------------------------------
Scopes == Properties \cup {AllProperties}

NoDetail == [severity |-> "none", kind |-> "none", device |-> "none", property |-> "none",
             correlation |-> "none", state |-> "none", opened |-> 0]

PagesInit ==
    /\ alertState = [a \in AlertIds |-> "absent"]
    /\ alertDevice = [a \in AlertIds |-> CHOOSE d \in PageDevices : TRUE]
    /\ alertProperty = [a \in AlertIds |-> CHOOSE p \in Properties : TRUE]
    /\ correlation = [a \in AlertIds |-> "none"]
    /\ severity = [a \in AlertIds |-> "none"]
    /\ kind = [a \in AlertIds |-> "none"]
    /\ openedAt = [a \in AlertIds |-> 0]
    /\ detail = [a \in AlertIds |-> NoDetail]
    /\ walk = "idle" /\ scope = AllProperties /\ cursor = NoCursor
    /\ page = {} /\ seen = {} /\ steady = {}

Write ==
    \/ \E d \in PageDevices : Recover(d)
    \/ \E d \in PageDevices, property \in Properties, status \in Problems :
          Refresh(d, property, status) \/ Open(d, property, status)
    \/ \E a \in AlertIds : ActOn(a)

PagesNext == Write \/ NextPage \/ \E where \in Scopes : StartWalk(where)

PagesSpec == PagesInit /\ [][PagesNext]_pageVars

-----------------------------------------------------------------------------
(* Properties.                                                             *)

\* Every value has its type, and no page is longer than was asked for.
PagesTypeOK ==
    /\ alertState \in [AlertIds -> AlertStates \cup {"absent"}]
    /\ alertDevice \in [AlertIds -> PageDevices]
    /\ alertProperty \in [AlertIds -> Properties]
    /\ correlation \in [AlertIds -> {"none", "first"}]
    /\ severity \in [AlertIds -> {"none", "p1", "p2", "p3", "p4"}]
    /\ kind \in [AlertIds -> Problems \cup {"none"}]
    /\ openedAt \in [AlertIds -> Moments \cup {0}]
    /\ walk \in {"idle", "more", "done"} /\ scope \in Scopes
    /\ cursor \in [rank : 1..4, opened : Moments \cup {0}, id : AlertIds] \cup {NoCursor}
    /\ page \subseteq AlertIds /\ seen \subseteq AlertIds /\ steady \subseteq AlertIds
    /\ Cardinality(page) <= Limit

\* No alert falls between two pages: one that matched from the first request
\* of a walk to the last has been on a page, whatever was opened, refreshed,
\* resolved or acted on around it.
PagesSkipNothing == walk = "done" => steady \subseteq seen \cup page

\* No alert is on two pages of a walk, not even one that was resolved and
\* taken up again by auto-fix in between.
PagesRepeatNothing == page \cap seen = {}

\* What GET says of an alert's severity, kind, device, state and opening is
\* what its row says, though the detail was written by another transition of
\* the device, which may have been to another status, and the row has been
\* updated since.  It need not say the property and the correlation_id of the
\* row, and of the property only where the correlation_id tells of a refresh.
DetailTellsTheAlert ==
    \A a \in Present :
        LET r == AlertResponse(a) IN
        /\ r.severity = severity[a] /\ r.kind = kind[a] /\ r.device = alertDevice[a]
        /\ r.state = alertState[a] /\ r.opened = openedAt[a]
        /\ r.property # alertProperty[a] => r.correlation # correlation[a]
=============================================================================
