----------------------------- MODULE EstateView -----------------------------
(***************************************************************************)
(* GET /v1/estate and GET /v1/properties/{id}.  Each puts its answer       *)
(* together from several queries that see what is committed when they run, *)
(* while the ingest of edge messages changes devices, alerts and edge      *)
(* boxes between one query and the next.                                   *)
(***************************************************************************)
EXTENDS Integers, Sequences, FiniteSets, FiniteSetsExt

CONSTANTS
    SitesByName,    \* the properties of the provider, ORDER BY name
    NameRank,       \* the place of each one's name in the order of Python's strings
    SiteDevices,    \* device_id values
    EdgeBoxes,      \* edge_id values
    SiteOf,         \* the property of each device and edge box
    Reports,        \* health as devices report it: status and score
    Lags,           \* ages a heartbeat may have when a view is asked for
    BoxInterval,    \* summary_interval_seconds of each box's row
    AlertRows,           \* the alerts of one device and severity, by number
    MaxWrites,      \* bound on what is committed during one request
    NotThere,       \* no such row
    NoScore         \* health_score is NULL

Severities == {"p1", "p2", "p3", "p4"}
Orders == {"worst_first", "name_asc"}
HealthStatus == {"unhealthy", "degraded", "healthy", "unknown"}
Sites == {SitesByName[i] : i \in DOMAIN SitesByName}

\* The rows of a table are finitely many, and no property is in the list twice.
ASSUME SitesAssumption ==
    /\ SitesByName \in Seq(Sites)
    /\ \A i, j \in DOMAIN SitesByName : SitesByName[i] = SitesByName[j] => i = j
    /\ IsFiniteSet(SiteDevices) /\ IsFiniteSet(EdgeBoxes)
    /\ IsFiniteSet(AlertRows)
    /\ \A x \in SiteDevices \cup EdgeBoxes : SiteOf[x] \in Sites
ASSUME NamesAssumption == NameRank \in [Sites -> Nat]
ASSUME NoRowAssumption == NotThere \notin SiteDevices \X Severities \X AlertRows
ASSUME ReportsAssumption ==
    Reports \subseteq [status : HealthStatus, score : 0..100 \cup {NoScore}]
ASSUME BeatsAssumption == Lags \subseteq Nat /\ BoxInterval \in [EdgeBoxes -> Nat \ {0}]

VARIABLES
    deviceHealth,   \* health_status and health_score of each device
    openAlerts,     \* open alerts: device, severity and number
    lag,            \* age of last_heartbeat_at
    view,           \* "none", "estate" or "property", while it is put together
    order,          \* the sort that was asked for
    stage,          \* the query that comes next
    pending,        \* properties still to be read
    draft,          \* the tile being filled in
    tiles,          \* those that are ready
    response,       \* the last answer
    writes          \* history: commits since the request began

dataVars == <<deviceHealth, openAlerts, lag>>
requestVars == <<view, order, stage, pending, draft, tiles, response>>
estateVars == <<dataVars, requestVars, writes>>

-----------------------------------------------------------------------------
(* Writers, at their commit.                                               *)

\* A commit that changes nothing makes no difference to any query.
Committed == /\ view # "none" /\ writes < MaxWrites
             /\ dataVars' # dataVars /\ writes' = writes + 1 /\ UNCHANGED requestVars

SeverityFor(status) ==
    CASE status = "unhealthy" -> "p1" [] status = "degraded" -> "p2" [] OTHER -> "p3"

\* A summary sets health; a transition resolves the device's alerts with it, or
\* opens one unless one of the kind, which has the same severity, is open.
HealthReport(d, report) ==
    /\ deviceHealth' = [deviceHealth EXCEPT ![d] = report]
    /\ \/ UNCHANGED openAlerts
       \/ report.status = "healthy" /\ openAlerts' = {a \in openAlerts : a[1] # d}
       \/ LET severity == SeverityFor(report.status) IN
          /\ report.status # "healthy"
          /\ \A a \in openAlerts : a[1] = d => a[2] # severity
          /\ \E n \in AlertRows : openAlerts' = openAlerts \cup {<<d, severity, n>>}
    /\ UNCHANGED lag /\ Committed

\* auto_fix() writes 'acting' into an alert that has been resolved meanwhile, so
\* two of one kind can be open.
Reopen(a) ==
    /\ deviceHealth[a[1]] # NotThere
    /\ openAlerts' = openAlerts \cup {a}
    /\ UNCHANGED <<deviceHealth, lag>> /\ Committed

\* upsert_edge_box: the interval of a row that is there is kept.  The moment is
\* the box's own, of when the message was queued, and may be long past.
Heartbeat(b) ==
    /\ \E age \in Lags \cup {0} : lag' = [lag EXCEPT ![b] = age]
    /\ UNCHANGED <<deviceHealth, openAlerts>> /\ Committed

-----------------------------------------------------------------------------
(* property_health_score.                                                  *)

DevicesOf(site) == {d \in SiteDevices : SiteOf[d] = site /\ deviceHealth[d] # NotThere}

PropertyStatus(devices) ==
    LET statuses == {deviceHealth[d].status : d \in devices} IN
    IF devices = {} THEN "unknown"
    ELSE IF "unhealthy" \in statuses THEN "unhealthy"
    ELSE IF "degraded" \in statuses THEN "degraded"
    ELSE IF statuses = {"healthy"} THEN "healthy"
    ELSE "degraded"

Ceiling(status) == CASE status = "unhealthy" -> 40 [] status = "degraded" -> 70
                     [] status = "healthy" -> 100 [] OTHER -> 60

PropertyScore(devices) ==
    LET scored == {d \in devices : deviceHealth[d].score # NoScore}
        ceiling == Ceiling(PropertyStatus(devices))
        average == MapThenSumSet(LAMBDA d : deviceHealth[d].score, scored)
                       \div Cardinality(scored)
    IN  IF devices = {} THEN 0
        ELSE IF scored = {} \/ average > ceiling THEN ceiling
        ELSE average

-----------------------------------------------------------------------------
(* The queries.                                                            *)

AlertsAt(site) == {a \in openAlerts : SiteOf[a[1]] = site}
SeverityRank(s) == CASE s = "p1" -> 1 [] s = "p2" -> 2 [] s = "p3" -> 3 [] OTHER -> 4

CountBySeverity(site) ==
    [s \in Severities |-> Cardinality({a \in AlertsAt(site) : a[2] = s})]

\* Mutant of WorstOpen: the ORDER BY is lost.
WorstOpenAny(site) == AlertsAt(site)

WorstOpen(site) ==
    {a \in AlertsAt(site) : \A b \in AlertsAt(site) : SeverityRank(a[2]) <= SeverityRank(b[2])}

BoxesOf(site) == {b \in EdgeBoxes : SiteOf[b] = site /\ lag[b] # NotThere}
\* Mutant of NewestBoxes: the ORDER BY is lost.
NewestBoxesAny(site) == BoxesOf(site)

NewestBoxes(site) == {b \in BoxesOf(site) : \A c \in BoxesOf(site) : lag[b] <= lag[c]}
IsOnline(b) == lag[b] <= 2 * BoxInterval[b]

\* began and ended are history: the commits before a tile's first query and
\* before its last.
EmptyDraft == [site |-> NotThere, status |-> "unknown", score |-> 0,
               counts |-> [s \in Severities |-> 0], worst |-> NotThere,
               boxes |-> {}, online |-> {}, began |-> 0, ended |-> 0]

Ask(what, sites, sort) ==
    /\ view = "none"
    /\ view' = what /\ order' = sort /\ stage' = "devices" /\ pending' = sites
    /\ draft' = EmptyDraft /\ tiles' = <<>> /\ response' = NotThere /\ writes' = 0
    /\ UNCHANGED dataVars

Reading(s) == /\ view # "none" /\ stage = s /\ pending # <<>>
              /\ UNCHANGED <<dataVars, view, order, response, writes>>

ReadDevices ==
    /\ Reading("devices")
    /\ LET devices == DevicesOf(Head(pending)) IN
       draft' = [EmptyDraft EXCEPT !.site = Head(pending), !.status = PropertyStatus(devices),
                                   !.score = PropertyScore(devices), !.began = writes]
    /\ stage' = "counts"
    /\ UNCHANGED <<pending, tiles>>

CountAlerts ==
    /\ Reading("counts")
    /\ draft' = [draft EXCEPT !.counts = CountBySeverity(Head(pending))]
    /\ stage' = IF view = "estate" THEN "worst" ELSE "boxes"
    /\ UNCHANGED <<pending, tiles>>

\* Only the tile of the estate has a line for the worst alert.
ReadWorst ==
    /\ Reading("worst")
    /\ \/ WorstOpen(Head(pending)) = {} /\ UNCHANGED draft
       \/ \E a \in WorstOpen(Head(pending)) : draft' = [draft EXCEPT !.worst = a]
    /\ stage' = "boxes"
    /\ UNCHANGED <<pending, tiles>>

\* The estate shows the box heard from last, a property all it has.
ReadBoxes ==
    /\ Reading("boxes")
    /\ \E boxes \in IF view = "property" THEN {BoxesOf(Head(pending))}
                    ELSE IF BoxesOf(Head(pending)) = {} THEN {{}}
                    ELSE {{b} : b \in NewestBoxes(Head(pending))} :
         tiles' = Append(tiles, [draft EXCEPT !.boxes = boxes,
                                              !.online = {b \in boxes : IsOnline(b)},
                                              !.ended = writes])
    /\ stage' = "devices" /\ pending' = Tail(pending) /\ draft' = EmptyDraft

\* worst_first: a site without an urgent alert comes after all that have one.
TileKey(t, sort) ==
    IF sort = "name_asc" THEN NameRank[t.site]
    ELSE IF t.counts["p1"] = 0 THEN 1000 + t.score ELSE t.score

\* tiles.sort(key = ...): stable, so tiles with equal keys stay as they were read.
Sorted(ts, sort) ==
    LET key(i) == TileKey(ts[i], sort)
        before(i) == {j \in DOMAIN ts : key(j) < key(i) \/ (key(j) = key(i) /\ j < i)}
    IN  [n \in DOMAIN ts |-> ts[CHOOSE i \in DOMAIN ts : Cardinality(before(i)) = n - 1]]

\* The strip at the top adds up what the tiles show.
KpiStrip(ts) ==
    [score |-> IF ts = <<>> THEN 0
               ELSE MapThenSumSet(LAMBDA i : ts[i].score, DOMAIN ts) \div Len(ts),
     online |-> Cardinality({i \in DOMAIN ts : ts[i].online # {}}),
     total |-> Len(ts),
     alerts |-> [s \in Severities |-> MapThenSumSet(LAMBDA i : ts[i].counts[s], DOMAIN ts)]]

Respond ==
    /\ view # "none" /\ pending = <<>>
    /\ response' = [of |-> view, sort |-> order, tiles |-> Sorted(tiles, order),
                    strip |-> KpiStrip(tiles)]
    /\ view' = "none" /\ order' = "worst_first" /\ stage' = "devices"
    /\ tiles' = <<>> /\ draft' = EmptyDraft
    /\ UNCHANGED <<dataVars, pending, writes>>

-----------------------------------------------------------------------------
Problematic == {d \in SiteDevices : deviceHealth[d] \in {r \in Reports : r.status # "healthy"}}

\* What ingest has left behind: a device with a problem may have an alert of it.
EstateInit ==
    /\ deviceHealth \in [SiteDevices -> Reports \cup {NotThere}]
    /\ openAlerts \in SUBSET {<<d, SeverityFor(deviceHealth[d].status), n>> :
                               d \in Problematic, n \in AlertRows}
    /\ lag \in [EdgeBoxes -> Lags \cup {NotThere}]
    /\ view = "none" /\ order = "worst_first" /\ stage = "devices" /\ pending = <<>>
    /\ draft = EmptyDraft /\ tiles = <<>> /\ response = NotThere /\ writes = 0

EstateNext ==
    \/ \E d \in SiteDevices, report \in Reports : HealthReport(d, report)
    \/ \E b \in EdgeBoxes : Heartbeat(b)
    \/ \E d \in SiteDevices, report \in Reports, n \in AlertRows :
          report.status # "healthy" /\ Reopen(<<d, SeverityFor(report.status), n>>)
    \/ \E sort \in Orders : Ask("estate", SitesByName, sort)
    \/ \E site \in Sites : Ask("property", <<site>>, "worst_first")
    \/ ReadDevices \/ CountAlerts \/ ReadWorst \/ ReadBoxes \/ Respond

EstateSpec == EstateInit /\ [][EstateNext]_estateVars

-----------------------------------------------------------------------------
(* Properties.                                                             *)

HasUnhealthy(site) == \E d \in DevicesOf(site) : deviceHealth[d].status = "unhealthy"
AllHealthy(site) == \A d \in DevicesOf(site) : deviceHealth[d].status = "healthy"

\* What an answer shows of a site is one picture of the database, unless
\* something was committed since the site's first query: the status is that of
\* its worst device, the numbers are those of its open alerts, the alert named is
\* one of them, no box was heard from after the one shown, and the site is online
\* if a box shown is.  The strip adds the numbers of the sites shown up.
QuietAnswerIsTrue ==
    response # NotThere =>
        LET covered == {response.tiles[i].site : i \in DOMAIN response.tiles}
            OpenIn(sites, s) == {a \in openAlerts : SiteOf[a[1]] \in sites /\ a[2] = s}
        IN
        /\ writes = 0 => \A s \in Severities :
             response.strip.alerts[s] = Cardinality(OpenIn(covered, s))
        /\ \A i \in DOMAIN response.tiles :
             LET t == response.tiles[i] IN
             t.began = writes =>
               /\ (t.status = "unhealthy") = HasUnhealthy(t.site)
               /\ (t.status = "healthy") = (DevicesOf(t.site) # {} /\ AllHealthy(t.site))
               /\ (t.status = "unknown") = (DevicesOf(t.site) = {})
               /\ \A s \in Severities : t.counts[s] = Cardinality(OpenIn({t.site}, s))
               /\ t.worst # NotThere => t.worst \in OpenIn({t.site}, t.worst[2])
               /\ (t.online # {}) = (\E b \in t.boxes : lag[b] <= 2 * BoxInterval[b])
               /\ \A b \in EdgeBoxes : SiteOf[b] = t.site /\ lag[b] # NotThere =>
                    \E c \in t.boxes : lag[c] <= lag[b]

\* The alert a tile names is as bad as any it counts, and it names one if it
\* counts one.
WorstAgrees(t) ==
    /\ (t.worst = NotThere) = (\A s \in Severities : t.counts[s] = 0)
    /\ t.worst # NotThere =>
         /\ t.counts[t.worst[2]] > 0
         /\ \A s \in Severities : t.counts[s] > 0 => SeverityRank(t.worst[2]) <= SeverityRank(s)

\* Whatever is committed while it is put together, the answer for the estate
\* shows every site once, and in the order asked for by the numbers it shows.  A
\* tile can name no alert and count one, or the other way round, but only if
\* something was committed between its own queries.
AnswerIsCoherent ==
    response # NotThere /\ response.of = "estate" =>
        LET t == response.tiles IN
        /\ {t[i].site : i \in DOMAIN t} = Sites /\ Len(t) = Cardinality(Sites)
        /\ \A i \in DOMAIN t : t[i].began = t[i].ended => WorstAgrees(t[i])
        /\ \A i, j \in DOMAIN t : i < j =>
             \/ /\ response.sort = "name_asc"
                /\ NameRank[t[i].site] <= NameRank[t[j].site]
             \/ /\ response.sort = "worst_first"
                /\ t[j].counts["p1"] > 0 => t[i].counts["p1"] > 0
                /\ (t[i].counts["p1"] > 0) = (t[j].counts["p1"] > 0) => t[i].score <= t[j].score
=============================================================================
