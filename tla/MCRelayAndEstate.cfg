\* The relay: two workers, three rows, batches of two and one failure.  No
\* symmetry, which is not sound for liveness.
SPECIFICATION MCSpec
CONSTANTS
    Rows = {r1, r2, r3}
    Pollers = {p1, p2}
    Limit = 2
    MaxFailures = 1
    SitesByName <- MCSites
    NameRank <- MCNameRank
    AlertRows = {1, 2}
    SiteDevices = {"d1", "d2"}
    EdgeBoxes = {"e1", "e2"}
    SiteOf <- MCSiteOf
    Reports <- MCReports
    Lags = {3}
    BoxInterval <- MCInterval
    MaxWrites = 1
    NotThere = NotThere
    NoScore = NoScore
    HwItems = {"PSU1", "Fan1"}
    HwSeen = {"null", "true", "false", "text with a bad word"}
    Ports = {"1", "2"}
    PortRecords <- MCPortRecords
    Readings = {60, 80}
    Identities <- MCIdentities
    Counts = {0, 7}
    Shares = {5, 50}
    Ages <- MCAges
    TempWarn = 55
    TempCrit = 70
    FlapWindow = 900
    FlapMin = 2
    RxWarn <- MCRxWarn
    FreeWarn = 15
    ExpiryWindow = 2592000
    Unread = Unread
    NoMessage = NoMessage
INVARIANTS
    TypeOK
    OncePerFailure
    PublishedIsOver
    QuietAnswerIsTrue
    AnswerIsCoherent
    MapperTypeOK
    CauseIsNamed
PROPERTIES
    ImplementsDelivery
    EveryRowIsPublished
    WorseLooksWorse
