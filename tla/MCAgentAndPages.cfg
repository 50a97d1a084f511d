SPECIFICATION MCSpec
CONSTANTS
    Devices = {"d1"}
    DeviceMap <- MCDeviceMap
    Datagrams <- MCDatagrams
    Window = 2
    Stale = 1
    Dedup = 2
    MaxDelay = 1
    MaxPeriodicRows = 1
    MaxOtherRows = 1
    BatchSize = 1
    MaxTroubles = 1
    Never = Never
    AlertIds = {1, 2, 3}
    PageDevices = {"d1"}
    Properties = {"p1", "p2"}
    Problems = {"unhealthy", "unknown"}
    Moments = {1, 2}
    Limit = 1
    Wanted = {"opened", "acting"}
    AllProperties = AllProperties
    NoCursor = NoCursor
INVARIANTS
    SyslogTypeOK
    BurstCountsOnce
    TransitionsTellStatus
    PagesTypeOK
    PagesSkipNothing
    PagesRepeatNothing
    DetailTellsTheAlert
PROPERTIES
    SilentIsReported
