\* Two requests of up to two messages on one device, and an auto-fix.
SPECIFICATION SafeSpec
CONSTANTS
    Requests = {r1, r2}
    Fixes = {f1}
    Keys = {k1}
    Devices = {d1}
    EdgeBox = edge
    Sent = {"healthy", "degraded"}
    MaxBatch = 2
    None = None
SYMMETRY Interchangeable
INVARIANTS
    TypeOK
    OneLiveAlertPerKind
    AlertsFollowTransitions
    OutboxMatchesAlerts
    RejectedLeavesNothing
PROPERTIES
    OnlyHealthyResolves
