\* Three messages and one auto-fix request that overtakes a resolution.
SPECIFICATION SafeSpec
CONSTANTS
    Requests = {r1, r2, r3}
    Fixes = {f1}
    Keys = {k1}
    Devices = {d1}
    EdgeBox = edge
    Sent = {"healthy", "degraded"}
    MaxBatch = 1
    None = None
SYMMETRY Interchangeable
INVARIANTS
    OneOpenAlertPerKind
