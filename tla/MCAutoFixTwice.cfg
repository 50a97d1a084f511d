\* One alert and two attempts with one key.
SPECIFICATION SafeSpec
CONSTANTS
    Requests = {r1}
    Fixes = {f1, f2}
    Keys = {k1}
    Devices = {d1}
    EdgeBox = edge
    Sent = {"healthy", "degraded"}
    MaxBatch = 1
    None = None
SYMMETRY Interchangeable
INVARIANTS
    OneDispatchPerKey
