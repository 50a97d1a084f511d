\* Two requests on one device and two attempts of an auto-fix: no symmetry,
\* which is not sound for liveness.
SPECIFICATION Spec
CONSTANTS
    Requests = {r1, r2}
    Fixes = {f1, f2}
    Keys = {k1}
    Devices = {d1}
    EdgeBox = edge
    Sent = {"healthy", "degraded"}
    MaxBatch = 1
    None = None
INVARIANTS
    AnsweredMeansDispatched
PROPERTIES
    RequestsEnd
