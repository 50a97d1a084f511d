\* A device and the platform, two failures.  No symmetry: the platform is last.
SPECIFICATION Spec
CONSTANTS
    Devices = {d1, platform}
    Platform = platform
    Readings = {"healthy", "degraded"}
    MaxFailures = 2
    None = None
INVARIANTS
    TypeOK
    QueueFollowsStore
    OneAlarmPerAbsence
PROPERTIES
    GoneIsReported
