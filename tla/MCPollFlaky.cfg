\* One device and the platform; the claim about flaky responses.
SPECIFICATION SafeSpec
CONSTANTS
    Devices = {d1, platform}
    Platform = platform
    Readings = {"healthy"}
    MaxFailures = 2
    None = None
INVARIANTS
    FlakyReportRaisesNoAlarm
