\* Four messages, batches of two, small caps, one failure.
SPECIFICATION Spec
CONSTANTS
    Limit = 2
    PeriodicCap = 1
    OtherCap = 2
    ParkedCap = 1
    MaxRefusals = 2
    Parks = TRUE
    MaxRows = 4
    MaxFailures = 1
INVARIANTS
    TypeOK
    OldestFirst
    ParkedWasRefused
    OnlyOwnClassEvicts
PROPERTIES
    EverythingLeaves
    ImplementsAtLeastOnce
