\* A dashboard and a property page, two events, one worker, a short window.
SPECIFICATION SafeSpec
CONSTANTS
    dashboard = dashboard
    page = page
    Clients = {dashboard, page}
    Conns = {k1, k2}
    Workers = {w1}
    Filter <- MCFilter
    Messages <- MCMessages
    Window = 0
    MaxEvents = 2
    MaxTime = 1
    None = None
SYMMETRY Interchangeable
INVARIANTS
    TypeOK
    OnlyWhatWasAskedFor
    NoGapWhileConnected
PROPERTIES
    ReplaySkipsNothing
