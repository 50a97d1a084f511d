\* Expected to fail: a lone dashboard, cut off within the window.
SPECIFICATION SafeSpec
CONSTANTS
    dashboard = dashboard
    page = page
    Clients = {dashboard}
    Conns = {k1, k2}
    Workers = {w1}
    Filter <- MCFilter
    Messages <- MCMessages
    Window = 5
    MaxEvents = 2
    MaxTime = 1
    None = None
SYMMETRY Interchangeable
INVARIANTS
    ReplayIsComplete
