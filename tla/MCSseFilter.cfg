\* Expected to fail: the page of a property.
SPECIFICATION SafeSpec
CONSTANTS
    dashboard = dashboard
    page = page
    Clients = {page}
    Conns = {k1}
    Workers = {w1}
    Filter <- MCFilter
    Messages <- MCMessages
    Window = 0
    MaxEvents = 2
    MaxTime = 1
    None = None
SYMMETRY Interchangeable
INVARIANTS
    PropertyIsFollowed
