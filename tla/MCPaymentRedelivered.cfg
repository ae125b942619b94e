SPECIFICATION Spec
CONSTANTS
    o1 = o1
    o2 = o2
    e1 = e1
    e2 = e2
    e3 = e3
    e4 = e4
    Orders = {o1}
    HttpOrders = {}
    PaymentIds = {p1, p2}
    EventIds = {e1}
    ReadyOrder <- AskedFor
    Unreadable = {}
    FreeOrders = {}
    Servers = {w1}
    NoOrder = NoOrder
    NoPayment = NoPayment
    SnapshotThreshold = 2
    MaxFailures = 1
SYMMETRY Symmetry
INVARIANTS
    ChargedOnce
