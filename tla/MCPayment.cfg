SPECIFICATION FairSpec
CONSTANTS
    o1 = o1
    o2 = o2
    e1 = e1
    e2 = e2
    e3 = e3
    e4 = e4
    Orders = {o1, o2}
    HttpOrders = {o1}
    PaymentIds = {p1, p2}
    EventIds = {e1, e2, e3, e4}
    ReadyOrder <- AskedFor
    Unreadable = {e4}
    FreeOrders = {o2}
    Servers = {w1, w2}
    NoOrder = NoOrder
    NoPayment = NoPayment
    SnapshotThreshold = 2
    MaxFailures = 1
INVARIANTS
    TypeOK
    BooksAgree
    ClaimsAreRecorded
PROPERTIES
    ReadyIsAnswered
