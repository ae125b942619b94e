SPECIFICATION FairSpec
CONSTANTS
    o1 = o1
    o2 = o2
    p1 = p1
    p2 = p2
    Orders = {o1, o2}
    Products = {p1, p2}
    Lines <- CrossedLines
    Initial <- Tight
    Txs = {t1, t2}
    Nobody = Nobody
    NoCall = NoCall
    Copies = {1}
    Arriving <- Calls
INVARIANTS
    TypeOK
    StockAddsUp
    WholeOrderAnnouncedOnce
PROPERTIES
    ReservationsSettle
    CallsEnd
