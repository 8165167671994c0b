SPECIFICATION FairSpec
CONSTANTS
    None = None
    r1 = r1
    r2 = r2
    r3 = r3
    r4 = r4
    r5 = r5
    k1 = k1
    k2 = k2
    k3 = k3
    k4 = k4
    b1 = b1
    b2 = b2
    b3 = b3
    b4 = b4
    b5 = b5
    w1 = w1
    w2 = w2
    p1 = p1
    p2 = p2
    p3 = p3
    Requests = {r1, r2, r3}
    Keys = {k1}
    Bodies = {b1}
    Warehouses = {w1}
    Products = {p1}
    MaxQuantity = 1
    KeyOf <- RetriesKeyOf
    BodyOf <- RetriesBodyOf
    Basket <- RetriesBasket
    Nearness <- W1First
    UnknownBuyer = {}
    Catalog = {p1}
    PriceOf <- Unit
    CurrencyOf <- Euro
    OnHand <- RetriesOnHand
    SeedReserved <- RetriesSeed
    SweepBatch = 1
    LongPending = {r1, r2, r3}
PROPERTIES
    EveryRequestAnswered
    LapsedStockComesBack
