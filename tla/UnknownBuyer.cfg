SPECIFICATION Spec
CONSTANTS
    None = None
    r1 = r1
    r2 = r2
    r3 = r3
    r4 = r4
    r5 = r5
    k1 = k1
    k2 = k2
    k3 = k3
    k4 = k4
    b1 = b1
    b2 = b2
    b3 = b3
    b4 = b4
    b5 = b5
    w1 = w1
    w2 = w2
    p1 = p1
    p2 = p2
    p3 = p3
    Requests = {r1, r2, r3, r4, r5}
    Keys = {k1, k2, k3, k4}
    Bodies = {b1, b2, b3, b4, b5}
    Warehouses = {w1}
    Products = {p1, p2, p3}
    MaxQuantity = 1
    KeyOf <- RefusedKeyOf
    BodyOf <- RefusedBodyOf
    Basket <- RefusedBasket
    Nearness <- W1First
    UnknownBuyer = {b3}
    Catalog = {p1, p2}
    PriceOf <- RefusedPriceOf
    CurrencyOf <- RefusedCurrencyOf
    OnHand <- RefusedOnHand
    SeedReserved <- RefusedSeed
    SweepBatch = 2
    LongPending = {r1, r2, r3, r4, r5}
INVARIANT UnknownBuyerIsTold
