SPECIFICATION Spec
CONSTANTS
    None = None
    o1 = o1
    o2 = o2
    s1 = s1
    s2 = s2
    seed = seed
    w1 = w1
    p1 = p1
    p2 = p2
    Orders = {o1}
    Sweepers = {s1}
    Seeders = {}
    Warehouses = {w1}
    Products = {p1, p2}
    MaxQuantity = 2
    Need <- OneNeed
    SeedOnHand <- OnHandFirst
    SeedReserved <- ReservedFirst
    Count <- CountLater
    Position <- ById
    MaxPosition = 2
    SeedList <- BySku
    SweepBatch = 2
INVARIANTS
    NoDeadlock
