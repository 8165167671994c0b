SPECIFICATION Spec
CONSTANTS
    near = near
    far = far
    twin = twin
    closed = closed
    p1 = p1
    p2 = p2
    ghost = ghost
    None = None
    Warehouses = {near, far, twin, closed}
    Active = {near, far, twin}
    Products = {p1, p2, ghost}
    Catalog = {p1, p2}
    Stock <- Rows
    Distance <- Metres
    Code <- Codes
    MaxInt = 2
    MaxLines = 2
    MaxQuantity = 3
    MaxUnits = 2
INVARIANTS
    TypeOK
PROPERTIES
    ChoosesNearestSupplier
    RefusesOnlyUnsuppliable
    
