------------------------- MODULE WarehouseSelection -------------------------
(***************************************************************************)
(* How a basket finds its warehouse: the checks of the request schema      *)
(* (app/schemas/order.py), then the statements of                          *)
(* app/services/warehouse_selection.py and app/repositories/warehouse.py   *)
(* one after the other, each with its own view of an inventory that other  *)
(* transactions keep changing (READ COMMITTED, no locks).                  *)
(*                                                                         *)
(* A basket is what the client sent, a list of lines, which may name a     *)
(* product twice, ask for nothing or for more than a column can hold.      *)
(* pc names the next statement: "validate", "products", "geocode",         *)
(* "select", "count"; then the basket is "selected" or "refused".          *)
(*                                                                         *)
(* A definition whose name starts with Bug is a slip the code could have   *)
(* made in the definition that follows it.  No action uses it.             *)
(***************************************************************************)
EXTENDS Integers, FiniteSets, Sequences

CONSTANTS
    Warehouses,
    Active,         \* the warehouses with is_active
    Products,       \* product ids a client may name
    Catalog,        \* the rows of products
    Stock,          \* (warehouse_id, product_id) of the rows of inventory
    Distance,       \* of a warehouse from the address, in metres
    Code,           \* warehouses.code, as its rank among the codes
    None,           \* no warehouse
    MaxInt,         \* the largest value of an INTEGER column
    MaxLines,       \* bound on the length of a basket
    MaxQuantity,    \* bound on the quantities a client may send
    MaxUnits        \* bound on the available units of an inventory row

ASSUME SelectionAssumption ==
    /\ Active \subseteq Warehouses /\ None \notin Warehouses
    /\ Catalog \subseteq Products /\ Stock \subseteq Warehouses \X Catalog
    /\ Distance \in [Warehouses -> Nat]
    /\ Code \in [Warehouses -> Nat]
    /\ \A v, w \in Warehouses : Code[v] = Code[w] => v = w
    /\ MaxInt \in Nat /\ MaxLines \in Nat /\ MaxQuantity \in Nat /\ MaxUnits \in Nat

VARIABLES
    items,      \* the lines of the basket
    available,  \* on_hand - reserved, as committed
    pc,
    chosen,     \* the candidate select_best returned
    verdict,    \* why a basket was refused
    stocked     \* NoEligibleWarehouse.stocked_anywhere

vars == <<items, available, pc, chosen, verdict, stocked>>

Line == [product : Products, quantity : 0..MaxQuantity]
Baskets == UNION {[1..n -> Line] : n \in 0..MaxLines}
Asked == {items[i].product : i \in DOMAIN items}

Init ==
    /\ items \in Baskets
    /\ available \in [Stock -> 0..MaxUnits]
    /\ pc = "validate" /\ chosen = None /\ verdict = "none" /\ stocked = 0

Refuse(why) ==
    /\ pc' = "refused" /\ verdict' = why
    /\ UNCHANGED <<items, available, chosen, stocked>>
Proceed(step) ==
    /\ pc' = step
    /\ UNCHANGED <<items, available, chosen, verdict, stocked>>

-----------------------------------------------------------------------------
(* CreateOrderRequest *)

BugTakesDuplicates ==
    items # <<>> /\ \A i \in DOMAIN items : items[i].quantity > 0
Valid ==
    /\ items # <<>>
    /\ \A i \in DOMAIN items : items[i].quantity > 0
    /\ \A i, j \in DOMAIN items : items[i].product = items[j].product => i = j

Validate == pc = "validate" /\ Valid /\ Proceed("products")
FailsValidation == pc = "validate" /\ ~Valid /\ Refuse("ValidationError")

-----------------------------------------------------------------------------
(* select() *)

FindsProducts == pc = "products" /\ Asked \subseteq Catalog /\ Proceed("geocode")
FindsUnknownProduct ==
    pc = "products" /\ ~(Asked \subseteq Catalog) /\ Refuse("UnknownProduct")

Geocode == pc = "geocode" /\ Proceed("select")
GeocodingFails == pc = "geocode" /\ Refuse("GeocodingFailed")

\* The VALUES list is typed INTEGER: a line it cannot hold fails the statement.
Fits(i) == items[i].quantity <= MaxInt
OutOfRange ==
    /\ pc = "select" /\ \E i \in DOMAIN items : ~Fits(i)
    /\ Refuse("ServerError")

\* inventory JOIN requested WHERE on_hand - reserved >= qty: lines the
\* warehouse can supply, each compared as the INTEGER it was sent as.
Sent(i) == items[i].quantity % (MaxInt + 1)
BugNeedsMore(row, i) == available[row] > Sent(i)
Covers(row, i) == available[row] >= Sent(i)
Joined(w) ==
    {i \in DOMAIN items :
        LET row == <<w, items[i].product>>
        IN  row \in Stock /\ Covers(row, i)}

\* GROUP BY warehouse_id HAVING count(DISTINCT product_id) = the number asked.
HasAll(w) == Cardinality({items[i].product : i \in Joined(w)}) = Cardinality(Asked)

\* WHERE is_active ... ORDER BY location <-> point, code LIMIT 1.
Candidates == {w \in Active : HasAll(w)}
Before(v, w) ==
    Distance[v] < Distance[w] \/ (Distance[v] = Distance[w] /\ Code[v] < Code[w])
IsFirst(w) == w \in Candidates /\ \A v \in Candidates \ {w} : Before(w, v)

SelectBest ==
    /\ pc = "select" /\ \A i \in DOMAIN items : Fits(i)
    /\ \E w \in Warehouses : IsFirst(w) /\ chosen' = w
    /\ pc' = "selected"
    /\ UNCHANGED <<items, available, verdict, stocked>>

FindsNone ==
    /\ pc = "select" /\ \A i \in DOMAIN items : Fits(i)
    /\ Candidates = {}
    /\ Proceed("count")

\* count_products_stocked_anywhere, a statement of its own.
BugCountsRows == Cardinality({row \in Stock : row[2] \in Asked /\ available[row] > 0})
StockedAnywhere ==
    Cardinality({p \in Asked : \E row \in Stock : row[2] = p /\ available[row] > 0})
CountStocked ==
    /\ pc = "count"
    /\ stocked' = StockedAnywhere
    /\ pc' = "refused" /\ verdict' = "NoEligibleWarehouse"
    /\ UNCHANGED <<items, available, chosen>>

\* Another transaction commits: a reservation, a release, a sweep, a new count.
StockMoves ==
    /\ \E row \in Stock, n \in 0..MaxUnits : available' = [available EXCEPT ![row] = n]
    /\ UNCHANGED <<items, pc, chosen, verdict, stocked>>

Next ==
    \/ Validate \/ FailsValidation
    \/ FindsProducts \/ FindsUnknownProduct \/ Geocode \/ GeocodingFails
    \/ OutOfRange \/ SelectBest \/ FindsNone \/ CountStocked
    \/ StockMoves

Spec == Init /\ [][Next]_vars

-----------------------------------------------------------------------------
(* Properties *)

TypeOK ==
    /\ items \in Baskets
    /\ available \in [Stock -> 0..MaxUnits]
    /\ pc \in {"validate", "products", "geocode", "select", "count",
               "selected", "refused"}
    /\ chosen \in Warehouses \cup {None}
    /\ verdict \in {"none", "ValidationError", "UnknownProduct", "GeocodingFailed",
                    "ServerError", "NoEligibleWarehouse"}
    /\ stocked \in 0..MaxLines

\* What the client asked for, line by line and unit by unit.
Units(p) ==
    {unit \in (DOMAIN items) \X (1..MaxQuantity) :
        items[unit[1]].product = p /\ unit[2] <= items[unit[1]].quantity}
Wanted(p) == Cardinality(Units(p))
Supplies(w) ==
    /\ w \in Active
    /\ \A p \in Asked : <<w, p>> \in Stock /\ available[<<w, p>>] >= Wanted(p)

\* "The single nearest warehouse able to supply every requested product": of
\* the active warehouses that, when the query runs, have every unit of the
\* basket, the nearest, and of two equally near the first by code.  It says
\* nothing of VALUES, joins, groups, counts and checks made elsewhere, on which
\* the query relies.
ChoosesNearestSupplier ==
    [][pc = "select" /\ pc' = "selected" =>
           /\ Supplies(chosen')
           /\ \A v \in Warehouses \ {chosen'} :
                  Supplies(v) =>
                      /\ Distance[chosen'] <= Distance[v]
                      /\ Distance[chosen'] = Distance[v] => Code[chosen'] < Code[v]]_vars

\* A basket is refused for stock only if, when the query ran, no active
\* warehouse could supply it.
RefusesOnlyUnsuppliable ==
    [][pc = "select" /\ pc' = "count" => \A w \in Warehouses : ~Supplies(w)]_vars

\* The count that a 409 carries explains it (domain/errors.py), at the moment
\* of the count: as many as were asked, then each product is in stock
\* somewhere and they are spread over warehouses; fewer, then one of them is
\* in stock nowhere, and no warehouse can supply the basket at that moment
\* either.  Stock that came back after the select is counted, so the first
\* can be told of a basket that could be supplied again.
StockedSomewhere(p) == \E w \in Warehouses : <<w, p>> \in Stock /\ available[<<w, p>>] > 0
CountTellsWhy ==
    [][pc = "count" /\ pc' = "refused" =>
           IF stocked' = Cardinality(Asked)
           THEN \A p \in Asked : StockedSomewhere(p)
           ELSE /\ \E p \in Asked : ~StockedSomewhere(p)
                /\ \A w \in Warehouses : ~Supplies(w)]_vars
=============================================================================
