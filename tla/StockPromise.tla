---------------------------- MODULE StockPromise ----------------------------
(***************************************************************************)
(* What app/repositories/reservation.py promises its callers, with no      *)
(* transaction, lock or statement in sight:                                *)
(*                                                                         *)
(*   "EITHER every requested item is reserved and a matching               *)
(*   stock_reservations row exists for each, OR nothing changed at all."   *)
(*                                                                         *)
(* and that the pair inventory / stock_reservations never diverges however *)
(* holds end.  Reservation implements it statement by statement under row  *)
(* locks, Checkout implements it as part of the saga; each instantiates    *)
(* this module with its committed tables.                                  *)
(***************************************************************************)
EXTENDS Integers, FiniteSets

CONSTANTS
    Orders,
    Warehouses,
    Products,
    MaxQuantity,    \* bound on the quantity of an order line
    Need,           \* what an order asks for: quantity of each product
    SeedReserved,   \* inventory.reserved as the seed leaves it
    None            \* NULL

VARIABLES
    onHand,         \* inventory.on_hand
    reserved,       \* inventory.reserved
    holds,          \* stock_reservations.status, one row per order line
    place           \* the warehouse of an order

vars == <<onHand, reserved, holds, place>>

Rows == Orders \X Products
Lines(o) == {p \in Products : Need[o][p] > 0}

\* The units of (w, p) that the rows in S stand for, one element for each.
Units(S, w, p) ==
    {unit \in Orders \X (1..MaxQuantity) :
        /\ <<unit[1], p>> \in S /\ place[unit[1]] = w
        /\ unit[2] <= Need[unit[1]][p]}
Quantity(S, w, p) == Cardinality(Units(S, w, p))

Active == {row \in Rows : holds[row[1]][row[2]] = "active"}
Holding == {row \in Rows : holds[row[1]][row[2]] \in {"active", "committed"}}

Marked(S, status) ==
    [o \in Orders |-> [p \in Products |->
        IF <<o, p>> \in S THEN status ELSE holds[o][p]]]

-----------------------------------------------------------------------------
\* The CHECK constraints of inventory: 0 <= reserved <= on_hand.
Init ==
    /\ onHand \in [Warehouses -> [Products -> Nat]]
    /\ \A w \in Warehouses, p \in Products : SeedReserved[w][p] <= onHand[w][p]
    /\ reserved = SeedReserved
    /\ holds = [o \in Orders |-> [p \in Products |-> "none"]]
    /\ place = [o \in Orders |-> None]

\* All lines of an order at one warehouse, or nothing.
Hold(o, w) ==
    /\ place[o] = None
    /\ \A p \in Lines(o) : onHand[w][p] - reserved[w][p] >= Need[o][p]
    /\ place' = [place EXCEPT ![o] = w]
    /\ holds' = [holds EXCEPT ![o] =
           [p \in Products |-> IF p \in Lines(o) THEN "active" ELSE "none"]]
    /\ reserved' = [reserved EXCEPT ![w] =
           [p \in Products |-> reserved[w][p] + Need[o][p]]]
    /\ UNCHANGED onHand

\* Active holds end and their units go back to the warehouses they came from.
GiveBack(S, status) ==
    /\ holds' = Marked(S, status)
    /\ reserved' = [w \in Warehouses |-> [p \in Products |->
                       reserved[w][p] - Quantity(S, w, p)]]
    /\ UNCHANGED <<onHand, place>>

\* Active holds become a sale: the units stay out of the available stock.
Sell(S) ==
    /\ holds' = Marked(S, "committed")
    /\ UNCHANGED <<onHand, reserved, place>>

\* The seed writes a new count, which what is reserved still fits in.
Recount ==
    /\ onHand' \in [Warehouses -> [Products -> Nat]]
    /\ \A w \in Warehouses, p \in Products : reserved[w][p] <= onHand'[w][p]
    /\ UNCHANGED <<reserved, holds, place>>

Next ==
    \/ \E o \in Orders, w \in Warehouses : Hold(o, w)
    \/ \E S \in SUBSET Active :
           Sell(S) \/ \E status \in {"released", "expired"} : GiveBack(S, status)
    \/ Recount

Spec == Init /\ [][Next]_vars

-----------------------------------------------------------------------------
(* Properties *)

\* inventory.reserved is what the seed put there plus what the rows that hold
\* or sold stock add up to: the counter and its receipts never diverge.
LedgerBalances ==
    \A w \in Warehouses, p \in Products :
        reserved[w][p] = SeedReserved[w][p] + Quantity(Holding, w, p)

\* No warehouse promises more than it has, however its stock is recounted.
NeverOversold ==
    \A w \in Warehouses, p \in Products : reserved[w][p] <= onHand[w][p]
=============================================================================
