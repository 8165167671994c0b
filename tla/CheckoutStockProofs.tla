------------------------ MODULE CheckoutStockProofs ------------------------
(***************************************************************************)
(* Proofs about the stock of Checkout, for any number of requests,         *)
(* warehouses and products and any quantities: inventory.reserved and the  *)
(* reservation rows never diverge, no warehouse promises more than it has, *)
(* and a hold ends for a reason.                                           *)
(***************************************************************************)
EXTENDS CheckoutProofs

\* reserve_stock runs with the warehouse that selection returned.
WarehouseChosen ==
    \A r \in Requests : pc[r] = "reserve" => chosen[r] \in Warehouses

StockParts ==
    /\ WarehouseChosen
    /\ HoldsEndForAReason
    /\ StockLedger
    /\ NoOversell
StockInv == KeyInv /\ StockParts

HasLapsed(r) == \E i \in DOMAIN lapsed : lapsed[i] = r

-----------------------------------------------------------------------------
(* Counting units *)

\* Rows that stop holding take their units with them.
LEMMA QuantityDifference ==
    ASSUME NEW S, S \subseteq Holding, NEW w, NEW p
    PROVE  Quantity(Holding \ S, w, p) = Quantity(Holding, w, p) - Quantity(S, w, p)
<1>1. Units(Holding \ S, w, p) = Units(Holding, w, p) \ Units(S, w, p)
    BY DEF Units
<1>2. Units(Holding, w, p) \cap Units(S, w, p) = Units(S, w, p)
    BY DEF Units
<1>3. Cardinality(Units(Holding, w, p) \ Units(S, w, p)) =
          Cardinality(Units(Holding, w, p))
              - Cardinality(Units(Holding, w, p) \cap Units(S, w, p))
    BY UnitsFinite, FS_Difference
<1> QED  BY <1>1, <1>2, <1>3 DEF Quantity

\* The rows of a new order add the quantity of its line, in its warehouse.
LEMMA NewRowUnits ==
    ASSUME NEW r \in Requests, NEW p \in Products
    PROVE  /\ IsFiniteSet({r} \X (1..Qty(r, p)))
           /\ Cardinality({r} \X (1..Qty(r, p))) = Qty(r, p)
<1>1. Qty(r, p) \in Nat
    BY QtyType
<1>2. IsFiniteSet(1..Qty(r, p)) /\ Cardinality(1..Qty(r, p)) = Qty(r, p)
    BY <1>1, FS_Interval
<1>3. IsFiniteSet({r}) /\ Cardinality({r}) = 1
    BY FS_Singleton
<1> QED  BY <1>1, <1>2, <1>3, FS_Product

-----------------------------------------------------------------------------
LEMMA StockInit == Init => StockInv
<1> SUFFICES ASSUME Init PROVE StockInv
    OBVIOUS
<1>1. WarehouseChosen /\ NoOversell
    BY CheckoutAssumption DEF Init, WarehouseChosen, NoOversell
<1>2. HoldsEndForAReason
    BY DEF Init, HoldsEndForAReason, NoOrder
<1>3. StockLedger
    <2> SUFFICES ASSUME NEW w \in Warehouses, NEW p \in Products
                 PROVE  reserved[w][p] = SeedReserved[w][p] + Quantity(Holding, w, p)
        BY DEF StockLedger
    <2>1. Units(Holding, w, p) = {}
        BY DEF Init, Units, Holding, Rows
    <2>2. Quantity(Holding, w, p) = 0
        BY <2>1, FS_EmptySet DEF Quantity
    <2> QED  BY <2>2, CheckoutAssumption DEF Init
<1> QED  BY <1>1, <1>2, <1>3, KeyInit DEF StockInv, StockParts

\* A step that leaves orders, holds and inventory alone.
LEMMA StockUnmoved ==
    ASSUME StockInv, WarehouseChosen', UNCHANGED <<orders, holds, reserved>>,
           \A r \in Requests : orders[r].status = "payment_failed" =>
               provider'[r] = provider[r],
           \A r \in Requests : HasLapsed(r) => HasLapsed(r)'
    PROVE  StockParts'
<1> USE DEF StockInv, StockParts
<1>1. HoldsEndForAReason'
    BY DEF HoldsEndForAReason, HasLapsed
<1>2. \A w, p : Quantity(Holding, w, p)' = Quantity(Holding, w, p)
    BY DEF Quantity, Units, Holding
<1>3. StockLedger'
    BY <1>2 DEF StockLedger
<1>4. NoOversell'
    BY DEF NoOversell
<1> QED  BY <1>1, <1>3, <1>4

\* Active rows end and their units go back to inventory.
LEMMA GiveBack ==
    ASSUME TypeOK, StockLedger, NoOversell, NEW S \in SUBSET Rows,
           \A row \in S : holds[row[1]][row[2]] = "active",
           NEW status \in {"released", "expired"},
           holds' = Marked(S, status), reserved' = GivenBack(S),
           \A r \in Requests : orders'[r].warehouse = orders[r].warehouse
    PROVE  StockLedger' /\ NoOversell'
<1>1. S \subseteq Holding
    BY DEF Holding
<1>2. \A r \in Requests, p \in Products :
          holds'[r][p] = IF <<r, p>> \in S THEN status ELSE holds[r][p]
    BY DEF Marked
<1>3. Holding' = Holding \ S
    BY <1>2 DEF Holding, Rows
<1> SUFFICES ASSUME NEW w \in Warehouses, NEW p \in Products
             PROVE  /\ reserved'[w][p] = SeedReserved[w][p] + Quantity(Holding, w, p)'
                    /\ reserved'[w][p] <= OnHand[w][p]
    BY DEF StockLedger, NoOversell
<1>4. Units(Holding, w, p)' = Units(Holding \ S, w, p)
    BY <1>3 DEF Units
<1>5. Quantity(Holding, w, p)' = Quantity(Holding, w, p) - Quantity(S, w, p)
    <2>1. Quantity(Holding \ S, w, p) = Quantity(Holding, w, p) - Quantity(S, w, p)
        BY <1>1, QuantityDifference
    <2>2. Quantity(Holding, w, p)' = Cardinality(Units(Holding, w, p)')
        BY DEF Quantity
    <2>3. Quantity(Holding \ S, w, p) = Cardinality(Units(Holding \ S, w, p))
        BY DEF Quantity
    <2> QED  BY <1>4, <2>1, <2>2, <2>3
<1>6. reserved'[w][p] = reserved[w][p] - Quantity(S, w, p)
    BY DEF GivenBack
<1>7. /\ reserved[w][p] \in Nat /\ SeedReserved[w][p] \in Nat /\ OnHand[w][p] \in Nat
      /\ Quantity(S, w, p) \in Nat /\ Quantity(Holding, w, p) \in Nat
    BY QuantityType, CheckoutAssumption DEF TypeOK
<1>8. /\ reserved[w][p] = SeedReserved[w][p] + Quantity(Holding, w, p)
      /\ reserved[w][p] <= OnHand[w][p]
    BY DEF StockLedger, NoOversell
<1> QED  BY <1>5, <1>6, <1>7, <1>8

\* A refused request, and any other that only moves on.
LEMMA StockMove ==
    ASSUME StockInv, UNCHANGED <<chosen, orders, holds, reserved, provider, lapsed>>,
           \A r \in Requests : pc'[r] = "reserve" => pc[r] = "reserve"
    PROVE  StockParts'
<1>1. WarehouseChosen'
    BY DEF StockInv, StockParts, WarehouseChosen
<1>2. \A r \in Requests : HasLapsed(r) => HasLapsed(r)'
    BY DEF HasLapsed
<1> QED  BY <1>1, <1>2, StockUnmoved

LEMMA StockRefuse ==
    ASSUME StockInv, NEW r \in Requests, NEW kind, Refuse(r, kind)
    PROVE  StockParts'
<1>1. UNCHANGED <<chosen, orders, holds, reserved, provider, lapsed>>
    BY DEF Refuse, dbVars, worldVars
<1>2. \A q \in Requests : pc'[q] = "reserve" => pc[q] = "reserve"
    BY DEF Refuse, Reply, StockInv, KeyInv, TypeOK
<1> QED  BY <1>1, <1>2, StockMove

\* tx1 commits: the new order takes its lines out of what the warehouse had
\* available, which it checked in the same statements.
LEMMA StockReserve ==
    ASSUME StockInv, NEW r \in Requests, Reserve(r)
    PROVE  StockParts'
<1> USE DEF StockInv, StockParts, KeyInv
<1> DEFINE order == Moved(NewOrder(chosen[r]), "pending", "reserved")
           row == [p \in Products |-> IF p \in Lines(r) THEN "active" ELSE "none"]
<1>1. /\ pc[r] = "reserve" /\ chosen[r] \in Warehouses /\ orders[r].status = "none"
      /\ \A p \in Products : holds[r][p] = "none"
    BY DEF Reserve, WarehouseChosen, KeyParts, OrderFollowsRequest, HoldsEndForAReason
<1>2. order.status = "reserved" /\ order.warehouse = chosen[r]
    BY DEF Moved, NewOrder
<1>3. /\ orders' = [orders EXCEPT ![r] = order] /\ holds' = [holds EXCEPT ![r] = row]
      /\ reserved' = [reserved EXCEPT ![chosen[r]] =
             [p \in Products |-> reserved[chosen[r]][p] + Qty(r, p)]]
      /\ pc' = [pc EXCEPT ![r] = "charge"]
      /\ InStock(r) /\ UNCHANGED <<chosen, provider, lapsed>>
    BY DEF Reserve, CanReserve, GoTo, worldVars
<1> HIDE DEF order
<1>4. /\ orders'[r] = order /\ holds'[r] = row
      /\ \A q \in Requests : q # r => orders'[q] = orders[q] /\ holds'[q] = holds[q]
    BY <1>3 DEF TypeOK
<1>5. WarehouseChosen'
    BY <1>3 DEF WarehouseChosen, TypeOK
<1>6. HoldsEndForAReason'
    <2> SUFFICES ASSUME NEW q \in Requests
                 PROVE  \A p \in Products :
        /\ holds'[q][p] = "none" <=> orders'[q].status = "none" \/ p \notin Lines(q)
        /\ holds'[q][p] = "released" =>
               orders'[q].status = "payment_failed" /\ provider[q] = "declined"
        /\ holds'[q][p] = "expired" => \E i \in DOMAIN lapsed : lapsed[i] = q
        /\ holds'[q][p] = "committed" => orders'[q].status = "confirmed"
        /\ holds'[q][p] = "active" => orders'[q].status = "reserved"
        BY <1>3 DEF HoldsEndForAReason, Lines, Qty
    <2>1. CASE q = r
        BY <1>2, <1>4, <2>1
    <2>2. CASE q # r
        BY <1>4, <2>2 DEF HoldsEndForAReason
    <2> QED  BY <2>1, <2>2
<1>7. ASSUME NEW w \in Warehouses, NEW p \in Products
      PROVE  /\ reserved'[w][p] = SeedReserved[w][p] + Quantity(Holding, w, p)'
             /\ reserved'[w][p] <= OnHand[w][p]
    <2> DEFINE new == IF w = chosen[r] THEN {r} \X (1..Qty(r, p)) ELSE {}
    <2>1. Qty(r, p) \in Nat /\ Qty(r, p) <= MaxQuantity /\ MaxQuantity \in Nat
        BY QtyType, CheckoutAssumption
    <2>2. \A q \in Requests :
              <<q, p>> \in Holding' <=>
                  IF q = r THEN p \in Lines(r) ELSE <<q, p>> \in Holding
        BY <1>4 DEF Holding, Rows
    <2>3. \A q \in Requests, n \in 1..MaxQuantity :
              <<q, n>> \in Units(Holding, w, p)' <=>
                  \/ q = r /\ w = chosen[r] /\ n <= Qty(r, p)
                  \/ q # r /\ <<q, n>> \in Units(Holding, w, p)
        <3> SUFFICES ASSUME NEW q \in Requests, NEW n \in 1..MaxQuantity
                     PROVE  <<q, n>> \in Units(Holding, w, p)' <=>
                                \/ q = r /\ w = chosen[r] /\ n <= Qty(r, p)
                                \/ q # r /\ <<q, n>> \in Units(Holding, w, p)
            OBVIOUS
        <3>1. <<q, n>> \in Units(Holding, w, p)' <=>
                  <<q, p>> \in Holding' /\ orders'[q].warehouse = w /\ n <= Qty(q, p)
            BY DEF Units, Qty
        <3>2. <<q, n>> \in Units(Holding, w, p) <=>
                  <<q, p>> \in Holding /\ orders[q].warehouse = w /\ n <= Qty(q, p)
            BY DEF Units
        <3>3. n <= Qty(r, p) => p \in Lines(r)
            BY <2>1 DEF Lines
        <3> QED  BY <1>2, <1>4, <2>2, <3>1, <3>2, <3>3
    <2>4. Units(Holding, w, p)' = Units(Holding, w, p) \cup new
        <3>1. ASSUME NEW n \in 1..MaxQuantity
              PROVE  <<r, n>> \notin Units(Holding, w, p)
            BY <1>1 DEF Units, Holding
        <3>2. new \subseteq Requests \X (1..MaxQuantity)
            BY <2>1
        <3>3. ASSUME NEW q \in Requests, NEW n \in 1..MaxQuantity
              PROVE  <<q, n>> \in new <=> q = r /\ w = chosen[r] /\ n <= Qty(r, p)
            BY <2>1
        <3>4. /\ Units(Holding, w, p)' \subseteq Requests \X (1..MaxQuantity)
              /\ Units(Holding, w, p) \subseteq Requests \X (1..MaxQuantity)
            BY DEF Units
        <3> HIDE DEF new
        <3> QED  BY <2>3, <3>1, <3>2, <3>3, <3>4
    <2>5. Units(Holding, w, p) \cap new = {}
        BY <1>1 DEF Units, Holding
    <2>6. IsFiniteSet(new) /\ Cardinality(new) = IF w = chosen[r] THEN Qty(r, p) ELSE 0
        BY NewRowUnits, FS_EmptySet
    <2> HIDE DEF new
    <2>7. IsFiniteSet(Units(Holding, w, p))
        BY UnitsFinite
    <2>8. Cardinality(Units(Holding, w, p) \cup new) =
              Cardinality(Units(Holding, w, p)) + Cardinality(new)
        <3>1. Cardinality(Units(Holding, w, p)) \in Nat /\ Cardinality(new) \in Nat
            BY <2>6, <2>7, FS_CardinalityType
        <3>2. Cardinality(Units(Holding, w, p) \cap new) = 0
            BY <2>5, FS_EmptySet
        <3>3. Cardinality(Units(Holding, w, p) \cup new) =
                  Cardinality(Units(Holding, w, p)) + Cardinality(new)
                      - Cardinality(Units(Holding, w, p) \cap new)
            BY <2>6, <2>7, FS_Union, Zenon
        <3> QED  BY <3>1, <3>2, <3>3
    <2>9. Quantity(Holding, w, p)' = Cardinality(Units(Holding, w, p)')
        BY DEF Quantity
    <2>10. Quantity(Holding, w, p)' =
               Quantity(Holding, w, p) + IF w = chosen[r] THEN Qty(r, p) ELSE 0
        BY <2>4, <2>6, <2>8, <2>9 DEF Quantity
    <2>11. reserved'[w][p] = reserved[w][p] + IF w = chosen[r] THEN Qty(r, p) ELSE 0
        BY <1>1, <1>3, <2>1 DEF TypeOK
    <2>12. /\ reserved[w][p] = SeedReserved[w][p] + Quantity(Holding, w, p)
           /\ reserved[w][p] <= OnHand[w][p]
        BY DEF StockLedger, NoOversell
    <2>13. /\ reserved[w][p] \in Nat /\ SeedReserved[w][p] \in Nat
           /\ OnHand[w][p] \in Nat /\ Quantity(Holding, w, p) \in Nat
        BY QuantityType, CheckoutAssumption DEF TypeOK
    <2>14. w = chosen[r] => reserved[w][p] + Qty(r, p) <= OnHand[w][p]
        <3>1. CASE p \in Lines(r)
            BY <1>3, <2>1, <2>13, <3>1 DEF InStock, Available
        <3>2. CASE p \notin Lines(r)
            BY <2>1, <2>12, <2>13, <3>2 DEF Lines
        <3> QED  BY <3>1, <3>2
    <2> QED  BY <2>1, <2>10, <2>11, <2>12, <2>13, <2>14
<1> QED  BY <1>5, <1>6, <1>7 DEF StockLedger, NoOversell

\* What the status column holds after the active rows of an order end.
LEMMA MarkedActive ==
    ASSUME NEW r \in Requests, NEW status
    PROVE  \A q \in Requests, p \in Products :
               Marked(ActiveRows(r), status)[q][p] =
                   IF q = r /\ holds[r][p] = "active" THEN status ELSE holds[q][p]
BY DEF Marked, ActiveRows, Rows

\* tx2 decides an order: its active rows all end the same way.
LEMMA HoldsDecided ==
    ASSUME StockInv, NEW r \in Requests, orders[r].status = "reserved",
           NEW order, NEW status,
           \/ order.status = "confirmed" /\ status = "committed"
           \/ /\ order.status = "payment_failed" /\ status = "released"
              /\ provider[r] = "declined",
           orders' = [orders EXCEPT ![r] = order],
           holds' = Marked(ActiveRows(r), status),
           UNCHANGED <<provider, lapsed>>
    PROVE  HoldsEndForAReason'
<1> SUFFICES ASSUME NEW q \in Requests, NEW p \in Products
             PROVE
        /\ holds'[q][p] = "none" <=> orders'[q].status = "none" \/ p \notin Lines(q)
        /\ holds'[q][p] = "released" =>
               orders'[q].status = "payment_failed" /\ provider[q] = "declined"
        /\ holds'[q][p] = "expired" => \E i \in DOMAIN lapsed : lapsed[i] = q
        /\ holds'[q][p] = "committed" => orders'[q].status = "confirmed"
        /\ holds'[q][p] = "active" => orders'[q].status = "reserved"
    BY DEF HoldsEndForAReason, Lines, Qty
<1>1. holds'[q][p] = IF q = r /\ holds[r][p] = "active" THEN status ELSE holds[q][p]
    BY MarkedActive
<1>2. orders'[q] = IF q = r THEN order ELSE orders[q]
    BY DEF StockInv, KeyInv, TypeOK
<1>3. /\ holds[q][p] = "none" <=> orders[q].status = "none" \/ p \notin Lines(q)
      /\ holds[q][p] = "released" =>
             orders[q].status = "payment_failed" /\ provider[q] = "declined"
      /\ holds[q][p] = "expired" => \E i \in DOMAIN lapsed : lapsed[i] = q
      /\ holds[q][p] = "committed" => orders[q].status = "confirmed"
      /\ holds[q][p] = "active" => orders[q].status = "reserved"
    BY DEF StockInv, StockParts, HoldsEndForAReason
<1>4. CASE q = r
    BY <1>1, <1>2, <1>3, <1>4
<1>5. CASE q # r
    BY <1>1, <1>2, <1>3, <1>5
<1> QED  BY <1>4, <1>5

LEMMA MovedWarehouse ==
    ASSUME NEW order, NEW from, NEW to, order \in OrderRow
    PROVE  Moved(order, from, to).warehouse = order.warehouse
BY DEF Moved, OrderRow

\* A sale: the rows still active are committed and hold what they held.
LEMMA StockComplete ==
    ASSUME StockInv, NEW r \in Requests, Complete(r)
    PROVE  StockParts'
<1> USE DEF StockInv, StockParts, KeyInv
<1> DEFINE order == Moved(Moved(orders[r], "reserved", "paid"), "paid", "confirmed")
<1>1. orders[r] \in OrderRow
    BY DEF TypeOK
<1>2. order.status = "confirmed" /\ order.warehouse = orders[r].warehouse
    BY <1>1, MovedType, MovedWarehouse DEF OrderStatus
<1>3. /\ orders' = [orders EXCEPT ![r] = order] /\ orders[r].status = "reserved"
      /\ holds' = Marked(ActiveRows(r), "committed")
      /\ pc' = [pc EXCEPT ![r] = "answered"]
      /\ UNCHANGED <<chosen, reserved, provider, lapsed>>
    BY DEF Complete, CanMove, Ends, Reply, worldVars
<1> HIDE DEF order
<1>4. WarehouseChosen'
    BY <1>3 DEF WarehouseChosen, TypeOK
<1>5. HoldsEndForAReason'
    BY <1>2, <1>3, HoldsDecided
<1>6. Holding' = Holding
    BY <1>3, MarkedActive DEF Holding, Rows
<1>7. \A q \in Requests : orders'[q].warehouse = orders[q].warehouse
    BY <1>2, <1>3 DEF TypeOK
<1>8. \A w, p : Units(Holding, w, p)' = Units(Holding, w, p)
    BY <1>6, <1>7 DEF Units, Qty
<1>9. \A w, p : Quantity(Holding, w, p)' = Quantity(Holding, w, p)
    BY <1>8 DEF Quantity
<1>10. StockLedger' /\ NoOversell'
    BY <1>3, <1>9 DEF StockLedger, NoOversell
<1> QED  BY <1>4, <1>5, <1>10

\* A declined order gives its active rows back, which is all it still holds.
LEMMA StockCompensate ==
    ASSUME StockInv, NEW r \in Requests, Compensate(r)
    PROVE  StockParts'
<1> USE DEF StockInv, StockParts, KeyInv
<1> DEFINE order == Moved(orders[r], "reserved", "payment_failed")
           S == ActiveRows(r)
<1>1. orders[r] \in OrderRow
    BY DEF TypeOK
<1>2. order.status = "payment_failed" /\ order.warehouse = orders[r].warehouse
    BY <1>1, MovedType, MovedWarehouse DEF OrderStatus
<1>3. /\ orders' = [orders EXCEPT ![r] = order] /\ orders[r].status = "reserved"
      /\ holds' = Marked(S, "released") /\ reserved' = GivenBack(S)
      /\ pc' = [pc EXCEPT ![r] = "answered"]
      /\ pc[r] = "settle" /\ heard[r] = "declined"
      /\ UNCHANGED <<chosen, provider, lapsed>>
    BY DEF Compensate, Settling, CanMove, Ends, Reply, worldVars
<1> HIDE DEF order
<1>4. WarehouseChosen'
    BY <1>3 DEF WarehouseChosen, TypeOK
<1>5. provider[r] = "declined"
    BY <1>3 DEF KeyParts, MoneyFollowsOrder
<1>6. HoldsEndForAReason'
    BY <1>2, <1>3, <1>5, HoldsDecided
<1>7. \A q \in Requests : orders'[q].warehouse = orders[q].warehouse
    BY <1>2, <1>3 DEF TypeOK
<1>8. S \subseteq Rows /\ \A row \in S : holds[row[1]][row[2]] = "active"
    BY DEF ActiveRows
<1> HIDE DEF S
<1>9. StockLedger' /\ NoOversell'
    BY <1>3, <1>7, <1>8, GiveBack
<1> QED  BY <1>4, <1>6, <1>9

\* A batch of the sweeper: rows of any orders, all lapsed.
LEMMA StockSweep ==
    ASSUME StockInv, Sweep
    PROVE  StockParts'
<1> USE DEF StockInv, StockParts, KeyInv
<1>1. PICK S \in SUBSET Expired :
          /\ holds' = Marked(S, "expired") /\ reserved' = GivenBack(S)
          /\ UNCHANGED <<pc, chosen, orders, provider, lapsed>>
    BY DEF Sweep, requestVars, worldVars
<1>2. /\ S \subseteq Rows /\ \A row \in S : holds[row[1]][row[2]] = "active"
      /\ \A row \in S : HasLapsed(row[1])
    BY DEF Expired, HasLapsed
<1>3. StockLedger' /\ NoOversell'
    BY <1>1, <1>2, GiveBack
<1>4. WarehouseChosen'
    BY <1>1 DEF WarehouseChosen
<1>5. HoldsEndForAReason'
    <2>1. \A r \in Requests, p \in Products :
              holds'[r][p] = IF <<r, p>> \in S THEN "expired" ELSE holds[r][p]
        BY <1>1 DEF Marked
    <2>2. \A r \in Requests, p \in Products :
              <<r, p>> \in S => holds[r][p] = "active" /\ HasLapsed(r)
        BY <1>2
    <2> SUFFICES ASSUME NEW r \in Requests, NEW p \in Products
                 PROVE
        /\ holds'[r][p] = "none" <=> orders[r].status = "none" \/ p \notin Lines(r)
        /\ holds'[r][p] = "released" =>
               orders[r].status = "payment_failed" /\ provider[r] = "declined"
        /\ holds'[r][p] = "expired" => HasLapsed(r)
        /\ holds'[r][p] = "committed" => orders[r].status = "confirmed"
        /\ holds'[r][p] = "active" => orders[r].status = "reserved"
        BY <1>1 DEF HoldsEndForAReason, HasLapsed, Lines, Qty
    <2>3. /\ holds[r][p] = "none" <=> orders[r].status = "none" \/ p \notin Lines(r)
          /\ holds[r][p] = "released" =>
                 orders[r].status = "payment_failed" /\ provider[r] = "declined"
          /\ holds[r][p] = "expired" => HasLapsed(r)
          /\ holds[r][p] = "committed" => orders[r].status = "confirmed"
          /\ holds[r][p] = "active" => orders[r].status = "reserved"
        BY DEF HoldsEndForAReason, HasLapsed
    <2> QED  BY <2>1, <2>2, <2>3
<1> QED  BY <1>3, <1>4, <1>5

LEMMA StockStep ==
    ASSUME StockInv, NEW r \in Requests, Step(r)
    PROVE  StockParts'
<1> USE DEF StockInv, StockParts, KeyInv
<1>0. TypeOK
    OBVIOUS
<1>1. CASE Geocode(r)
    BY <1>0, <1>1, StockMove DEF Geocode, GoTo, dbVars, worldVars, TypeOK
<1>2. CASE GeocodingFails(r)
    BY <1>2, StockRefuse DEF GeocodingFails
<1>3. CASE Claim(r)
    BY <1>0, <1>3, StockMove DEF Claim, GoTo, dbVars, worldVars, TypeOK
<1>4. CASE FindsOtherBody(r)
    BY <1>4, StockRefuse DEF FindsOtherBody
<1>5. CASE FindsCompleted(r)
    BY <1>0, <1>5, StockMove DEF FindsCompleted, Reply, dbVars, worldVars, TypeOK
<1>6. CASE FindsInProgress(r)
    BY <1>6, StockRefuse DEF FindsInProgress
<1>7. CASE FindsFailed(r)
    BY <1>0, <1>7, StockMove DEF FindsFailed, GoTo, dbVars, worldVars, TypeOK
<1>8. CASE Reclaim(r)
    BY <1>0, <1>8, StockMove DEF Reclaim, GoTo, dbVars, worldVars, TypeOK
<1>9. CASE LosesReclaim(r)
    BY <1>9, StockRefuse DEF LosesReclaim
<1>10. CASE SelectWarehouse(r)
    <2>1. PICK w \in Warehouses : chosen' = [chosen EXCEPT ![r] = w]
        BY <1>10 DEF SelectWarehouse, Eligible
    <2>2. WarehouseChosen'
        BY <1>0, <1>10, <2>1 DEF SelectWarehouse, WarehouseChosen, GoTo, TypeOK
    <2>3. UNCHANGED <<orders, holds, reserved, provider, lapsed>>
        BY <1>10 DEF SelectWarehouse, dbVars, worldVars
    <2> QED  BY <2>2, <2>3, StockUnmoved DEF HasLapsed
<1>11. CASE FindsUnknownProduct(r)
    BY <1>11, StockRefuse DEF FindsUnknownProduct
<1>12. CASE FindsNoWarehouse(r)
    BY <1>12, StockRefuse DEF FindsNoWarehouse
<1>13. CASE FindsTwoCurrencies(r)
    BY <1>13, StockRefuse DEF FindsTwoCurrencies
<1>14. CASE FindsNoCustomer(r)
    BY <1>14, StockRefuse DEF FindsNoCustomer
<1>15. CASE LosesStock(r)
    BY <1>15, StockRefuse DEF LosesStock
<1>16. CASE FindsNothingToPay(r)
    BY <1>16, StockRefuse DEF FindsNothingToPay
<1>17. CASE Reserve(r)
    BY <1>17, StockReserve
<1>18. CASE Charge(r)
    <2>1. /\ pc[r] = "charge" /\ pc' = [pc EXCEPT ![r] = "settle"]
          /\ UNCHANGED <<chosen, orders, holds, reserved, lapsed>>
          /\ \E outcome \in Outcome : provider' = [provider EXCEPT ![r] = outcome]
        BY <1>18 DEF Charge, GoTo, dbVars
    <2>2. orders[r].status = "reserved"
        BY <2>1, InFlight
    <2>3. WarehouseChosen'
        BY <1>0, <2>1 DEF WarehouseChosen, TypeOK
    <2>4. \A q \in Requests :
              orders[q].status = "payment_failed" => provider'[q] = provider[q]
        BY <1>0, <2>1, <2>2 DEF TypeOK
    <2> QED  BY <2>1, <2>3, <2>4, StockUnmoved DEF HasLapsed
<1>19. CASE Complete(r)
    BY <1>19, StockComplete
<1>20. CASE Compensate(r)
    BY <1>20, StockCompensate
<1>21. CASE LeaveUnresolved(r)
    BY <1>0, <1>21, StockMove DEF LeaveUnresolved, Ends, Reply, worldVars, TypeOK
<1> QED
    BY <1>1, <1>2, <1>3, <1>4, <1>5, <1>6, <1>7, <1>8, <1>9, <1>10, <1>11,
       <1>12, <1>13, <1>14, <1>15, <1>16, <1>17, <1>18, <1>19, <1>20, <1>21, <1>0
       DEF Step, ClaimKey, CreateOrder

LEMMA StockNext == StockInv /\ [Next]_vars => StockInv'
<1> SUFFICES ASSUME StockInv, [Next]_vars PROVE StockInv'
    OBVIOUS
<1>0. TypeOK /\ KeyInv'
    BY KeyNext DEF StockInv, KeyInv
<1>1. ASSUME NEW r \in Requests, Step(r) PROVE StockParts'
    BY <1>1, StockStep
<1>2. ASSUME NEW r \in Requests, Crash(r) PROVE StockParts'
    BY <1>0, <1>2, StockMove DEF Crash, GoTo, dbVars, worldVars, TypeOK
<1>3. ASSUME NEW r \in Requests, HoldLapses(r) PROVE StockParts'
    <2>1. /\ lapsed' = Append(lapsed, r) /\ lapsed \in Seq(Requests)
          /\ UNCHANGED <<pc, chosen, orders, holds, reserved, provider>>
        BY <1>0, <1>3 DEF HoldLapses, requestVars, dbVars, TypeOK
    <2>2. \A q \in Requests : HasLapsed(q) => HasLapsed(q)'
        BY <2>1 DEF HasLapsed
    <2>3. WarehouseChosen'
        BY <2>1 DEF StockInv, StockParts, WarehouseChosen
    <2> QED  BY <2>1, <2>2, <2>3, StockUnmoved
<1>4. ASSUME NEW r \in Requests, ProviderSettles(r) PROVE StockParts'
    <2>1. /\ provider[r] = "unknown"
          /\ UNCHANGED <<pc, chosen, orders, holds, reserved, lapsed>>
          /\ \E outcome \in Outcome : provider' = [provider EXCEPT ![r] = outcome]
        BY <1>4 DEF ProviderSettles, requestVars, dbVars, Outcome
    <2>2. orders[r].status # "payment_failed"
        BY <2>1 DEF StockInv, KeyInv, KeyParts, MoneyFollowsOrder
    <2>3. \A q \in Requests :
              orders[q].status = "payment_failed" => provider'[q] = provider[q]
        BY <1>0, <2>1, <2>2 DEF TypeOK
    <2>4. WarehouseChosen'
        BY <2>1 DEF StockInv, StockParts, WarehouseChosen
    <2> QED  BY <2>1, <2>3, <2>4, StockUnmoved DEF HasLapsed
<1>5. ASSUME NEW r \in Requests, Reconcile(r) PROVE StockParts'
    BY <1>5, StockMove DEF Reconcile, requestVars, dbVars
<1>6. ASSUME Sweep PROVE StockParts'
    BY <1>6, StockSweep
<1>7. ASSUME UNCHANGED vars PROVE StockParts'
    <2>1. UNCHANGED <<pc, chosen, orders, holds, reserved, provider, lapsed>>
        BY <1>7 DEF vars, requestVars, dbVars, worldVars
    <2> QED  BY <2>1, StockMove
<1>8. ASSUME NEW r \in Requests, Raises(r) PROVE StockParts'
    BY <1>8, StockRefuse DEF Raises
<1>9. StockParts'
    BY <1>1, <1>2, <1>3, <1>4, <1>5, <1>6, <1>7, <1>8 DEF Next, Idle
<1> QED  BY <1>0, <1>9 DEF StockInv

LEMMA StockAlways == Spec => []StockInv
<1> QED  BY StockInit, StockNext, PTL DEF Spec

-----------------------------------------------------------------------------
(* The sweeper always gets on *)

\* A set of natural numbers has a least one, a bounded one a greatest.
LEMMA LeastNumber ==
    ASSUME NEW T \in SUBSET Nat, T # {}
    PROVE  \E x \in T : \A y \in T : x <= y
<1> DEFINE Below == {0..x : x \in T}
           Inside == StrictSubsetOrdering(Nat)
<1>1. Below \subseteq FiniteSubsetsOf(Nat) /\ Below # {}
    <2>1. ASSUME NEW x \in T PROVE 0..x \in FiniteSubsetsOf(Nat)
        <3>1. x \in Int /\ 0 \in Int
            OBVIOUS
        <3>2. IsFiniteSet(0..x)
            BY <3>1, FS_Interval
        <3>3. 0..x \in SUBSET Nat
            OBVIOUS
        <3> QED  BY <3>2, <3>3 DEF FiniteSubsetsOf
    <2>2. Below # {}
        OBVIOUS
    <2> QED  BY <2>1, <2>2
<1>2. IsWellFoundedOn(Inside, FiniteSubsetsOf(Nat))
    BY FS_StrictSubsetOrderingWellFounded
<1>3. ASSUME NEW x \in T, NEW y \in T, y < x
      PROVE  <<0..y, 0..x>> \in Inside
    <2>1. 0..y \subseteq 0..x /\ x \in 0..x /\ x \notin 0..y
        BY <1>3
    <2>2. 0..y \in SUBSET Nat /\ 0..x \in SUBSET Nat
        OBVIOUS
    <2> QED  BY <2>1, <2>2 DEF StrictSubsetOrdering
<1> HIDE DEF Inside
<1>4. PICK least \in Below : \A other \in Below : <<other, least>> \notin Inside
    <2> HIDE DEF Below
    <2> QED  BY <1>1, <1>2, WFMin
<1>5. PICK x \in T : least = 0..x
    BY <1>4
<1>6. \A y \in T : ~(y < x)
    BY <1>3, <1>4, <1>5
<1> QED  BY <1>6

LEMMA GreatestNumber ==
    ASSUME NEW n \in Nat, NEW T \in SUBSET (0..n), T # {}
    PROVE  \E x \in T : \A y \in T : y <= x
<1> DEFINE Left == {n - x : x \in T}
<1>1. Left \in SUBSET Nat /\ Left # {}
    <2>1. ASSUME NEW x \in T PROVE n - x \in Nat
        <3>1. x \in Int /\ 0 <= x /\ x <= n
            OBVIOUS
        <3> QED  BY <3>1
    <2>2. Left # {}
        OBVIOUS
    <2> QED  BY <2>1, <2>2
<1>2. PICK d \in Left : \A other \in Left : d <= other
    <2> HIDE DEF Left
    <2> QED  BY <1>1, LeastNumber
<1>3. PICK x \in T : d = n - x
    BY <1>2
<1>4. \A y \in T : n - x <= n - y
    BY <1>2, <1>3
<1> QED  BY <1>4

\* A row that has lapsed has an age.
LEMMA AgeType ==
    ASSUME TypeOK, NEW row \in Expired
    PROVE  Age(row[1]) \in Nat
<1>1. \E i \in DOMAIN lapsed : lapsed[i] = row[1]
    BY DEF Expired
<1>2. Age(row[1]) \in DOMAIN lapsed
    BY <1>1 DEF Age
<1>3. DOMAIN lapsed = 1..Len(lapsed) /\ Len(lapsed) \in Nat
    BY DEF TypeOK
<1> QED  BY <1>2, <1>3

\* The oldest row outside a set of lapsed rows.
LEMMA OldestLeft ==
    ASSUME TypeOK, NEW S, Expired \ S # {}
    PROVE  \E s \in Expired \ S : \A t \in Expired \ S : Age(s[1]) <= Age(t[1])
<1> DEFINE Ages == {Age(s[1]) : s \in Expired \ S}
<1>1. Ages \in SUBSET Nat /\ Ages # {}
    BY AgeType
<1>2. PICK least \in Ages : \A other \in Ages : least <= other
    <2> HIDE DEF Ages
    <2> QED  BY <1>1, LeastNumber
<1> QED  BY <1>2

\* A greatest set of the oldest rows that is not above the limit is a batch.
LEMMA BatchExists ==
    ASSUME TypeOK, Expired # {}
    PROVE  \E S \in (SUBSET Expired) \ {{}} : IsBatch(S)
<1> DEFINE Oldest(S) == \A s \in S, t \in Expired \ S : Age(s[1]) <= Age(t[1])
           Sizes == {n \in 0..SweepBatch :
                        \E S \in SUBSET Expired :
                            IsFiniteSet(S) /\ Cardinality(S) = n /\ Oldest(S)}
<1>0. SweepBatch \in Nat /\ SweepBatch >= 1
    BY CheckoutAssumption
<1>1. Sizes \in SUBSET (0..SweepBatch) /\ Sizes # {}
    <2>1. IsFiniteSet({}) /\ Cardinality({}) = 0
        BY FS_EmptySet
    <2>2. 0 \in Sizes
        BY <1>0, <2>1
    <2> QED  BY <2>2
<1>2. PICK most \in Sizes : \A n \in Sizes : n <= most
    <2> HIDE DEF Sizes
    <2> QED  BY <1>0, <1>1, GreatestNumber
<1>3. PICK S \in SUBSET Expired :
          IsFiniteSet(S) /\ Cardinality(S) = most /\ Oldest(S)
    BY <1>2
<1>4. most \in 0..SweepBatch
    BY <1>2
<1>5. S = Expired \/ most = SweepBatch
    <2> SUFFICES ASSUME S # Expired, most # SweepBatch PROVE FALSE
        OBVIOUS
    <2>1. PICK s \in Expired \ S : \A t \in Expired \ S : Age(s[1]) <= Age(t[1])
        BY OldestLeft
    <2>2. /\ IsFiniteSet(S \cup {s}) /\ Cardinality(S \cup {s}) = most + 1
          /\ S \cup {s} \in SUBSET Expired
        BY <1>3, <2>1, FS_AddElement
    <2>3. Oldest(S \cup {s})
        BY <1>3, <2>1
    <2>4. most + 1 \in 0..SweepBatch
        BY <1>0, <1>4
    <2>5. most + 1 \in Sizes
        BY <2>2, <2>3, <2>4
    <2> QED  BY <1>2, <1>4, <2>5
<1>6. S # {}
    BY <1>0, <1>3, <1>5, FS_EmptySet
<1>7. IsBatch(S)
    BY <1>0, <1>3, <1>4, <1>5 DEF IsBatch
<1> QED  BY <1>6, <1>7

\* Whatever active rows go back, inventory.reserved has their units.
LEMMA ActiveCovered ==
    ASSUME StockInv, NEW S,
           S \subseteq {row \in Rows : holds[row[1]][row[2]] = "active"}
    PROVE  CanGiveBack(S)
<1> SUFFICES ASSUME NEW w \in Warehouses, NEW p \in Products
             PROVE  Quantity(S, w, p) <= reserved[w][p]
    BY DEF CanGiveBack
<1>1. S \subseteq Holding
    BY DEF Holding
<1>2. Quantity(Holding \ S, w, p) = Quantity(Holding, w, p) - Quantity(S, w, p)
    BY <1>1, QuantityDifference
<1>3. reserved[w][p] = SeedReserved[w][p] + Quantity(Holding, w, p)
    BY DEF StockInv, StockParts, StockLedger
<1>4. /\ Quantity(Holding \ S, w, p) \in Nat /\ Quantity(Holding, w, p) \in Nat
      /\ Quantity(S, w, p) \in Nat /\ SeedReserved[w][p] \in Nat
    BY QuantityType, CheckoutAssumption
<1> QED  BY <1>2, <1>3, <1>4

-----------------------------------------------------------------------------
(* What it gives *)

\* inventory.reserved is always what the reservation rows add up to, over
\* checkouts, compensations and sweeps in any order.
THEOREM LedgerBalances == Spec => []StockLedger
<1>1. StockInv => StockLedger
    BY DEF StockInv, StockParts
<1> QED  BY <1>1, StockAlways, PTL

\* Two requests that selection showed the same last unit do not both get it.
THEOREM NeverOversold == Spec => []NoOversell
<1>1. StockInv => NoOversell
    BY DEF StockInv, StockParts
<1> QED  BY <1>1, StockAlways, PTL

\* Stock is given back only for a certain decline or after the hold lapsed.
THEOREM HoldsEndRightly == Spec => []HoldsEndForAReason
<1>1. StockInv => HoldsEndForAReason
    BY DEF StockInv, StockParts
<1> QED  BY <1>1, StockAlways, PTL

\* An order loses a part of its stock, or is paid without it, only when its
\* hold has lapsed: nothing else in the saga can split it.
THEOREM WholeTillItLapses == Spec => []WholeUntilLapsed
<1>1. ASSUME StockInv PROVE WholeUntilLapsed
    <2> SUFFICES ASSUME NEW r \in Requests, \A i \in DOMAIN lapsed : lapsed[i] # r,
                        NEW p \in Lines(r)
                 PROVE  holds[r][p] = CASE orders[r].status = "none" -> "none"
                                        [] orders[r].status = "confirmed" -> "committed"
                                        [] orders[r].status = "payment_failed" -> "released"
                                        [] OTHER -> "active"
        BY DEF WholeUntilLapsed
    <2>1. p \in Products /\ holds[r][p] \in HoldStatus
        BY <1>1 DEF StockInv, KeyInv, TypeOK, Lines
    <2>2. /\ holds[r][p] = "none" <=> orders[r].status = "none"
          /\ holds[r][p] = "released" => orders[r].status = "payment_failed"
          /\ holds[r][p] # "expired"
          /\ holds[r][p] = "committed" => orders[r].status = "confirmed"
          /\ holds[r][p] = "active" => orders[r].status = "reserved"
        BY <1>1, <2>1 DEF StockInv, StockParts, HoldsEndForAReason
    <2> QED  BY <2>1, <2>2 DEF HoldStatus
<1> QED  BY <1>1, StockAlways, PTL

\* While a lapsed row is active the sweeper has a batch for it, and the
\* RuntimeError of _settle, which would fail every later run on the same rows,
\* is unreachable from it.
THEOREM SweeperGetsOn == Spec => []SweepAlwaysWorks
<1>1. ASSUME StockInv PROVE SweepAlwaysWorks
    <2>1. ASSUME NEW S \in SUBSET Expired PROVE CanGiveBack(S)
        BY <1>1, ActiveCovered DEF Expired
    <2>2. TypeOK
        BY <1>1 DEF StockInv, KeyInv
    <2> QED  BY <2>1, <2>2, BatchExists DEF SweepAlwaysWorks
<1> QED  BY <1>1, StockAlways, PTL
=============================================================================
