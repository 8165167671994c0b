------------------------- MODULE ReservationProofs -------------------------
(***************************************************************************)
(* Proofs about Reservation, for any orders, baskets, warehouses, products *)
(* and numbers of sweepers and seeders: its statements keep the promise of *)
(* StockPromise, inventory and stock_reservations never diverge, nothing   *)
(* is oversold, the RuntimeError of _settle is never raised, the sorted    *)
(* loops never wait for each other's inventory rows in a circle, and the   *)
(* deadlocks that are left are those of an unsorted re-seed and of claims. *)
(***************************************************************************)
EXTENDS Reservation, FiniteSetTheorems, TLAPS

\* Where an order stands goes with its row and its hold.
OrderShape ==
    \A o \in Orders :
        /\ pc[o] \in {"start", "reserve", "held", "settle", "ended", "failed"}
        /\ pc[o] \in {"start", "reserve"} => place[o] = None
        /\ pc[o] = "reserve" => target[o] \in Warehouses
        /\ place[o] # None => target[o] = place[o]
        /\ \A p \in Products : holds[o][p] # "none" => place[o] # None

JobShape ==
    /\ \A s \in Sweepers : pc[s] \in {"idle", "settle"}
    /\ \A s \in Seeders : pc[s] \in {"idle", "upsert", "ended"}

\* What a transaction has written goes with where it stands.
WorkShape ==
    \A t \in Txs :
        /\ pc[t] # "settle" => plan[t] = {} /\ claimed[t] = {}
        /\ pc[t] = "settle" => goal[t] \in {"released", "committed", "expired"}
        /\ applied[t] \subseteq ToUpdate(t)
        /\ pc[t] # "upsert" => listed[t] = 0

\* A reservation row is written by one transaction and stays active until it
\* commits.
Claims ==
    /\ \A t \in Txs : \A row \in claimed[t] : holds[row[1]][row[2]] = "active"
    /\ \A t, u \in Txs : t # u => claimed[t] \cap claimed[u] = {}

\* An inventory row is written by one transaction at a time.
CellsApart ==
    \A t, u \in Txs : \A c \in Cells : HoldsCell(t, c) /\ HoldsCell(u, c) => t = u

\* What a statement tested in a row it locked still holds: nobody else can
\* have changed the row since.
TestsHold ==
    /\ \A o \in Orders : pc[o] = "reserve" => \A row \in applied[o] : HasEnough(row)
    /\ \A s \in Seeders : \A i \in 1..listed[s] : Fits(s, SeedList[i])

\* The loops lock inventory rows in the order of their positions.
Sorted ==
    \A t \in Txs : \A a \in applied[t], row \in ToUpdate(t) \ applied[t] :
        Position[Cell(a)] <= Position[Cell(row)]

Books == LedgerBalances /\ NeverOversold
Shape == OrderShape /\ JobShape /\ WorkShape
Locks == Claims /\ CellsApart /\ TestsHold /\ Sorted
RowInv == TypeOK /\ Shape /\ Locks /\ Books

-----------------------------------------------------------------------------
(* Rows and cells *)

LEMMA RowTypes ==
    ASSUME NEW row \in Rows
    PROVE  /\ row[1] \in Orders /\ row[2] \in Products /\ row = <<row[1], row[2]>>
           /\ row[1] \in Txs
           /\ Qty(row) \in 0..MaxQuantity /\ Qty(row) = Need[row[1]][row[2]]
BY ReservationAssumption DEF Rows, Qty, Txs

\* A row that t is writing belongs to an order whose warehouse is known, and
\* whose hold is either still to be shown or active.
LEMMA WorkedRow ==
    ASSUME TypeOK, Shape, Claims, NEW t \in Txs, NEW row \in ToUpdate(t)
    PROVE  /\ row \in Rows /\ Cell(row) \in Cells
           /\ \/ t = row[1] /\ pc[t] = "reserve" /\ row \in LineRows(t)
              \/ /\ pc[t] = "settle" /\ row \in claimed[t]
                 /\ holds[row[1]][row[2]] = "active"
                 /\ place[row[1]] \in Warehouses /\ target[row[1]] = place[row[1]]
<1>1. CASE pc[t] = "reserve"
    <2>1. row \in LineRows(t) /\ row \in Rows /\ row[1] = t
        BY <1>1 DEF ToUpdate, LineRows
    <2>2. t \in Orders /\ target[t] \in Warehouses
        BY <1>1, <2>1, RowTypes DEF Shape, OrderShape
    <2> QED  BY <1>1, <2>1, <2>2, RowTypes DEF Cell, Cells
<1>2. CASE pc[t] # "reserve"
    <2>1. pc[t] = "settle" /\ row \in claimed[t] /\ row \in Rows
        BY <1>2 DEF ToUpdate, GivesBack, TypeOK
    <2>2. holds[row[1]][row[2]] = "active"
        BY <2>1 DEF Claims
    <2>3. place[row[1]] # None /\ target[row[1]] = place[row[1]]
        BY <2>1, <2>2, RowTypes DEF Shape, OrderShape
    <2>4. place[row[1]] \in Warehouses
        BY <2>1, <2>3, RowTypes DEF TypeOK
    <2> QED  BY <2>1, <2>2, <2>3, <2>4, RowTypes DEF Cell, Cells
<1> QED  BY <1>1, <1>2

-----------------------------------------------------------------------------
(* Counting units *)

\* The prover reads the Cardinality of an instance as an operator of its own.
LEMMA SameCardinality == \A S : Promise!Cardinality(S) = Cardinality(S)
BY DEF Promise!Cardinality, Cardinality

LEMMA UnitsFinite ==
    ASSUME NEW S, NEW w, NEW p
    PROVE  IsFiniteSet(Promise!Units(S, w, p))
<1>1. IsFiniteSet(1..MaxQuantity)
    BY ReservationAssumption, FS_Interval
<1>2. IsFiniteSet(Orders \X (1..MaxQuantity))
    BY <1>1, ReservationAssumption, FS_Product
<1> QED  BY <1>2, FS_Subset DEF Promise!Units

LEMMA QuantityType ==
    ASSUME NEW S, NEW w, NEW p
    PROVE  Promise!Quantity(S, w, p) \in Nat
BY UnitsFinite, SameCardinality, FS_CardinalityType DEF Promise!Quantity

\* A line of n units of one order.
LEMMA LineUnits ==
    ASSUME NEW o, NEW n \in Nat
    PROVE  IsFiniteSet({o} \X (1..n)) /\ Cardinality({o} \X (1..n)) = n
<1>1. IsFiniteSet(1..n) /\ Cardinality(1..n) = n
    BY FS_Interval
<1>2. IsFiniteSet({o}) /\ Cardinality({o}) = 1
    BY FS_Singleton
<1> QED  BY <1>1, <1>2, FS_Product

LEMMA LockedQuantityType ==
    ASSUME NEW S, NEW c
    PROVE  Quantity(S, c) \in Nat
<1>1. IsFiniteSet(1..MaxQuantity)
    BY ReservationAssumption, FS_Interval
<1>2. IsFiniteSet(Orders \X (1..MaxQuantity))
    BY <1>1, ReservationAssumption, FS_Product
<1>3. IsFiniteSet(Units(S, c))
    BY <1>2, FS_Subset DEF Units
<1> QED  BY <1>3, FS_CardinalityType DEF Quantity

\* Rows that stop holding take their units with them.
LEMMA QuantityDifference ==
    ASSUME NEW T, NEW S, S \subseteq T, NEW w, NEW p
    PROVE  /\ Promise!Quantity(T \ S, w, p) =
                  Promise!Quantity(T, w, p) - Promise!Quantity(S, w, p)
           /\ Promise!Quantity(S, w, p) <= Promise!Quantity(T, w, p)
<1>1. Promise!Units(T \ S, w, p) = Promise!Units(T, w, p) \ Promise!Units(S, w, p)
    BY DEF Promise!Units
<1>2. /\ Promise!Units(T, w, p) \cap Promise!Units(S, w, p) = Promise!Units(S, w, p)
      /\ Promise!Units(S, w, p) \in SUBSET Promise!Units(T, w, p)
    BY DEF Promise!Units
<1>3. Cardinality(Promise!Units(T, w, p) \ Promise!Units(S, w, p)) =
          Cardinality(Promise!Units(T, w, p))
              - Cardinality(Promise!Units(T, w, p) \cap Promise!Units(S, w, p))
    BY UnitsFinite, FS_Difference
<1>4. Cardinality(Promise!Units(S, w, p)) <= Cardinality(Promise!Units(T, w, p))
    BY <1>2, UnitsFinite, FS_Subset
<1> QED  BY <1>1, <1>2, <1>3, <1>4, SameCardinality DEF Promise!Quantity

\* One more row adds the quantity of its line, in its warehouse.
LEMMA QuantityAdds ==
    ASSUME NEW S, NEW row \in Rows, row \notin S, NEW w, NEW p
    PROVE  Promise!Quantity(S \cup {row}, w, p) =
               Promise!Quantity(S, w, p)
                   + IF place[row[1]] = w /\ row[2] = p THEN Qty(row) ELSE 0
<1> DEFINE new == IF place[row[1]] = w /\ row[2] = p
                  THEN {row[1]} \X (1..Qty(row)) ELSE {}
           old == Promise!Units(S, w, p)
<1>1. /\ row[1] \in Orders /\ row[2] \in Products /\ row = <<row[1], row[2]>>
      /\ Qty(row) \in 0..MaxQuantity /\ Qty(row) = Need[row[1]][row[2]]
    BY RowTypes
<1>2. Qty(row) \in Nat /\ MaxQuantity \in Nat /\ Qty(row) <= MaxQuantity
    BY <1>1, ReservationAssumption
<1>3. Promise!Units(S \cup {row}, w, p) = old \cup new
    <2>1. \A o \in Orders, n \in 1..MaxQuantity :
              <<o, n>> \in Promise!Units(S \cup {row}, w, p) <=>
                  \/ <<o, n>> \in old
                  \/ o = row[1] /\ place[o] = w /\ row[2] = p /\ n <= Qty(row)
        BY <1>1 DEF Promise!Units
    <2>2. \A o \in Orders, n \in 1..MaxQuantity :
              <<o, n>> \in new <=>
                  o = row[1] /\ place[o] = w /\ row[2] = p /\ n <= Qty(row)
        BY <1>2
    <2>3. new \subseteq Orders \X (1..MaxQuantity)
        BY <1>1, <1>2
    <2>4. /\ old \subseteq Orders \X (1..MaxQuantity)
          /\ Promise!Units(S \cup {row}, w, p) \subseteq Orders \X (1..MaxQuantity)
        BY DEF Promise!Units
    <2> HIDE DEF new, old
    <2> QED  BY <2>1, <2>2, <2>3, <2>4
<1>4. old \cap new = {}
    BY <1>1 DEF Promise!Units
<1>5. /\ IsFiniteSet(new)
      /\ Cardinality(new) = IF place[row[1]] = w /\ row[2] = p THEN Qty(row) ELSE 0
    <2>1. /\ IsFiniteSet({row[1]} \X (1..Qty(row)))
          /\ Cardinality({row[1]} \X (1..Qty(row))) = Qty(row)
        BY <1>2, LineUnits
    <2> QED  BY <2>1, FS_EmptySet
<1>6. IsFiniteSet(old)
    BY UnitsFinite
<1> HIDE DEF new, old
<1>7. Cardinality(old \cup new) = Cardinality(old) + Cardinality(new)
    <2>1. Cardinality(old) \in Nat /\ Cardinality(new) \in Nat
        BY <1>5, <1>6, FS_CardinalityType
    <2>2. Cardinality(old \cap new) = 0
        BY <1>4, FS_EmptySet
    <2>3. Cardinality(old \cup new) =
              Cardinality(old) + Cardinality(new) - Cardinality(old \cap new)
        BY <1>5, <1>6, FS_Union, Zenon
    <2> QED  BY <2>1, <2>2, <2>3
<1> QED  BY <1>3, <1>5, <1>7, SameCardinality DEF Promise!Quantity, old

\* Of rows that are held, the transactions and the promise count the same.
LEMMA QuantityAgrees ==
    ASSUME TypeOK, OrderShape, NEW S \in SUBSET Rows,
           \A row \in S : holds[row[1]][row[2]] = "active",
           NEW w \in Warehouses, NEW p \in Products
    PROVE  Quantity(S, <<w, p>>) = Promise!Quantity(S, w, p)
<1>1. \A o \in Orders, q \in Products : <<o, q>> \in S => target[o] = place[o]
    BY DEF OrderShape
<1>2. Units(S, <<w, p>>) = Promise!Units(S, w, p)
    <2>1. \A o \in Orders, n \in 1..MaxQuantity :
              <<o, n>> \in Units(S, <<w, p>>) <=> <<o, n>> \in Promise!Units(S, w, p)
        BY <1>1 DEF Units, Promise!Units, Cell, Qty
    <2>2. /\ Units(S, <<w, p>>) \subseteq Orders \X (1..MaxQuantity)
          /\ Promise!Units(S, w, p) \subseteq Orders \X (1..MaxQuantity)
        BY DEF Units, Promise!Units
    <2> QED  BY <2>1, <2>2
<1> QED  BY <1>2, SameCardinality DEF Quantity, Promise!Quantity
-----------------------------------------------------------------------------
(* The books *)

ReservedType == reserved \in [Warehouses -> [Products -> Nat]]

\* A new order takes its lines out of what its warehouse had available.
LEMMA HoldBooks ==
    ASSUME TypeOK, OrderShape, Books,
           NEW o \in Orders, NEW w \in Warehouses, Promise!Hold(o, w)
    PROVE  ReservedType' /\ Books'
<1>1. /\ place[o] = None /\ \A p \in Products : holds[o][p] = "none"
      /\ \A p \in Promise!Lines(o) : onHand[w][p] - reserved[w][p] >= Need[o][p]
      /\ UNCHANGED onHand
    BY DEF Promise!Hold, OrderShape
<1>2. /\ place'[o] = w
      /\ \A q \in Orders : q # o => place'[q] = place[q] /\ holds'[q] = holds[q]
      /\ \A p \in Products :
             holds'[o][p] = IF p \in Promise!Lines(o) THEN "active" ELSE "none"
    BY DEF Promise!Hold, TypeOK
<1>3. \A v \in Warehouses, p \in Products :
          reserved'[v][p] = reserved[v][p] + IF v = w THEN Need[o][p] ELSE 0
    BY DEF Promise!Hold, TypeOK
<1>4. \A p \in Products : Need[o][p] \in Nat /\ Need[o][p] <= MaxQuantity
    BY ReservationAssumption
<1>5. ReservedType'
    BY <1>4 DEF ReservedType, Promise!Hold, TypeOK
<1>6. ASSUME NEW v \in Warehouses, NEW p \in Products
      PROVE  /\ reserved'[v][p] = SeedReserved[v][p]
                    + Promise!Quantity(Promise!Holding, v, p)'
             /\ reserved'[v][p] <= onHand'[v][p]
    <2> DEFINE new == IF v = w THEN {o} \X (1..Need[o][p]) ELSE {}
               old == Promise!Units(Promise!Holding, v, p)
    <2>1. \A q \in Orders :
              <<q, p>> \in Promise!Holding' <=>
                  IF q = o THEN Need[o][p] > 0 ELSE <<q, p>> \in Promise!Holding
        BY <1>2 DEF Promise!Holding, Promise!Rows, Promise!Lines
    <2>2. \A n \in 1..MaxQuantity : <<o, n>> \notin old
        BY <1>1 DEF Promise!Units, Promise!Holding
    <2>3. \A q \in Orders, n \in 1..MaxQuantity :
              <<q, n>> \in Promise!Units(Promise!Holding, v, p)' <=>
                  \/ <<q, n>> \in old
                  \/ q = o /\ v = w /\ n <= Need[o][p]
        <3> SUFFICES ASSUME NEW q \in Orders, NEW n \in 1..MaxQuantity
                     PROVE  <<q, n>> \in Promise!Units(Promise!Holding, v, p)' <=>
                                \/ <<q, n>> \in old
                                \/ q = o /\ v = w /\ n <= Need[o][p]
            OBVIOUS
        <3>1. <<q, n>> \in Promise!Units(Promise!Holding, v, p)' <=>
                  <<q, p>> \in Promise!Holding' /\ place'[q] = v /\ n <= Need[q][p]
            BY DEF Promise!Units
        <3>2. <<q, n>> \in old <=>
                  <<q, p>> \in Promise!Holding /\ place[q] = v /\ n <= Need[q][p]
            BY DEF Promise!Units
        <3>3. n <= Need[o][p] => Need[o][p] > 0
            BY <1>4
        <3> HIDE DEF old
        <3> QED  BY <1>2, <2>1, <2>2, <3>1, <3>2, <3>3
    <2>4. Promise!Units(Promise!Holding, v, p)' = old \cup new
        <3>1. \A q \in Orders, n \in 1..MaxQuantity :
                  <<q, n>> \in new <=> q = o /\ v = w /\ n <= Need[o][p]
            BY <1>4
        <3>2. new \subseteq Orders \X (1..MaxQuantity)
            BY <1>4, ReservationAssumption
        <3>3. /\ old \subseteq Orders \X (1..MaxQuantity)
              /\ Promise!Units(Promise!Holding, v, p)' \subseteq Orders \X (1..MaxQuantity)
            BY DEF Promise!Units
        <3> HIDE DEF new, old
        <3> QED  BY <2>3, <3>1, <3>2, <3>3
    <2>5. old \cap new = {}
        BY <1>4, <2>2 DEF Promise!Units
    <2>6. IsFiniteSet(new) /\ Cardinality(new) = IF v = w THEN Need[o][p] ELSE 0
        <3>1. Need[o][p] \in Nat
            BY <1>4
        <3>2. /\ IsFiniteSet({o} \X (1..Need[o][p]))
              /\ Cardinality({o} \X (1..Need[o][p])) = Need[o][p]
            BY <3>1, LineUnits
        <3> QED  BY <3>2, FS_EmptySet
    <2>7. IsFiniteSet(old)
        BY UnitsFinite
    <2> HIDE DEF new, old
    <2>8. Cardinality(old \cup new) = Cardinality(old) + Cardinality(new)
        <3>1. Cardinality(old) \in Nat /\ Cardinality(new) \in Nat
            BY <2>6, <2>7, FS_CardinalityType
        <3>2. Cardinality(old \cap new) = 0
            BY <2>5, FS_EmptySet
        <3>3. Cardinality(old \cup new) =
                  Cardinality(old) + Cardinality(new) - Cardinality(old \cap new)
            BY <2>6, <2>7, FS_Union, Zenon
        <3> QED  BY <3>1, <3>2, <3>3
    <2>9. Promise!Quantity(Promise!Holding, v, p)' =
              Cardinality(Promise!Units(Promise!Holding, v, p)')
        BY SameCardinality DEF Promise!Quantity
    <2>10. Promise!Quantity(Promise!Holding, v, p) = Cardinality(old)
        BY SameCardinality DEF Promise!Quantity, old
    <2>11. /\ reserved[v][p] = SeedReserved[v][p] + Promise!Quantity(Promise!Holding, v, p)
           /\ reserved[v][p] <= onHand[v][p]
        BY DEF Books, LedgerBalances, NeverOversold, Promise!LedgerBalances,
               Promise!NeverOversold
    <2>12. /\ reserved[v][p] \in Nat /\ SeedReserved[v][p] \in Nat /\ onHand[v][p] \in Nat
           /\ Promise!Quantity(Promise!Holding, v, p) \in Nat
        BY QuantityType, ReservationAssumption DEF TypeOK
    <2>13. v = w => reserved[v][p] + Need[o][p] <= onHand[v][p]
        <3>1. CASE Need[o][p] > 0
            BY <1>1, <1>4, <2>12, <3>1 DEF Promise!Lines
        <3>2. CASE Need[o][p] = 0
            BY <2>11, <2>12, <3>2
        <3> QED  BY <1>4, <3>1, <3>2
    <2> QED
        BY <1>1, <1>3, <1>4, <2>4, <2>6, <2>8, <2>9, <2>10, <2>11, <2>12, <2>13
<1> QED
    BY <1>5, <1>6 DEF Books, LedgerBalances, NeverOversold, Promise!LedgerBalances,
                      Promise!NeverOversold

\* Active rows end and their units go back to inventory.
LEMMA GiveBackBooks ==
    ASSUME TypeOK, Books, NEW S \in SUBSET Promise!Active,
           NEW status \in {"released", "expired"}, Promise!GiveBack(S, status)
    PROVE  ReservedType' /\ Books'
<1>1. S \subseteq Promise!Holding
    BY DEF Promise!Active, Promise!Holding
<1>2. /\ \A o \in Orders, p \in Products :
             holds'[o][p] = IF <<o, p>> \in S THEN status ELSE holds[o][p]
      /\ UNCHANGED <<onHand, place>>
      /\ reserved' = [w \in Warehouses |-> [p \in Products |->
             reserved[w][p] - Promise!Quantity(S, w, p)]]
    BY DEF Promise!GiveBack, Promise!Marked
<1>3. Promise!Holding' = Promise!Holding \ S
    BY <1>2 DEF Promise!Holding, Promise!Rows
<1>4. ASSUME NEW w \in Warehouses, NEW p \in Products
      PROVE  /\ reserved'[w][p] \in Nat
             /\ reserved'[w][p] = SeedReserved[w][p]
                    + Promise!Quantity(Promise!Holding, w, p)'
             /\ reserved'[w][p] <= onHand'[w][p]
    <2>1. Promise!Units(Promise!Holding, w, p)' =
              Promise!Units(Promise!Holding \ S, w, p)
        BY <1>2, <1>3 DEF Promise!Units
    <2>2. Promise!Quantity(Promise!Holding, w, p)' =
              Promise!Quantity(Promise!Holding \ S, w, p)
        <3>1. Promise!Quantity(Promise!Holding, w, p)' =
                  Cardinality(Promise!Units(Promise!Holding, w, p)')
            BY SameCardinality DEF Promise!Quantity
        <3>2. Promise!Quantity(Promise!Holding \ S, w, p) =
                  Cardinality(Promise!Units(Promise!Holding \ S, w, p))
            BY SameCardinality DEF Promise!Quantity
        <3> QED  BY <2>1, <3>1, <3>2
    <2>3. Promise!Quantity(Promise!Holding \ S, w, p) =
              Promise!Quantity(Promise!Holding, w, p) - Promise!Quantity(S, w, p)
        BY <1>1, QuantityDifference
    <2>4. reserved'[w][p] = reserved[w][p] - Promise!Quantity(S, w, p)
        BY <1>2
    <2>5. /\ reserved[w][p] \in Nat /\ SeedReserved[w][p] \in Nat /\ onHand[w][p] \in Nat
          /\ Promise!Quantity(S, w, p) \in Nat
          /\ Promise!Quantity(Promise!Holding, w, p) \in Nat
          /\ Promise!Quantity(Promise!Holding \ S, w, p) \in Nat
        BY QuantityType, ReservationAssumption DEF TypeOK
    <2>6. /\ reserved[w][p] = SeedReserved[w][p] + Promise!Quantity(Promise!Holding, w, p)
          /\ reserved[w][p] <= onHand[w][p]
        BY DEF Books, LedgerBalances, NeverOversold, Promise!LedgerBalances,
               Promise!NeverOversold
    <2>7. onHand'[w][p] = onHand[w][p]
        BY <1>2
    <2> QED  BY <2>2, <2>3, <2>4, <2>5, <2>6, <2>7
<1>5. ReservedType'
    BY <1>2, <1>4 DEF ReservedType
<1> QED
    BY <1>4, <1>5 DEF Books, LedgerBalances, NeverOversold, Promise!LedgerBalances,
                      Promise!NeverOversold

\* A step that changes no hold, no warehouse of an order and nothing reserved.
LEMMA SameHolding ==
    ASSUME UNCHANGED <<reserved, place>>, Promise!Holding' = Promise!Holding,
           LedgerBalances
    PROVE  LedgerBalances'
<1> SUFFICES ASSUME NEW w \in Warehouses, NEW p \in Products
             PROVE  Promise!Quantity(Promise!Holding, w, p)' =
                        Promise!Quantity(Promise!Holding, w, p)
    BY DEF LedgerBalances, Promise!LedgerBalances
<1>1. Promise!Units(Promise!Holding, w, p)' = Promise!Units(Promise!Holding, w, p)
    BY DEF Promise!Units
<1> QED  BY <1>1, SameCardinality DEF Promise!Quantity

\* However the tables move, the books still balance.
LEMMA PromiseBooks ==
    ASSUME TypeOK, OrderShape, Books, [Promise!Next]_Promise!vars
    PROVE  ReservedType' /\ Books'
<1>1. ASSUME NEW o \in Orders, NEW w \in Warehouses, Promise!Hold(o, w)
      PROVE  ReservedType' /\ Books'
    BY <1>1, HoldBooks
<1>2. ASSUME NEW S \in SUBSET Promise!Active, Promise!Sell(S)
      PROVE  ReservedType' /\ Books'
    <2>1. UNCHANGED <<onHand, reserved, place>>
        BY <1>2 DEF Promise!Sell
    <2>2. \A o \in Orders, p \in Products :
              holds'[o][p] = IF <<o, p>> \in S THEN "committed" ELSE holds[o][p]
        BY <1>2 DEF Promise!Sell, Promise!Marked
    <2>3. Promise!Holding' = Promise!Holding
        BY <2>2 DEF Promise!Holding, Promise!Rows, Promise!Active
    <2> QED
        BY <2>1, <2>3, SameHolding
           DEF Books, NeverOversold, Promise!NeverOversold, ReservedType, TypeOK
<1>3. ASSUME NEW S \in SUBSET Promise!Active, NEW status \in {"released", "expired"},
             Promise!GiveBack(S, status)
      PROVE  ReservedType' /\ Books'
    BY <1>3, GiveBackBooks
<1>4. ASSUME Promise!Recount PROVE ReservedType' /\ Books'
    BY <1>4, SameHolding
       DEF Promise!Recount, Promise!Holding, Books, NeverOversold,
           Promise!NeverOversold, ReservedType, TypeOK
<1>5. ASSUME UNCHANGED Promise!vars PROVE ReservedType' /\ Books'
    BY <1>5, SameHolding
       DEF Promise!vars, Promise!Holding, Books, NeverOversold,
           Promise!NeverOversold, ReservedType, TypeOK
<1> QED  BY <1>1, <1>2, <1>3, <1>4, <1>5 DEF Promise!Next
-----------------------------------------------------------------------------
(* Every commit is a step of the promise *)

LEMMA SameLines == \A o \in Orders : Promise!Lines(o) = Lines(o)
BY DEF Promise!Lines, Lines

LEMMA HoldStep ==
    ASSUME RowInv, NEW o \in Orders, CommitHold(o)
    PROVE  target[o] \in Warehouses /\ Promise!Hold(o, target[o])
<1>1. /\ pc[o] = "reserve" /\ applied[o] = LineRows(o) /\ o \in Txs
      /\ target[o] \in Warehouses /\ place[o] = None
    BY DEF CommitHold, RowInv, Shape, OrderShape, Txs
<1>2. ASSUME NEW p \in Lines(o)
      PROVE  onHand[target[o]][p] - reserved[target[o]][p] >= Need[o][p]
    <2>1. p \in Products /\ <<o, p>> \in LineRows(o)
        BY DEF Lines, LineRows, Rows
    <2>2. HasEnough(<<o, p>>)
        BY <1>1, <2>1 DEF RowInv, Locks, TestsHold
    <2> QED  BY <2>2 DEF HasEnough, Available, Cell, Qty
<1> QED  BY <1>1, <1>2, SameLines DEF CommitHold, Promise!Hold

LEMMA SettleStepKeeps ==
    ASSUME RowInv, NEW t \in Txs, CommitSettle(t)
    PROVE  Promise!Next
<1>1. /\ pc[t] = "settle" /\ plan[t] = {} /\ applied[t] = GivesBack(t)
      /\ holds' = Marked(claimed[t], goal[t]) /\ reserved' = GivenBack(applied[t])
      /\ UNCHANGED <<onHand, place>>
    BY DEF CommitSettle
<1>2. claimed[t] \in SUBSET Promise!Active
    BY DEF RowInv, TypeOK, Locks, Claims, Promise!Active, Promise!Rows, Rows
<1>3. holds' = Promise!Marked(claimed[t], goal[t])
    BY <1>1 DEF Marked, Promise!Marked
<1>4. /\ goal[t] \in {"released", "committed", "expired"}
      /\ TypeOK /\ OrderShape /\ claimed[t] \in SUBSET Rows
    BY <1>1 DEF RowInv, Shape, WorkShape, TypeOK
<1>5. CASE goal[t] = "committed"
    <2>1. applied[t] = {}
        BY <1>1, <1>5 DEF GivesBack
    <2>2. \A w \in Warehouses, p \in Products : reserved'[w][p] = reserved[w][p]
        <3> SUFFICES ASSUME NEW w \in Warehouses, NEW p \in Products
                     PROVE  reserved'[w][p] = reserved[w][p]
            OBVIOUS
        <3>1. Units({}, <<w, p>>) = {}
            BY DEF Units
        <3>2. Quantity({}, <<w, p>>) = 0
            BY <3>1, FS_EmptySet DEF Quantity
        <3>3. reserved'[w][p] = reserved[w][p] - Quantity({}, <<w, p>>)
            BY <1>1, <2>1 DEF GivenBack
        <3>4. reserved[w][p] \in Nat
            BY <1>4 DEF TypeOK
        <3> QED  BY <3>2, <3>3, <3>4
    <2>3. reserved' = reserved
        <3>1. reserved' = [w \in Warehouses |-> [p \in Products |-> reserved'[w][p]]]
            BY <1>1 DEF GivenBack
        <3>2. reserved = [w \in Warehouses |-> [p \in Products |-> reserved[w][p]]]
            BY <1>4 DEF TypeOK
        <3> QED  BY <2>2, <3>1, <3>2
    <2>4. Promise!Sell(claimed[t])
        BY <1>1, <1>3, <1>5, <2>3 DEF Promise!Sell
    <2> QED  BY <1>2, <2>4 DEF Promise!Next
<1>6. CASE goal[t] # "committed"
    <2>1. applied[t] = claimed[t]
        BY <1>1, <1>6 DEF GivesBack
    <2>2. \A w \in Warehouses, p \in Products :
              Quantity(claimed[t], <<w, p>>) = Promise!Quantity(claimed[t], w, p)
        BY <1>4, QuantityAgrees DEF RowInv, Locks, Claims
    <2>3. reserved' = [w \in Warehouses |-> [p \in Products |->
              reserved[w][p] - Promise!Quantity(claimed[t], w, p)]]
        BY <1>1, <2>1, <2>2 DEF GivenBack
    <2>4. Promise!GiveBack(claimed[t], goal[t])
        BY <1>1, <1>3, <2>3 DEF Promise!GiveBack
    <2>5. goal[t] \in {"released", "expired"}
        BY <1>4, <1>6
    <2> QED  BY <1>2, <2>4, <2>5 DEF Promise!Next
<1> QED  BY <1>5, <1>6

LEMMA SeedKeeps ==
    ASSUME RowInv, NEW s \in Seeders, CommitSeed(s)
    PROVE  Promise!Recount
<1>1. /\ onHand' = Count[s] /\ listed[s] = Len(SeedList)
      /\ UNCHANGED <<reserved, holds, place>>
    BY DEF CommitSeed
<1>2. Count[s] \in [Warehouses -> [Products -> Nat]]
    BY ReservationAssumption
<1>3. ASSUME NEW w \in Warehouses, NEW p \in Products
      PROVE  reserved[w][p] <= Count[s][w][p]
    <2>1. <<w, p>> \in Cells
        BY DEF Cells
    <2>2. PICK i \in 1..Len(SeedList) : SeedList[i] = <<w, p>>
        BY <2>1, ReservationAssumption
    <2>3. Fits(s, SeedList[i])
        BY <1>1 DEF RowInv, Locks, TestsHold
    <2> QED  BY <2>2, <2>3 DEF Fits
<1> QED  BY <1>1, <1>2, <1>3 DEF Promise!Recount

LEMMA PromiseStep ==
    ASSUME RowInv, [Next]_vars
    PROVE  [Promise!Next]_Promise!vars
<1>1. ASSUME NEW o \in Orders, OrderStep(o) \/ HoldLapses(o)
      PROVE  [Promise!Next]_Promise!vars
    <2>1. CASE CommitHold(o)
        BY <2>1, HoldStep DEF Promise!Next
    <2>2. CASE Begin(o) \/ ReserveItem(o) \/ InsufficientStock(o) \/ Settle(o)
               \/ HoldLapses(o)
        BY <2>2 DEF Begin, ReserveItem, InsufficientStock, Rollback, Settle, Claim,
                    HoldLapses, tableVars, Promise!vars
    <2> QED  BY <1>1, <2>1, <2>2 DEF OrderStep
<1>2. ASSUME NEW s \in Sweepers, Sweep(s) PROVE [Promise!Next]_Promise!vars
    BY <1>2 DEF Sweep, Claim, tableVars, Promise!vars
<1>3. ASSUME NEW t \in Orders \cup Sweepers, SettleStep(t)
      PROVE  [Promise!Next]_Promise!vars
    <2>1. CASE CommitSettle(t)
        BY <2>1, SettleStepKeeps DEF Txs
    <2>2. CASE Visit(t) \/ ReturnItem(t)
        BY <2>2 DEF Visit, ReturnItem, tableVars, Promise!vars
    <2> QED  BY <1>3, <2>1, <2>2 DEF SettleStep
<1>4. ASSUME NEW s \in Seeders, SeedStep(s) PROVE [Promise!Next]_Promise!vars
    <2>1. CASE CommitSeed(s)
        BY <2>1, SeedKeeps DEF Promise!Next
    <2>2. CASE StartSeed(s) \/ UpsertRow(s) \/ BreaksCheck(s)
        BY <2>2 DEF StartSeed, UpsertRow, BreaksCheck, Rollback, tableVars, Promise!vars
    <2> QED  BY <1>4, <2>1, <2>2 DEF SeedStep
<1>5. ASSUME NEW t \in Txs, Crash(t) PROVE [Promise!Next]_Promise!vars
    BY <1>5 DEF Crash, Rollback, tableVars, Promise!vars
<1>6. ASSUME UNCHANGED vars PROVE [Promise!Next]_Promise!vars
    BY <1>6 DEF vars, tableVars, Promise!vars
<1> QED  BY <1>1, <1>2, <1>3, <1>4, <1>5, <1>6 DEF Next, Idle
-----------------------------------------------------------------------------
(* Types *)

LEMMA EndTypes ==
    ASSUME TypeOK, NEW t \in Txs, NEW step \in PC, End(t, step)
    PROVE  /\ pc' \in [Txs -> PC] /\ goal' \in [Txs -> HoldStatus]
           /\ plan' \in [Txs -> SUBSET Rows] /\ claimed' \in [Txs -> SUBSET Rows]
           /\ applied' \in [Txs -> SUBSET Rows]
           /\ listed' \in [Txs -> 0..Len(SeedList)]
<1>1. 0 \in 0..Len(SeedList)
    BY ReservationAssumption
<1> QED  BY <1>1 DEF TypeOK, End, HoldStatus

LEMMA ClaimTypes ==
    ASSUME TypeOK, NEW t \in Txs, NEW status \in HoldStatus, NEW S \in SUBSET Rows,
           Claim(t, status, S)
    PROVE  TypeOK'
BY DEF TypeOK, Claim, tableVars, PC

LEMMA RollbackTypes ==
    ASSUME TypeOK, NEW t \in Txs, Rollback(t)
    PROVE  TypeOK'
<1>1. PICK step \in PC : End(t, step)
    BY DEF Rollback, PC
<1> QED  BY <1>1, EndTypes DEF Rollback, TypeOK, tableVars

LEMMA TypeNext ==
    ASSUME TypeOK, ReservedType', [Next]_vars
    PROVE  TypeOK'
<1>1. ASSUME NEW o \in Orders, OrderStep(o) PROVE TypeOK'
    <2>0. o \in Txs
        BY DEF Txs
    <2>1. CASE Begin(o)
        BY <2>0, <2>1 DEF Begin, TypeOK, tableVars, PC
    <2>2. CASE ReserveItem(o)
        BY <2>0, <2>2 DEF ReserveItem, NextRows, LineRows, TypeOK, tableVars
    <2>3. CASE InsufficientStock(o)
        BY <2>0, <2>3, RollbackTypes DEF InsufficientStock
    <2>4. CASE CommitHold(o)
        <3>1. End(o, "held") /\ "held" \in PC
            BY <2>4 DEF CommitHold, PC
        <3>2. holds' \in [Orders -> [Products -> HoldStatus]]
            BY <2>4 DEF CommitHold, TypeOK, HoldStatus
        <3>3. /\ place' \in [Orders -> Warehouses \cup {None}]
              /\ UNCHANGED <<onHand, lapsed, target>>
            BY <2>4 DEF CommitHold, TypeOK
        <3> QED  BY <2>0, <3>1, <3>2, <3>3, EndTypes DEF TypeOK, ReservedType
    <2>5. CASE Settle(o)
        BY <2>0, <2>5, ClaimTypes DEF Settle, ActiveRows, HoldStatus
    <2> QED  BY <1>1, <2>1, <2>2, <2>3, <2>4, <2>5 DEF OrderStep
<1>2. ASSUME NEW s \in Sweepers, Sweep(s) PROVE TypeOK'
    BY <1>2, ClaimTypes DEF Sweep, Expired, HoldStatus, Txs
<1>3. ASSUME NEW t \in Orders \cup Sweepers, SettleStep(t) PROVE TypeOK'
    <2>0. t \in Txs
        BY DEF Txs
    <2>1. CASE Visit(t)
        BY <2>0, <2>1 DEF Visit, TypeOK, tableVars
    <2>2. CASE ReturnItem(t)
        BY <2>0, <2>2 DEF ReturnItem, NextRows, GivesBack, TypeOK, tableVars
    <2>3. CASE CommitSettle(t)
        <3>1. PICK step \in PC : End(t, step)
            BY <2>3 DEF CommitSettle, PC
        <3>2. goal[t] \in HoldStatus
            BY <2>0 DEF TypeOK
        <3>3. holds' \in [Orders -> [Products -> HoldStatus]]
            BY <2>3, <3>2 DEF CommitSettle, Marked, TypeOK
        <3>4. UNCHANGED <<onHand, place, lapsed, target>>
            BY <2>3 DEF CommitSettle
        <3> QED  BY <2>0, <3>1, <3>3, <3>4, EndTypes DEF TypeOK, ReservedType
    <2> QED  BY <1>3, <2>1, <2>2, <2>3 DEF SettleStep
<1>4. ASSUME NEW s \in Seeders, SeedStep(s) PROVE TypeOK'
    <2>0. s \in Txs
        BY DEF Txs
    <2>1. CASE StartSeed(s)
        BY <2>0, <2>1 DEF StartSeed, TypeOK, tableVars, PC
    <2>2. CASE UpsertRow(s)
        <3>1. listed[s] \in 0..Len(SeedList) /\ Len(SeedList) \in Nat
            BY <2>0, ReservationAssumption DEF TypeOK
        <3>2. listed[s] + 1 \in 0..Len(SeedList)
            BY <2>2, <3>1 DEF UpsertRow
        <3> QED  BY <2>0, <2>2, <3>2 DEF UpsertRow, TypeOK, tableVars
    <2>3. CASE BreaksCheck(s)
        BY <2>0, <2>3, RollbackTypes DEF BreaksCheck
    <2>4. CASE CommitSeed(s)
        <3>1. End(s, "ended") /\ "ended" \in PC
            BY <2>4 DEF CommitSeed, PC
        <3>2. onHand' \in [Warehouses -> [Products -> Nat]]
            BY <2>4, ReservationAssumption DEF CommitSeed
        <3> QED  BY <2>0, <2>4, <3>1, <3>2, EndTypes DEF CommitSeed, TypeOK
    <2> QED  BY <1>4, <2>1, <2>2, <2>3, <2>4 DEF SeedStep
<1>5. ASSUME NEW t \in Txs, Crash(t) PROVE TypeOK'
    BY <1>5, RollbackTypes DEF Crash
<1>6. ASSUME NEW o \in Orders, HoldLapses(o) PROVE TypeOK'
    <2>1. lapsed' \in Seq(Orders)
        BY <1>6 DEF HoldLapses, TypeOK
    <2> QED  BY <1>6, <2>1 DEF HoldLapses, tableVars, txVars, TypeOK
<1>7. ASSUME UNCHANGED vars PROVE TypeOK'
    BY <1>7 DEF vars, tableVars, txVars, TypeOK
<1> QED  BY <1>1, <1>2, <1>3, <1>4, <1>5, <1>6, <1>7 DEF Next, Idle

-----------------------------------------------------------------------------
(* Shape *)

\* A step of one transaction that leaves the others where they are.
OthersStay(t) ==
    \A u \in Txs : u # t =>
        /\ pc'[u] = pc[u] /\ goal'[u] = goal[u] /\ plan'[u] = plan[u]
        /\ claimed'[u] = claimed[u] /\ applied'[u] = applied[u]
        /\ listed'[u] = listed[u]

LEMMA EndEffect ==
    ASSUME TypeOK, NEW t \in Txs, NEW step, End(t, step)
    PROVE  /\ pc'[t] = step /\ plan'[t] = {} /\ claimed'[t] = {}
           /\ applied'[t] = {} /\ listed'[t] = 0
           /\ OthersStay(t)
BY DEF TypeOK, End, OthersStay

LEMMA SameToUpdate ==
    ASSUME NEW u \in Txs, pc'[u] = pc[u], goal'[u] = goal[u], plan'[u] = plan[u],
           claimed'[u] = claimed[u]
    PROVE  ToUpdate(u)' = ToUpdate(u)
BY DEF ToUpdate, GivesBack, LineRows, Lines

LEMMA WorkFrame ==
    ASSUME TypeOK, WorkShape, NEW t \in Txs, OthersStay(t),
           pc'[t] # "settle" => plan'[t] = {} /\ claimed'[t] = {},
           pc'[t] = "settle" => goal'[t] \in {"released", "committed", "expired"},
           applied'[t] \subseteq ToUpdate(t)',
           pc'[t] # "upsert" => listed'[t] = 0
    PROVE  WorkShape'
<1> SUFFICES ASSUME NEW u \in Txs
             PROVE  /\ pc'[u] # "settle" => plan'[u] = {} /\ claimed'[u] = {}
                    /\ pc'[u] = "settle" =>
                           goal'[u] \in {"released", "committed", "expired"}
                    /\ applied'[u] \subseteq ToUpdate(u)'
                    /\ pc'[u] # "upsert" => listed'[u] = 0
    BY DEF WorkShape
<1>1. CASE u = t
    BY <1>1
<1>2. CASE u # t
    BY <1>2, SameToUpdate DEF OthersStay, WorkShape
<1> QED  BY <1>1, <1>2

LEMMA OrderFrame ==
    ASSUME OrderShape, NEW t \in Txs, OthersStay(t), UNCHANGED <<place, target, holds>>,
           t \in Orders =>
               /\ pc'[t] \in {"start", "reserve", "held", "settle", "ended", "failed"}
               /\ pc'[t] \in {"start", "reserve"} => pc'[t] = pc[t]
    PROVE  OrderShape'
<1> SUFFICES ASSUME NEW o \in Orders
             PROVE
        /\ pc'[o] \in {"start", "reserve", "held", "settle", "ended", "failed"}
        /\ pc'[o] \in {"start", "reserve"} => place[o] = None
        /\ pc'[o] = "reserve" => target[o] \in Warehouses
        /\ place[o] # None => target[o] = place[o]
        /\ \A p \in Products : holds[o][p] # "none" => place[o] # None
    BY DEF OrderShape
<1>1. CASE o = t
    BY <1>1 DEF OrderShape
<1>2. CASE o # t
    BY <1>2 DEF OrderShape, OthersStay, Txs
<1> QED  BY <1>1, <1>2

LEMMA JobFrame ==
    ASSUME JobShape, NEW t \in Txs, OthersStay(t),
           t \in Sweepers => pc'[t] \in {"idle", "settle"},
           t \in Seeders => pc'[t] \in {"idle", "upsert", "ended"}
    PROVE  JobShape'
BY DEF JobShape, OthersStay, Txs

LEMMA RollbackShape ==
    ASSUME TypeOK, Shape, NEW t \in Txs, Rollback(t)
    PROVE  Shape'
<1>1. /\ End(t, IF t \in Orders THEN "failed" ELSE "idle")
      /\ UNCHANGED <<place, target, holds>>
    BY DEF Rollback, tableVars
<1>2. /\ pc'[t] = IF t \in Orders THEN "failed" ELSE "idle"
      /\ plan'[t] = {} /\ claimed'[t] = {} /\ applied'[t] = {} /\ listed'[t] = 0
      /\ OthersStay(t)
    BY <1>1, EndEffect
<1>3. t \in Sweepers \/ t \in Seeders => t \notin Orders
    BY ReservationAssumption
<1>4. OrderShape'
    BY <1>1, <1>2, OrderFrame DEF Shape
<1>5. JobShape'
    BY <1>2, <1>3, JobFrame DEF Shape
<1>6. WorkShape'
    BY <1>2, WorkFrame DEF Shape
<1> QED  BY <1>4, <1>5, <1>6 DEF Shape

LEMMA ClaimShape ==
    ASSUME TypeOK, Shape, NEW t \in Orders \cup Sweepers, NEW S,
           NEW status \in {"released", "committed", "expired"},
           pc[t] \in {"held", "idle"}, Claim(t, status, S)
    PROVE  Shape'
<1>0. t \in Txs /\ t \notin Seeders
    BY ReservationAssumption DEF Txs
<1>1. UNCHANGED <<place, target, holds, claimed, applied, listed>>
    BY DEF Claim, tableVars
<1>2. /\ pc'[t] = "settle" /\ goal'[t] = status /\ OthersStay(t)
    BY <1>0 DEF Claim, TypeOK, OthersStay
<1>3. /\ applied[t] \subseteq ToUpdate(t) /\ listed[t] = 0
    BY <1>0 DEF Shape, WorkShape
<1>4. applied'[t] = {} /\ listed'[t] = 0
    BY <1>1, <1>3 DEF ToUpdate, GivesBack
<1>5. OrderShape'
    BY <1>0, <1>1, <1>2, OrderFrame DEF Shape
<1>6. JobShape'
    BY <1>0, <1>2, JobFrame DEF Shape
<1>7. WorkShape'
    BY <1>0, <1>2, <1>4, WorkFrame DEF Shape
<1> QED  BY <1>5, <1>6, <1>7 DEF Shape

LEMMA SettleShape ==
    ASSUME TypeOK, Shape, Claims, NEW t \in Orders \cup Sweepers, SettleStep(t)
    PROVE  Shape'
<1>0. t \in Txs /\ t \notin Seeders /\ (t \in Sweepers => t \notin Orders)
    BY ReservationAssumption DEF Txs
<1>1. CASE Visit(t)
    <2>1. /\ pc[t] = "settle" /\ plan[t] # {}
          /\ UNCHANGED <<pc, place, target, holds, goal, applied, listed>>
          /\ OthersStay(t)
        BY <1>0, <1>1 DEF Visit, tableVars, TypeOK, OthersStay
    <2>2. applied[t] \subseteq ToUpdate(t) /\ listed[t] = 0
          /\ goal[t] \in {"released", "committed", "expired"}
        BY <1>0, <2>1 DEF Shape, WorkShape
    <2>3. applied'[t] = {}
        BY <2>1, <2>2 DEF ToUpdate, GivesBack
    <2>4. OrderShape'
        BY <1>0, <2>1, OrderFrame DEF Shape, OrderShape
    <2>5. JobShape'
        BY <1>0, <2>1, JobFrame DEF Shape, JobShape
    <2>6. WorkShape'
        BY <1>0, <2>1, <2>2, <2>3, WorkFrame DEF Shape
    <2> QED  BY <2>4, <2>5, <2>6 DEF Shape
<1>2. CASE ReturnItem(t)
    <2>1. /\ UNCHANGED <<pc, place, target, holds, goal, plan, claimed, listed>>
          /\ OthersStay(t)
          /\ \E row \in GivesBack(t) : applied'[t] = applied[t] \cup {row}
        BY <1>0, <1>2 DEF ReturnItem, NextRows, tableVars, TypeOK, OthersStay
    <2>2. /\ pc[t] = "settle" /\ listed[t] = 0 /\ applied[t] \subseteq ToUpdate(t)
          /\ goal[t] \in {"released", "committed", "expired"}
        BY <1>0, <2>1 DEF GivesBack, Shape, WorkShape
    <2>3. applied'[t] \subseteq ToUpdate(t)'
        BY <2>1, <2>2 DEF ToUpdate, GivesBack
    <2>4. OrderShape'
        BY <1>0, <2>1, OrderFrame DEF Shape, OrderShape
    <2>5. JobShape'
        BY <1>0, <2>1, JobFrame DEF Shape, JobShape
    <2>6. WorkShape'
        BY <1>0, <2>1, <2>2, <2>3, WorkFrame DEF Shape
    <2> QED  BY <2>4, <2>5, <2>6 DEF Shape
<1>3. CASE CommitSettle(t)
    <2>1. /\ End(t, IF t \in Orders THEN "ended" ELSE "idle")
          /\ holds' = Marked(claimed[t], goal[t]) /\ UNCHANGED <<place, target>>
        BY <1>3 DEF CommitSettle
    <2>2. /\ pc'[t] = IF t \in Orders THEN "ended" ELSE "idle"
          /\ plan'[t] = {} /\ claimed'[t] = {} /\ applied'[t] = {} /\ listed'[t] = 0
          /\ OthersStay(t)
        BY <1>0, <2>1, EndEffect
    <2>3. \A o \in Orders, p \in Products :
              holds'[o][p] # "none" => holds[o][p] # "none"
        BY <1>0, <2>1 DEF Marked, Claims
    <2>4. OrderShape'
        <3> SUFFICES ASSUME NEW o \in Orders
                     PROVE
            /\ pc'[o] \in {"start", "reserve", "held", "settle", "ended", "failed"}
            /\ pc'[o] \in {"start", "reserve"} => place[o] = None
            /\ pc'[o] = "reserve" => target[o] \in Warehouses
            /\ place[o] # None => target[o] = place[o]
            /\ \A p \in Products : holds'[o][p] # "none" => place[o] # None
            BY <2>1 DEF OrderShape
        <3>1. CASE o = t
            BY <2>2, <2>3, <3>1 DEF Shape, OrderShape
        <3>2. CASE o # t
            BY <2>2, <2>3, <3>2 DEF Shape, OrderShape, OthersStay, Txs
        <3> QED  BY <3>1, <3>2
    <2>5. JobShape'
        BY <1>0, <2>2, JobFrame DEF Shape
    <2>6. WorkShape'
        BY <1>0, <2>2, WorkFrame DEF Shape
    <2> QED  BY <2>4, <2>5, <2>6 DEF Shape
<1> QED  BY <1>1, <1>2, <1>3 DEF SettleStep

LEMMA OrderStepShape ==
    ASSUME TypeOK, Shape, NEW o \in Orders, OrderStep(o)
    PROVE  Shape'
<1>0. o \in Txs /\ o \notin Seeders /\ o \notin Sweepers
    BY ReservationAssumption DEF Txs
<1>1. CASE Begin(o)
    <2>1. /\ pc[o] = "start" /\ pc'[o] = "reserve" /\ OthersStay(o)
          /\ UNCHANGED <<place, holds, goal, plan, claimed, applied, listed>>
        BY <1>0, <1>1 DEF Begin, tableVars, TypeOK, OthersStay
    <2>2. /\ target'[o] \in Warehouses
          /\ \A u \in Orders : u # o => target'[u] = target[u]
        BY <1>1 DEF Begin, TypeOK
    <2>3. applied[o] = {} /\ plan[o] = {} /\ claimed[o] = {} /\ listed[o] = 0
        BY <1>0, <2>1 DEF Shape, WorkShape, ToUpdate, GivesBack
    <2>4. OrderShape'
        <3> SUFFICES ASSUME NEW u \in Orders
                     PROVE
            /\ pc'[u] \in {"start", "reserve", "held", "settle", "ended", "failed"}
            /\ pc'[u] \in {"start", "reserve"} => place[u] = None
            /\ pc'[u] = "reserve" => target'[u] \in Warehouses
            /\ place[u] # None => target'[u] = place[u]
            /\ \A p \in Products : holds[u][p] # "none" => place[u] # None
            BY <2>1 DEF OrderShape
        <3>1. CASE u = o
            BY <2>1, <2>2, <3>1 DEF Shape, OrderShape
        <3>2. CASE u # o
            BY <2>1, <2>2, <3>2 DEF Shape, OrderShape, OthersStay, Txs
        <3> QED  BY <3>1, <3>2
    <2>5. JobShape'
        BY <1>0, <2>1, JobFrame DEF Shape
    <2>6. WorkShape'
        BY <1>0, <2>1, <2>3, WorkFrame DEF Shape
    <2> QED  BY <2>4, <2>5, <2>6 DEF Shape
<1>2. CASE ReserveItem(o)
    <2>1. /\ pc[o] = "reserve" /\ OthersStay(o)
          /\ UNCHANGED <<pc, place, target, holds, goal, plan, claimed, listed>>
          /\ \E row \in LineRows(o) : applied'[o] = applied[o] \cup {row}
        BY <1>0, <1>2 DEF ReserveItem, NextRows, tableVars, TypeOK, OthersStay
    <2>2. /\ plan[o] = {} /\ claimed[o] = {} /\ listed[o] = 0
          /\ applied[o] \subseteq ToUpdate(o)
        BY <1>0, <2>1 DEF Shape, WorkShape
    <2>3. applied'[o] \subseteq ToUpdate(o)'
        BY <2>1, <2>2 DEF ToUpdate, LineRows, Lines
    <2>4. OrderShape'
        BY <1>0, <2>1, OrderFrame DEF Shape, OrderShape
    <2>5. JobShape'
        BY <1>0, <2>1, JobFrame DEF Shape
    <2>6. WorkShape'
        BY <1>0, <2>1, <2>2, <2>3, WorkFrame DEF Shape
    <2> QED  BY <2>4, <2>5, <2>6 DEF Shape
<1>3. CASE InsufficientStock(o)
    BY <1>0, <1>3, RollbackShape DEF InsufficientStock
<1>4. CASE CommitHold(o)
    <2>1. /\ pc[o] = "reserve" /\ End(o, "held") /\ UNCHANGED target
          /\ place' = [place EXCEPT ![o] = target[o]]
          /\ holds' = [holds EXCEPT ![o] =
                 [p \in Products |-> IF p \in Lines(o) THEN "active" ELSE "none"]]
        BY <1>4 DEF CommitHold
    <2>2. /\ pc'[o] = "held" /\ OthersStay(o)
          /\ plan'[o] = {} /\ claimed'[o] = {} /\ applied'[o] = {} /\ listed'[o] = 0
        BY <1>0, <2>1, EndEffect
    <2>3. /\ place'[o] = target[o] /\ target[o] # None
          /\ \A u \in Orders : u # o => place'[u] = place[u] /\ holds'[u] = holds[u]
        BY <2>1, ReservationAssumption DEF TypeOK, Shape, OrderShape
    <2>4. OrderShape'
        <3> SUFFICES ASSUME NEW u \in Orders
                     PROVE
            /\ pc'[u] \in {"start", "reserve", "held", "settle", "ended", "failed"}
            /\ pc'[u] \in {"start", "reserve"} => place'[u] = None
            /\ pc'[u] = "reserve" => target[u] \in Warehouses
            /\ place'[u] # None => target[u] = place'[u]
            /\ \A p \in Products : holds'[u][p] # "none" => place'[u] # None
            BY <2>1 DEF OrderShape
        <3>1. CASE u = o
            BY <2>2, <2>3, <3>1
        <3>2. CASE u # o
            BY <2>2, <2>3, <3>2 DEF Shape, OrderShape, OthersStay, Txs
        <3> QED  BY <3>1, <3>2
    <2>5. JobShape'
        BY <1>0, <2>2, JobFrame DEF Shape
    <2>6. WorkShape'
        BY <1>0, <2>2, WorkFrame DEF Shape
    <2> QED  BY <2>4, <2>5, <2>6 DEF Shape
<1>5. CASE Settle(o)
    BY <1>0, <1>5, ClaimShape DEF Settle
<1> QED  BY <1>1, <1>2, <1>3, <1>4, <1>5 DEF OrderStep

LEMMA SeedShape ==
    ASSUME TypeOK, Shape, NEW s \in Seeders, SeedStep(s)
    PROVE  Shape'
<1>0. s \in Txs /\ s \notin Orders /\ s \notin Sweepers
    BY ReservationAssumption DEF Txs
<1>1. CASE StartSeed(s) \/ UpsertRow(s)
    <2>1. /\ pc[s] # "settle" /\ pc[s] # "reserve" /\ pc'[s] = "upsert" /\ OthersStay(s)
          /\ UNCHANGED <<place, target, holds, goal, plan, claimed, applied>>
        BY <1>0, <1>1 DEF StartSeed, UpsertRow, tableVars, TypeOK, OthersStay
    <2>2. plan[s] = {} /\ claimed[s] = {} /\ applied[s] = {}
        BY <1>0, <2>1 DEF Shape, WorkShape, ToUpdate, GivesBack
    <2>3. OrderShape'
        BY <1>0, <2>1, OrderFrame DEF Shape
    <2>4. JobShape'
        BY <1>0, <2>1, JobFrame DEF Shape
    <2>5. WorkShape'
        BY <1>0, <2>1, <2>2, WorkFrame DEF Shape
    <2> QED  BY <2>3, <2>4, <2>5 DEF Shape
<1>2. CASE BreaksCheck(s)
    BY <1>0, <1>2, RollbackShape DEF BreaksCheck
<1>3. CASE CommitSeed(s)
    <2>1. End(s, "ended") /\ UNCHANGED <<place, target, holds>>
        BY <1>3 DEF CommitSeed
    <2>2. /\ pc'[s] = "ended" /\ OthersStay(s)
          /\ plan'[s] = {} /\ claimed'[s] = {} /\ applied'[s] = {} /\ listed'[s] = 0
        BY <1>0, <2>1, EndEffect
    <2>3. OrderShape'
        BY <1>0, <2>1, <2>2, OrderFrame DEF Shape
    <2>4. JobShape'
        BY <1>0, <2>2, JobFrame DEF Shape
    <2>5. WorkShape'
        BY <1>0, <2>2, WorkFrame DEF Shape
    <2> QED  BY <2>3, <2>4, <2>5 DEF Shape
<1> QED  BY <1>1, <1>2, <1>3 DEF SeedStep

LEMMA ShapeNext ==
    ASSUME TypeOK, Shape, Claims, [Next]_vars
    PROVE  Shape'
<1>1. ASSUME NEW s \in Sweepers, Sweep(s) PROVE Shape'
    BY <1>1, ClaimShape DEF Sweep
<1>2. ASSUME NEW t \in Txs, Crash(t) PROVE Shape'
    BY <1>2, RollbackShape DEF Crash
<1>3. ASSUME UNCHANGED <<tableVars, txVars>> PROVE Shape'
    <2>1. UNCHANGED <<place, holds, pc, target, goal, plan, claimed, applied, listed>>
        BY <1>3 DEF tableVars, txVars
    <2>2. OrderShape' /\ JobShape'
        BY <2>1 DEF Shape, OrderShape, JobShape
    <2>3. \A t \in Txs : ToUpdate(t)' = ToUpdate(t)
        BY <2>1, SameToUpdate
    <2>4. WorkShape'
        BY <2>1, <2>3 DEF Shape, WorkShape
    <2> QED  BY <2>2, <2>4 DEF Shape
<1> QED
    BY <1>1, <1>2, <1>3, OrderStepShape, SettleShape, SeedShape
       DEF Next, Idle, HoldLapses, vars
-----------------------------------------------------------------------------
(* Locks *)

\* Begin fixes a warehouse, and so where rows count, for a transaction that has
\* locked nothing yet; every other step leaves target alone.
CellsStay(t) ==
    \A u \in Txs : u # t =>
        \A row \in ToUpdate(u) : target'[row[1]] = target[row[1]]

LEMMA TargetKept ==
    ASSUME UNCHANGED target, NEW t
    PROVE  CellsStay(t)
BY DEF CellsStay

LEMMA OthersHold ==
    ASSUME Shape, NEW t \in Txs, OthersStay(t), CellsStay(t),
           NEW u \in Txs, u # t
    PROVE  /\ applied'[u] = applied[u] /\ ToUpdate(u)' = ToUpdate(u)
           /\ \A row \in ToUpdate(u) : Cell(row)' = Cell(row)
           /\ \A c : HoldsCell(u, c)' <=> HoldsCell(u, c)
<1>1. applied'[u] = applied[u] /\ listed'[u] = listed[u] /\ ToUpdate(u)' = ToUpdate(u)
    BY SameToUpdate DEF OthersStay
<1>2. \A row \in ToUpdate(u) : Cell(row)' = Cell(row)
    BY DEF CellsStay, Cell
<1>3. applied[u] \subseteq ToUpdate(u)
    BY DEF Shape, WorkShape
<1> QED  BY <1>1, <1>2, <1>3 DEF HoldsCell

LEMMA CellsFrame ==
    ASSUME Shape, CellsApart, NEW t \in Txs, OthersStay(t), CellsStay(t),
           \A c \in Cells : HoldsCell(t, c)' => HoldsCell(t, c) \/ CellFree(t, c)
    PROVE  CellsApart'
<1> SUFFICES ASSUME NEW u \in Txs, NEW v \in Txs, NEW c \in Cells,
                    HoldsCell(u, c)', HoldsCell(v, c)', u # v
             PROVE  FALSE
    BY DEF CellsApart, Cells
<1>1. CASE u # t /\ v # t
    BY <1>1, OthersHold DEF CellsApart
<1>2. CASE u = t /\ v # t
    BY <1>2, OthersHold DEF CellsApart, CellFree
<1>3. CASE u # t /\ v = t
    BY <1>3, OthersHold DEF CellsApart, CellFree
<1> QED  BY <1>1, <1>2, <1>3

LEMMA CellTypes ==
    ASSUME TypeOK, TypeOK', NEW c \in Cells
    PROVE  /\ onHand[c[1]][c[2]] \in Nat /\ onHand'[c[1]][c[2]] \in Nat
           /\ reserved[c[1]][c[2]] \in Nat /\ reserved'[c[1]][c[2]] \in Nat
           /\ \A s \in Seeders : Count[s][c[1]][c[2]] \in Nat
<1>1. c[1] \in Warehouses /\ c[2] \in Products
    BY DEF Cells
<1>2. \A s \in Seeders : Count[s][c[1]][c[2]] \in Nat
    <2>1. \A s \in Seeders : Count[s] \in [Warehouses -> [Products -> Nat]]
        BY ReservationAssumption
    <2> QED  BY <1>1, <2>1
<1>3. /\ onHand \in [Warehouses -> [Products -> Nat]]
      /\ reserved \in [Warehouses -> [Products -> Nat]]
    BY DEF TypeOK
<1>4. /\ onHand' \in [Warehouses -> [Products -> Nat]]
      /\ reserved' \in [Warehouses -> [Products -> Nat]]
    BY DEF TypeOK
<1> QED  BY <1>1, <1>2, <1>3, <1>4

\* Nobody makes a test that another transaction relies on fail.
LEMMA TestsFrame ==
    ASSUME TypeOK, TypeOK', Shape, Claims, TestsHold,
           NEW t \in Txs, OthersStay(t), CellsStay(t),
           \A u \in Txs, c \in Cells : u # t /\ HoldsCell(u, c) =>
               /\ Available(c)' >= Available(c)
               /\ reserved'[c[1]][c[2]] <= reserved[c[1]][c[2]],
           t \in Orders /\ pc'[t] = "reserve" =>
               \A row \in applied'[t] : HasEnough(row)',
           t \in Seeders => \A i \in 1..listed'[t] : Fits(t, SeedList[i])'
    PROVE  TestsHold'
<1>1. ASSUME NEW o \in Orders, pc'[o] = "reserve", NEW row \in applied'[o]
      PROVE  HasEnough(row)'
    <2>1. CASE o = t
        BY <1>1, <2>1
    <2>2. CASE o # t
        <3>1. /\ pc[o] = "reserve" /\ row \in applied[o] /\ row \in ToUpdate(o)
              /\ Cell(row)' = Cell(row) /\ o \in Txs
            BY <1>1, <2>2, OthersHold DEF OthersStay, Txs, Shape, WorkShape
        <3>2. Cell(row) \in Cells /\ row \in Rows
            BY <3>1, WorkedRow
        <3>3. HasEnough(row) /\ HoldsCell(o, Cell(row))
            BY <3>1 DEF TestsHold, HoldsCell
        <3>4. Available(Cell(row))' >= Available(Cell(row))
            BY <2>2, <3>1, <3>2, <3>3
        <3>5. /\ Available(Cell(row)) \in Int /\ Available(Cell(row))' \in Int
              /\ Qty(row) \in Int
            <4>1. Available(Cell(row)) \in Int
                BY <3>2, CellTypes DEF Available
            <4>2. Available(Cell(row))' \in Int
                BY <3>1, <3>2, CellTypes DEF Available
            <4>3. Qty(row) \in Int
                BY <3>2, RowTypes, ReservationAssumption
            <4> QED  BY <4>1, <4>2, <4>3
        <3> QED  BY <3>1, <3>3, <3>4, <3>5 DEF HasEnough, Qty
    <2> QED  BY <2>1, <2>2
<1>2. ASSUME NEW s \in Seeders, NEW i \in 1..listed'[s]
      PROVE  Fits(s, SeedList[i])'
    <2>1. CASE s = t
        BY <2>1
    <2>2. CASE s # t
        <3>1. s \in Txs /\ i \in 1..listed[s] /\ listed[s] \in 0..Len(SeedList)
            BY <2>2 DEF OthersStay, Txs, TypeOK
        <3>2. /\ Fits(s, SeedList[i]) /\ HoldsCell(s, SeedList[i])
            BY <3>1 DEF TestsHold, HoldsCell
        <3>3. SeedList[i] \in Cells
            BY <3>1, ReservationAssumption
        <3> DEFINE c == SeedList[i]
        <3>4. reserved'[c[1]][c[2]] <= reserved[c[1]][c[2]]
            BY <2>2, <3>1, <3>2, <3>3
        <3>5. /\ reserved[c[1]][c[2]] \in Nat /\ reserved'[c[1]][c[2]] \in Nat
              /\ Count[s][c[1]][c[2]] \in Nat
            BY <3>3, CellTypes
        <3> QED  BY <3>2, <3>4, <3>5 DEF Fits
    <2> QED  BY <2>1, <2>2
<1> QED  BY <1>1, <1>2 DEF TestsHold

LEMMA SortedFrame ==
    ASSUME Shape, Sorted, NEW t \in Txs, OthersStay(t), CellsStay(t),
           \A a \in applied'[t], row \in ToUpdate(t)' \ applied'[t] :
               Position[Cell(a)'] <= Position[Cell(row)']
    PROVE  Sorted'
<1> SUFFICES ASSUME NEW u \in Txs, NEW a \in applied'[u],
                    NEW row \in ToUpdate(u)' \ applied'[u]
             PROVE  Position[Cell(a)'] <= Position[Cell(row)']
    BY DEF Sorted, Cell
<1>1. CASE u = t
    BY <1>1
<1>2. CASE u # t
    <2>1. /\ a \in applied[u] /\ row \in ToUpdate(u) \ applied[u]
          /\ applied[u] \subseteq ToUpdate(u)
        BY <1>2, OthersHold DEF Shape, WorkShape
    <2>2. Cell(a)' = Cell(a) /\ Cell(row)' = Cell(row)
        BY <1>2, <2>1, OthersHold
    <2> QED  BY <2>1, <2>2 DEF Sorted
<1> QED  BY <1>1, <1>2

CellLocks == CellsApart /\ TestsHold /\ Sorted

\* A step after which t has no inventory row locked.
LEMMA Unlocked ==
    ASSUME TypeOK, TypeOK', Shape, Claims, CellLocks,
           NEW t \in Txs, OthersStay(t), CellsStay(t),
           applied'[t] = {}, listed'[t] = 0,
           \A u \in Txs, c \in Cells : u # t /\ HoldsCell(u, c) =>
               /\ Available(c)' >= Available(c)
               /\ reserved'[c[1]][c[2]] <= reserved[c[1]][c[2]]
    PROVE  CellLocks'
<1>1. \A c \in Cells : ~HoldsCell(t, c)'
    BY DEF HoldsCell
<1>2. CellsApart'
    BY <1>1, CellsFrame DEF CellLocks
<1>3. TestsHold'
    BY TestsFrame DEF CellLocks
<1>4. Sorted'
    BY SortedFrame DEF CellLocks
<1> QED  BY <1>2, <1>3, <1>4 DEF CellLocks

\* The condition above when inventory does not change.
LEMMA SameInventory ==
    ASSUME TypeOK, UNCHANGED <<onHand, reserved>>, NEW c \in Cells
    PROVE  /\ Available(c)' >= Available(c)
           /\ reserved'[c[1]][c[2]] <= reserved[c[1]][c[2]]
<1>1. reserved[c[1]][c[2]] \in Int /\ onHand[c[1]][c[2]] \in Int
    BY DEF TypeOK, Cells
<1> QED  BY <1>1 DEF Available

LEMMA RollbackLocks ==
    ASSUME TypeOK, TypeOK', Shape, Claims, CellLocks, NEW t \in Txs, Rollback(t)
    PROVE  Claims' /\ CellLocks'
<1>1. PICK step : End(t, step)
    BY DEF Rollback
<1>2. /\ claimed'[t] = {} /\ applied'[t] = {} /\ listed'[t] = 0 /\ OthersStay(t)
      /\ UNCHANGED <<onHand, reserved, holds, target>>
    BY <1>1, EndEffect DEF Rollback, tableVars
<1>3. CellsStay(t)
    BY <1>2, TargetKept
<1>4. CellLocks'
    BY <1>2, <1>3, SameInventory, Unlocked
<1>5. Claims'
    BY <1>2 DEF Claims, OthersStay
<1> QED  BY <1>4, <1>5

LEMMA ClaimLocks ==
    ASSUME TypeOK, TypeOK', Shape, Claims, CellLocks, NEW t \in Orders \cup Sweepers,
           NEW S, NEW status, pc[t] \in {"held", "idle"}, Claim(t, status, S)
    PROVE  Claims' /\ CellLocks'
<1>1. t \in Txs
    BY DEF Txs
<1>2. /\ OthersStay(t)
      /\ UNCHANGED <<onHand, reserved, holds, target, claimed, applied, listed>>
    BY <1>1 DEF Claim, tableVars, TypeOK, OthersStay
<1>3. applied[t] = {} /\ listed[t] = 0
    BY <1>1 DEF Shape, WorkShape, ToUpdate, GivesBack
<1>4. CellsStay(t)
    BY <1>2, TargetKept
<1>5. CellLocks'
    BY <1>1, <1>2, <1>3, <1>4, SameInventory, Unlocked
<1>6. Claims'
    BY <1>2 DEF Claims
<1> QED  BY <1>5, <1>6

\* One more inventory UPDATE of a sorted loop.
LEMMA NextRowSorted ==
    ASSUME Sorted, NEW t \in Txs, NEW row \in NextRows(t, ToUpdate(t)),
           applied'[t] = applied[t] \cup {row}, ToUpdate(t)' = ToUpdate(t),
           UNCHANGED target
    PROVE  \A a \in applied'[t], other \in ToUpdate(t)' \ applied'[t] :
               Position[Cell(a)'] <= Position[Cell(other)']
<1> SUFFICES ASSUME NEW a \in applied'[t], NEW other \in ToUpdate(t)' \ applied'[t]
             PROVE  Position[Cell(a)'] <= Position[Cell(other)']
    OBVIOUS
<1>1. Cell(a)' = Cell(a) /\ Cell(other)' = Cell(other)
    BY DEF Cell
<1>2. other \in ToUpdate(t) \ applied[t]
    OBVIOUS
<1>3. CASE a = row
    BY <1>1, <1>2, <1>3 DEF NextRows
<1>4. CASE a # row
    BY <1>1, <1>2, <1>4 DEF Sorted
<1> QED  BY <1>3, <1>4

LEMMA OrderStepLocks ==
    ASSUME RowInv, TypeOK', NEW o \in Orders, OrderStep(o)
    PROVE  Claims' /\ CellLocks'
<1>0. /\ o \in Txs /\ o \notin Seeders
      /\ TypeOK /\ Shape /\ Claims /\ CellLocks
    BY ReservationAssumption DEF RowInv, Locks, CellLocks, Txs
<1>1. CASE Begin(o)
    <2>1. /\ pc[o] = "start" /\ OthersStay(o)
          /\ UNCHANGED <<onHand, reserved, holds, claimed, applied, listed>>
          /\ \A u \in Orders : u # o => target'[u] = target[u]
        BY <1>0, <1>1 DEF Begin, tableVars, TypeOK, OthersStay
    <2>2. /\ applied[o] = {} /\ listed[o] = 0 /\ place[o] = None
        BY <1>0, <2>1 DEF Shape, OrderShape, WorkShape, ToUpdate, GivesBack
    <2>3. CellsStay(o)
        <3> SUFFICES ASSUME NEW u \in Txs, u # o, NEW row \in ToUpdate(u)
                     PROVE  target'[row[1]] = target[row[1]]
            BY DEF CellsStay
        <3>1. row[1] # o /\ row[1] \in Orders
            BY <1>0, <2>2, WorkedRow, RowTypes, ReservationAssumption
        <3> QED  BY <2>1, <3>1
    <2>4. CellLocks'
        BY <1>0, <2>1, <2>2, <2>3, SameInventory, Unlocked
    <2>5. Claims'
        BY <1>0, <2>1 DEF Claims
    <2> QED  BY <2>4, <2>5
<1>2. CASE ReserveItem(o)
    <2>1. /\ pc[o] = "reserve" /\ OthersStay(o)
          /\ UNCHANGED <<onHand, reserved, holds, target, pc, goal, plan, claimed, listed>>
        BY <1>0, <1>2 DEF ReserveItem, tableVars, TypeOK, OthersStay
    <2>2. PICK row \in NextRows(o, LineRows(o)) :
              /\ CellFree(o, Cell(row)) /\ HasEnough(row)
              /\ applied' = [applied EXCEPT ![o] = @ \cup {row}]
        BY <1>2 DEF ReserveItem
    <2>3. /\ applied'[o] = applied[o] \cup {row} /\ listed'[o] = listed[o]
        BY <1>0, <2>1, <2>2 DEF TypeOK
    <2>4. CellsStay(o)
        BY <2>1, TargetKept
    <2>5. CellsApart'
        <3>1. \A c \in Cells : HoldsCell(o, c)' => HoldsCell(o, c) \/ CellFree(o, c)
            BY <1>0, <2>1, <2>2, <2>3 DEF HoldsCell, Cell
        <3> QED  BY <1>0, <2>1, <2>4, <3>1, CellsFrame DEF CellLocks
    <2>6. TestsHold'
        <3>1. \A a \in applied'[o] : HasEnough(a)'
            BY <1>0, <2>1, <2>2, <2>3
               DEF CellLocks, TestsHold, HasEnough, Available, Cell, Qty
        <3> QED  BY <1>0, <2>1, <2>4, <3>1, SameInventory, TestsFrame DEF CellLocks
    <2>7. Sorted'
        <3>1. ToUpdate(o) = LineRows(o) /\ ToUpdate(o)' = ToUpdate(o)
            BY <1>0, <2>1, SameToUpdate DEF ToUpdate
        <3>2. \A a \in applied'[o], other \in ToUpdate(o)' \ applied'[o] :
                  Position[Cell(a)'] <= Position[Cell(other)']
            BY <1>0, <2>1, <2>2, <2>3, <3>1, NextRowSorted DEF CellLocks
        <3> QED  BY <1>0, <2>1, <2>4, <3>2, SortedFrame DEF CellLocks
    <2>8. Claims'
        BY <1>0, <2>1 DEF Claims
    <2> QED  BY <2>5, <2>6, <2>7, <2>8 DEF CellLocks
<1>3. CASE InsufficientStock(o)
    BY <1>0, <1>3, RollbackLocks DEF InsufficientStock
<1>4. CASE CommitHold(o)
    <2>1. /\ pc[o] = "reserve" /\ applied[o] = LineRows(o) /\ End(o, "held")
          /\ UNCHANGED <<onHand, target>>
          /\ holds' = [holds EXCEPT ![o] =
                 [p \in Products |-> IF p \in Lines(o) THEN "active" ELSE "none"]]
        BY <1>4 DEF CommitHold
    <2>2. /\ claimed'[o] = {} /\ applied'[o] = {} /\ listed'[o] = 0 /\ OthersStay(o)
        BY <1>0, <2>1, EndEffect
    <2>3. CellsStay(o)
        BY <2>1, TargetKept
    <2>4. \A w \in Warehouses, p \in Products :
              reserved'[w][p] =
                  IF w = target[o] THEN reserved[w][p] + Need[o][p] ELSE reserved[w][p]
        BY <1>0, <1>4 DEF CommitHold, TypeOK
    <2>5. ASSUME NEW u \in Txs, NEW c \in Cells, u # o, HoldsCell(u, c)
          PROVE  /\ Available(c)' >= Available(c)
                 /\ reserved'[c[1]][c[2]] <= reserved[c[1]][c[2]]
        <3>1. c[1] \in Warehouses /\ c[2] \in Products /\ c = <<c[1], c[2]>>
            BY DEF Cells
        <3>2. Need[o][c[2]] \in Nat
            BY <3>1, ReservationAssumption
        <3>3. c[1] = target[o] => Need[o][c[2]] = 0
            <4> SUFFICES ASSUME c[1] = target[o], Need[o][c[2]] > 0 PROVE FALSE
                BY <3>2
            <4>1. <<o, c[2]>> \in applied[o]
                BY <2>1, <3>1 DEF LineRows, Lines, Rows
            <4>2. Cell(<<o, c[2]>>) = c
                BY <3>1 DEF Cell
            <4>3. HoldsCell(o, c)
                BY <4>1, <4>2 DEF HoldsCell
            <4> QED  BY <1>0, <2>5, <4>3 DEF CellLocks, CellsApart
        <3>4. reserved[c[1]][c[2]] \in Nat /\ onHand[c[1]][c[2]] \in Nat
            BY <1>0, CellTypes
        <3>5. reserved'[c[1]][c[2]] = reserved[c[1]][c[2]]
            BY <2>4, <3>1, <3>3, <3>4
        <3> QED  BY <2>1, <3>4, <3>5 DEF Available
    <2>6. CellLocks'
        BY <1>0, <2>2, <2>3, <2>5, Unlocked
    <2>7. Claims'
        <3>1. place[o] = None
            BY <1>0, <2>1 DEF Shape, OrderShape
        <3>2. \A p \in Products : holds[o][p] = "none"
            BY <1>0, <3>1 DEF Shape, OrderShape
        <3>3. \A t \in Txs : \A row \in claimed'[t] :
                  row \in claimed[t] /\ row[1] # o /\ row[1] \in Orders
            <4> SUFFICES ASSUME NEW t \in Txs, NEW row \in claimed'[t]
                         PROVE  row \in claimed[t] /\ row[1] # o /\ row[1] \in Orders
                OBVIOUS
            <4>1. row \in claimed[t] /\ row \in Rows
                BY <1>0, <2>2 DEF OthersStay, TypeOK
            <4>2. holds[row[1]][row[2]] = "active"
                BY <1>0, <4>1 DEF Claims
            <4> QED  BY <3>2, <4>1, <4>2, RowTypes
        <3>4. \A t \in Txs : \A row \in claimed'[t] :
                  holds'[row[1]][row[2]] = holds[row[1]][row[2]]
            BY <2>1, <3>3
        <3> QED  BY <1>0, <3>3, <3>4 DEF Claims
    <2> QED  BY <2>6, <2>7
<1>5. CASE Settle(o)
    BY <1>0, <1>5, ClaimLocks DEF Settle
<1> QED  BY <1>1, <1>2, <1>3, <1>4, <1>5 DEF OrderStep

LEMMA SettleLocks ==
    ASSUME RowInv, TypeOK', NEW t \in Orders \cup Sweepers, SettleStep(t)
    PROVE  Claims' /\ CellLocks'
<1>0. /\ t \in Txs /\ t \notin Seeders
      /\ TypeOK /\ Shape /\ Claims /\ CellLocks
    BY ReservationAssumption DEF RowInv, Locks, CellLocks, Txs
<1>1. CASE Visit(t)
    <2>1. /\ pc[t] = "settle" /\ plan[t] # {} /\ OthersStay(t)
          /\ UNCHANGED <<onHand, reserved, holds, target, pc, applied, listed>>
        BY <1>0, <1>1 DEF Visit, tableVars, TypeOK, OthersStay
    <2>2. applied[t] = {} /\ listed[t] = 0
        BY <1>0, <2>1 DEF Shape, WorkShape, ToUpdate, GivesBack
    <2>3. CellsStay(t)
        BY <2>1, TargetKept
    <2>4. CellLocks'
        BY <1>0, <2>1, <2>2, <2>3, SameInventory, Unlocked
    <2>5. PICK row \in plan[t] :
              /\ RowFree(t, row)
              /\ claimed' = [claimed EXCEPT ![t] =
                     IF StillActive(row) THEN @ \cup {row} ELSE @]
        BY <1>1 DEF Visit
    <2>6. /\ claimed'[t] = IF StillActive(row) THEN claimed[t] \cup {row} ELSE claimed[t]
          /\ \A u \in Txs : u # t => claimed'[u] = claimed[u] /\ row \notin claimed[u]
        BY <1>0, <2>5 DEF TypeOK, RowFree
    <2>7. Claims'
        BY <1>0, <2>1, <2>6 DEF Claims, StillActive
    <2> QED  BY <2>4, <2>7
<1>2. CASE ReturnItem(t)
    <2>1. /\ OthersStay(t)
          /\ UNCHANGED <<onHand, reserved, holds, target, pc, goal, plan, claimed, listed>>
        BY <1>0, <1>2 DEF ReturnItem, tableVars, TypeOK, OthersStay
    <2>2. PICK row \in NextRows(t, GivesBack(t)) :
              /\ CellFree(t, Cell(row))
              /\ applied' = [applied EXCEPT ![t] = @ \cup {row}]
        BY <1>2 DEF ReturnItem
    <2>3. pc[t] = "settle"
        BY <2>2 DEF NextRows, GivesBack
    <2>4. /\ applied'[t] = applied[t] \cup {row} /\ listed'[t] = listed[t]
        BY <1>0, <2>1, <2>2 DEF TypeOK
    <2>5. CellsStay(t)
        BY <2>1, TargetKept
    <2>6. CellsApart'
        <3>1. \A c \in Cells : HoldsCell(t, c)' => HoldsCell(t, c) \/ CellFree(t, c)
            BY <1>0, <2>1, <2>2, <2>4 DEF HoldsCell, Cell
        <3> QED  BY <1>0, <2>1, <2>5, <3>1, CellsFrame DEF CellLocks
    <2>7. TestsHold'
        BY <1>0, <2>1, <2>3, <2>5, SameInventory, TestsFrame DEF CellLocks
    <2>8. Sorted'
        <3>1. ToUpdate(t) = GivesBack(t) /\ ToUpdate(t)' = ToUpdate(t)
            BY <1>0, <2>1, <2>3, SameToUpdate DEF ToUpdate
        <3>2. \A a \in applied'[t], other \in ToUpdate(t)' \ applied'[t] :
                  Position[Cell(a)'] <= Position[Cell(other)']
            BY <1>0, <2>1, <2>2, <2>4, <3>1, NextRowSorted DEF CellLocks
        <3> QED  BY <1>0, <2>1, <2>5, <3>2, SortedFrame DEF CellLocks
    <2>9. Claims'
        BY <1>0, <2>1 DEF Claims
    <2> QED  BY <2>6, <2>7, <2>8, <2>9 DEF CellLocks
<1>3. CASE CommitSettle(t)
    <2>1. /\ UNCHANGED <<onHand, target>> /\ holds' = Marked(claimed[t], goal[t])
          /\ reserved' = GivenBack(applied[t])
          /\ \E step : End(t, step)
        BY <1>3 DEF CommitSettle
    <2>2. /\ claimed'[t] = {} /\ applied'[t] = {} /\ listed'[t] = 0 /\ OthersStay(t)
        BY <1>0, <2>1, EndEffect
    <2>3. CellsStay(t)
        BY <2>1, TargetKept
    <2>4. ASSUME NEW c \in Cells
          PROVE  /\ Available(c)' >= Available(c)
                 /\ reserved'[c[1]][c[2]] <= reserved[c[1]][c[2]]
        <3>1. c[1] \in Warehouses /\ c[2] \in Products
            BY DEF Cells
        <3>2. reserved'[c[1]][c[2]] =
                  reserved[c[1]][c[2]] - Quantity(applied[t], <<c[1], c[2]>>)
            BY <2>1, <3>1 DEF GivenBack
        <3>3. Quantity(applied[t], <<c[1], c[2]>>) \in Nat
            BY LockedQuantityType
        <3>4. reserved[c[1]][c[2]] \in Nat /\ onHand[c[1]][c[2]] \in Nat
            BY <1>0, CellTypes
        <3> QED  BY <2>1, <3>2, <3>3, <3>4 DEF Available
    <2>5. CellLocks'
        BY <1>0, <2>2, <2>3, <2>4, Unlocked
    <2>6. Claims'
        <3>1. \A u \in Txs : \A row \in claimed'[u] :
                  row \in claimed[u] /\ row \notin claimed[t] /\ row \in Rows
            BY <1>0, <2>2 DEF OthersStay, Claims, TypeOK
        <3>2. \A u \in Txs : \A row \in claimed'[u] :
                  holds'[row[1]][row[2]] = holds[row[1]][row[2]]
            BY <2>1, <3>1, RowTypes DEF Marked
        <3> QED  BY <1>0, <3>1, <3>2 DEF Claims
    <2> QED  BY <2>5, <2>6
<1> QED  BY <1>1, <1>2, <1>3 DEF SettleStep

LEMMA SeedLocks ==
    ASSUME RowInv, TypeOK', NEW s \in Seeders, SeedStep(s)
    PROVE  Claims' /\ CellLocks'
<1>0. /\ s \in Txs /\ s \notin Orders /\ s \notin Sweepers
      /\ TypeOK /\ Shape /\ Claims /\ CellLocks
    BY ReservationAssumption DEF RowInv, Locks, CellLocks, Txs
<1>1. CASE StartSeed(s)
    <2>1. /\ pc[s] = "idle" /\ OthersStay(s)
          /\ UNCHANGED <<onHand, reserved, holds, target, claimed, applied, listed>>
        BY <1>0, <1>1 DEF StartSeed, tableVars, TypeOK, OthersStay
    <2>2. applied[s] = {} /\ listed[s] = 0
        BY <1>0, <2>1 DEF Shape, WorkShape, ToUpdate, GivesBack
    <2>3. CellsStay(s)
        BY <2>1, TargetKept
    <2>4. CellLocks'
        BY <1>0, <2>1, <2>2, <2>3, SameInventory, Unlocked
    <2>5. Claims'
        BY <1>0, <2>1 DEF Claims
    <2> QED  BY <2>4, <2>5
<1>2. CASE UpsertRow(s)
    <2>1. /\ pc[s] = "upsert" /\ OthersStay(s)
          /\ UNCHANGED <<onHand, reserved, holds, target, pc, goal, plan, claimed, applied>>
          /\ CellFree(s, NextListed(s)) /\ Fits(s, NextListed(s))
        BY <1>0, <1>2 DEF UpsertRow, tableVars, TypeOK, OthersStay
    <2>2. /\ listed'[s] = listed[s] + 1 /\ listed[s] \in Nat
          /\ \A i \in 1..listed'[s] : i \in 1..listed[s] \/ i = listed[s] + 1
        BY <1>0, <1>2 DEF UpsertRow, TypeOK
    <2>3. CellsStay(s)
        BY <2>1, TargetKept
    <2>4. CellsApart'
        <3>1. ASSUME NEW c \in Cells, HoldsCell(s, c)'
              PROVE  HoldsCell(s, c) \/ CellFree(s, c)
            <4>1. CASE \E row \in applied'[s] : Cell(row)' = c
                BY <2>1, <4>1 DEF HoldsCell, Cell
            <4>2. CASE \E i \in 1..listed'[s] : SeedList[i] = c
                BY <2>1, <2>2, <4>2 DEF HoldsCell, NextListed
            <4> QED  BY <3>1, <4>1, <4>2 DEF HoldsCell
        <3> QED  BY <1>0, <2>1, <2>3, <3>1, CellsFrame DEF CellLocks
    <2>5. TestsHold'
        <3>1. \A i \in 1..listed'[s] : Fits(s, SeedList[i])'
            BY <1>0, <2>1, <2>2 DEF CellLocks, TestsHold, Fits, NextListed
        <3> QED  BY <1>0, <2>1, <2>3, <3>1, SameInventory, TestsFrame DEF CellLocks
    <2>6. Sorted'
        <3>1. applied'[s] = {}
            BY <1>0, <2>1 DEF Shape, WorkShape, ToUpdate, GivesBack
        <3> QED  BY <1>0, <2>1, <2>3, <3>1, SortedFrame DEF CellLocks
    <2>7. Claims'
        BY <1>0, <2>1 DEF Claims
    <2> QED  BY <2>4, <2>5, <2>6, <2>7 DEF CellLocks
<1>3. CASE BreaksCheck(s)
    BY <1>0, <1>3, RollbackLocks DEF BreaksCheck
<1>4. CASE CommitSeed(s)
    <2>1. /\ listed[s] = Len(SeedList) /\ End(s, "ended")
          /\ UNCHANGED <<reserved, holds, target>>
        BY <1>4 DEF CommitSeed
    <2>2. /\ claimed'[s] = {} /\ applied'[s] = {} /\ listed'[s] = 0 /\ OthersStay(s)
        BY <1>0, <2>1, EndEffect
    <2>3. CellsStay(s)
        BY <2>1, TargetKept
    <2>4. \A c \in Cells : HoldsCell(s, c)
        BY <2>1, ReservationAssumption DEF HoldsCell
    <2>5. \A u \in Txs, c \in Cells : u # s => ~HoldsCell(u, c)
        BY <1>0, <2>4 DEF CellLocks, CellsApart
    <2>6. CellLocks'
        BY <1>0, <2>2, <2>3, <2>5, Unlocked
    <2>7. Claims'
        BY <1>0, <2>1, <2>2 DEF Claims, OthersStay
    <2> QED  BY <2>6, <2>7
<1> QED  BY <1>1, <1>2, <1>3, <1>4 DEF SeedStep

LEMMA LocksNext ==
    ASSUME RowInv, TypeOK', [Next]_vars
    PROVE  Locks'
<1>0. TypeOK /\ Shape /\ Claims /\ CellLocks
    BY DEF RowInv, Locks, CellLocks
<1>1. ASSUME NEW s \in Sweepers, Sweep(s) PROVE Claims' /\ CellLocks'
    BY <1>0, <1>1, ClaimLocks DEF Sweep
<1>2. ASSUME NEW t \in Txs, Crash(t) PROVE Claims' /\ CellLocks'
    BY <1>0, <1>2, RollbackLocks DEF Crash
<1>3. ASSUME UNCHANGED <<tableVars, txVars>> PROVE Claims' /\ CellLocks'
    <2>1. UNCHANGED <<onHand, reserved, holds, pc, target, goal, plan, claimed, applied, listed>>
        BY <1>3 DEF tableVars, txVars
    <2>2. \A t \in Txs : ToUpdate(t)' = ToUpdate(t)
        BY <2>1, SameToUpdate
    <2>3. Claims'
        BY <1>0, <2>1 DEF Claims
    <2>4. CellsApart'
        BY <1>0, <2>1 DEF CellLocks, CellsApart, HoldsCell, Cell, Cells
    <2>5. TestsHold'
        BY <1>0, <2>1
           DEF CellLocks, TestsHold, HasEnough, Available, Cell, Qty, Fits
    <2>6. Sorted'
        BY <1>0, <2>1, <2>2 DEF CellLocks, Sorted, Cell
    <2> QED  BY <2>3, <2>4, <2>5, <2>6 DEF CellLocks
<1>4. Claims' /\ CellLocks'
    BY <1>1, <1>2, <1>3, OrderStepLocks, SettleLocks, SeedLocks
       DEF Next, Idle, HoldLapses, vars
<1> QED  BY <1>4 DEF Locks, CellLocks

-----------------------------------------------------------------------------
LEMMA RowInit == Init => RowInv
<1> SUFFICES ASSUME Init PROVE RowInv
    OBVIOUS
<1>1. TypeOK
    <2>1. 0 \in 0..Len(SeedList)
        BY ReservationAssumption
    <2> QED  BY <2>1, ReservationAssumption DEF Init, TypeOK, PC, HoldStatus
<1>2. Shape
    <2>1. OrderShape /\ JobShape
        BY ReservationAssumption DEF Init, OrderShape, JobShape, Txs
    <2>2. WorkShape
        BY DEF Init, WorkShape
    <2> QED  BY <2>1, <2>2 DEF Shape
<1>3. Claims /\ Sorted
    BY DEF Init, Claims, Sorted
<1>4. CellsApart
    BY DEF Init, CellsApart, HoldsCell
<1>5. TestsHold
    BY DEF Init, TestsHold, Txs
<1>6. Books
    <2> SUFFICES ASSUME NEW w \in Warehouses, NEW p \in Products
                 PROVE  /\ reserved[w][p] = SeedReserved[w][p]
                               + Promise!Quantity(Promise!Holding, w, p)
                        /\ reserved[w][p] <= onHand[w][p]
        BY DEF Books, LedgerBalances, NeverOversold, Promise!LedgerBalances,
               Promise!NeverOversold
    <2>1. Promise!Units(Promise!Holding, w, p) = {}
        BY DEF Init, Promise!Units, Promise!Holding, Promise!Rows
    <2>2. Promise!Quantity(Promise!Holding, w, p) = 0
        BY <2>1, FS_EmptySet, SameCardinality DEF Promise!Quantity
    <2>3. SeedReserved[w][p] \in Nat /\ SeedReserved[w][p] <= SeedOnHand[w][p]
        BY ReservationAssumption
    <2> QED  BY <2>2, <2>3 DEF Init
<1> QED  BY <1>1, <1>2, <1>3, <1>4, <1>5, <1>6 DEF RowInv, Locks

LEMMA RowNext == RowInv /\ [Next]_vars => RowInv'
<1> SUFFICES ASSUME RowInv, [Next]_vars PROVE RowInv'
    OBVIOUS
<1>1. TypeOK /\ Shape /\ OrderShape /\ Claims /\ Books
    BY DEF RowInv, Shape, Locks
<1>2. ReservedType' /\ Books'
    BY <1>1, PromiseStep, PromiseBooks
<1>3. TypeOK'
    BY <1>1, <1>2, TypeNext
<1>4. Shape'
    BY <1>1, ShapeNext
<1>5. Locks'
    BY <1>3, LocksNext
<1> QED  BY <1>2, <1>3, <1>4, <1>5 DEF RowInv

LEMMA RowAlways == Spec => []RowInv
<1> QED  BY RowInit, RowNext, PTL DEF Spec

-----------------------------------------------------------------------------
(* Giving back and waiting *)

\* What a claimed row stands for is in inventory.reserved, on top of what the
\* same batch has given back before it.
LEMMA ClaimedIsCovered ==
    ASSUME RowInv, NEW t \in Orders \cup Sweepers, NEW row \in NextRows(t, GivesBack(t))
    PROVE  Covers(t, row)
<1> DEFINE w == place[row[1]]
           p == row[2]
           taken == applied[t] \cup {row}
<1>1. t \in Txs /\ TypeOK /\ Shape /\ OrderShape /\ Claims
    BY DEF RowInv, Shape, Locks, Txs
<1>2. row \in GivesBack(t) \ applied[t] /\ pc[t] = "settle"
    BY DEF NextRows, GivesBack
<1>3. /\ ToUpdate(t) = GivesBack(t) /\ applied[t] \subseteq GivesBack(t)
      /\ GivesBack(t) \subseteq claimed[t]
    BY <1>1, <1>2 DEF ToUpdate, Shape, WorkShape, GivesBack
<1>4. /\ row \in Rows /\ p \in Products /\ w \in Warehouses /\ Cell(row) = <<w, p>>
    <2>1. row \in ToUpdate(t)
        BY <1>2, <1>3
    <2>2. row \in Rows /\ w \in Warehouses /\ target[row[1]] = w
        BY <1>1, <1>2, <2>1, WorkedRow
    <2> QED  BY <2>2, RowTypes DEF Cell
<1>5. taken \in SUBSET Rows /\ taken \subseteq Promise!Holding
    <2>1. \A other \in taken : other \in claimed[t] /\ other \in Rows
        BY <1>1, <1>2, <1>3 DEF TypeOK
    <2>2. \A other \in taken : holds[other[1]][other[2]] = "active"
        BY <1>1, <2>1 DEF Claims
    <2> QED  BY <2>1, <2>2 DEF Promise!Holding, Promise!Rows, Rows
<1>6. Quantity(applied[t], Cell(row)) = Promise!Quantity(applied[t], w, p)
    <2>1. /\ applied[t] \in SUBSET Rows
          /\ \A other \in applied[t] : holds[other[1]][other[2]] = "active"
        BY <1>1, <1>3 DEF TypeOK, Claims
    <2> QED  BY <1>1, <1>4, <2>1, QuantityAgrees
<1>7. Promise!Quantity(taken, w, p) = Promise!Quantity(applied[t], w, p) + Qty(row)
    <2>1. row \notin applied[t]
        BY <1>2
    <2> QED  BY <1>4, <2>1, QuantityAdds
<1> HIDE DEF w, p, taken
<1>8. Promise!Quantity(taken, w, p) <= Promise!Quantity(Promise!Holding, w, p)
    BY <1>5, QuantityDifference
<1>9. reserved[w][p] = SeedReserved[w][p] + Promise!Quantity(Promise!Holding, w, p)
    BY <1>4 DEF RowInv, Books, LedgerBalances, Promise!LedgerBalances
<1>10. /\ Promise!Quantity(taken, w, p) \in Nat
       /\ Promise!Quantity(applied[t], w, p) \in Nat
       /\ Promise!Quantity(Promise!Holding, w, p) \in Nat
       /\ SeedReserved[w][p] \in Nat /\ Qty(row) \in Nat
    <2>1. SeedReserved[w] \in [Products -> Nat]
        BY <1>4, ReservationAssumption
    <2>2. Qty(row) \in Nat
        BY <1>4, RowTypes, ReservationAssumption
    <2> QED  BY <1>4, <2>1, <2>2, QuantityType
<1>11. reserved[w][p] - Promise!Quantity(applied[t], w, p) >= Qty(row)
    BY <1>7, <1>8, <1>9, <1>10
<1>12. Cell(row)[1] = w /\ Cell(row)[2] = p
    BY <1>4
<1> QED  BY <1>6, <1>11, <1>12 DEF Covers

\* A set of positions has a last one.
LEMMA LastPosition ==
    ASSUME NEW n \in Nat, NEW T \in SUBSET (1..n), T # {}
    PROVE  \E x \in T : \A y \in T : y <= x
<1> DEFINE Above == {x..n : x \in T}
           Inside == StrictSubsetOrdering(Nat)
<1>1. Above \subseteq FiniteSubsetsOf(Nat)
    BY FS_Interval DEF FiniteSubsetsOf
<1>2. Above # {}
    OBVIOUS
<1>3. IsWellFoundedOn(Inside, FiniteSubsetsOf(Nat))
    BY FS_StrictSubsetOrderingWellFounded
<1>4. ASSUME NEW x \in T, NEW y \in T, x < y
      PROVE  <<y..n, x..n>> \in Inside
    <2>1. y..n \subseteq x..n /\ x \in x..n /\ x \notin y..n
        BY <1>4
    <2>2. y..n \in SUBSET Nat /\ x..n \in SUBSET Nat
        OBVIOUS
    <2> QED  BY <2>1, <2>2 DEF StrictSubsetOrdering
<1> HIDE DEF Inside
<1>5. PICK least \in Above : \A other \in Above : <<other, least>> \notin Inside
    <2> HIDE DEF Above
    <2> QED  BY <1>1, <1>2, <1>3, WFMin
<1>6. PICK x \in T : least = x..n
    BY <1>5
<1>7. \A y \in T : ~(x < y)
    BY <1>4, <1>5, <1>6
<1> QED  BY <1>7

\* What a transaction waits for: an inventory row that another one of D has
\* and that no row of its own comes after.
WantsCell(t, c, D) ==
    /\ \E u \in D \ {t} : HoldsCell(u, c)
    /\ \A d \in Cells : HoldsCell(t, d) => Position[d] <= Position[c]

LEMMA InventoryWaiterWants ==
    ASSUME RowInv, NEW t \in Txs, NEW D, WaitsForInventory(t, D)
    PROVE  \E c \in Cells : WantsCell(t, c, D)
<1>0. TypeOK /\ Shape /\ Claims /\ Sorted
    BY DEF RowInv, Locks
<1>1. PICK row \in NextUpdates(t) : \E u \in D \ {t} : HoldsCell(u, Cell(row))
    BY DEF WaitsForInventory
<1>2. row \in ToUpdate(t) \ applied[t]
    BY DEF NextUpdates, NextRows
<1>3. Cell(row) \in Cells /\ pc[t] \in {"reserve", "settle"}
    BY <1>0, <1>2, WorkedRow
<1>4. t \notin Seeders
    BY <1>0, <1>3 DEF Shape, JobShape
<1>5. \A d \in Cells : HoldsCell(t, d) => Position[d] <= Position[Cell(row)]
    BY <1>0, <1>2, <1>4 DEF HoldsCell, Sorted
<1> QED  BY <1>1, <1>3, <1>5 DEF WantsCell

LEMMA SeederWants ==
    ASSUME RowInv, SeedInOrder, NEW s \in Seeders, NEW D, WaitsToSeed(s, D)
    PROVE  \E c \in Cells : WantsCell(s, c, D)
<1>0. TypeOK /\ Shape /\ s \in Txs
    BY DEF RowInv, Txs
<1>1. /\ listed[s] + 1 \in 1..Len(SeedList) /\ listed[s] \in Nat
      /\ SeedList \in Seq(Cells) /\ Len(SeedList) \in Nat
    BY <1>0, ReservationAssumption DEF WaitsToSeed, TypeOK
<1>2. NextListed(s) \in Cells
    BY <1>1 DEF NextListed
<1>3. applied[s] = {}
    BY <1>0 DEF WaitsToSeed, Shape, WorkShape, ToUpdate, GivesBack
<1>4. ASSUME NEW d \in Cells, HoldsCell(s, d)
      PROVE  Position[d] <= Position[NextListed(s)]
    <2>1. PICK i \in 1..listed[s] : SeedList[i] = d
        BY <1>3, <1>4 DEF HoldsCell
    <2>2. i \in 1..Len(SeedList) /\ i < listed[s] + 1
        BY <1>1, <2>1
    <2>3. Position[SeedList[i]] < Position[SeedList[listed[s] + 1]]
        BY <1>1, <2>2 DEF SeedInOrder
    <2>4. Position[d] \in Int /\ Position[NextListed(s)] \in Int
        BY <1>2, <1>4, ReservationAssumption
    <2> QED  BY <2>1, <2>3, <2>4 DEF NextListed
<1> QED  BY <1>2, <1>4 DEF WaitsToSeed, WantsCell

\* Of transactions that all want an inventory row of each other, take the one
\* that wants the last row.  Whoever has that row wants a later one, or the
\* same, which nobody else can have.
LEMMA NoCellCircle ==
    ASSUME CellsApart, NEW D \in SUBSET Txs, NEW W \in SUBSET D, W # {},
           \A t \in W : \E c \in Cells : WantsCell(t, c, D),
           \A u \in D \ W : \A c \in Cells : ~HoldsCell(u, c)
    PROVE  FALSE
<1> DEFINE all == {n \in 1..MaxPosition :
                      \E t \in W : \E c \in Cells : WantsCell(t, c, D) /\ n = Position[c]}
<1>1. \A c \in Cells : Position[c] \in 1..MaxPosition
    BY ReservationAssumption
<1>2. all \in SUBSET (1..MaxPosition) /\ all # {}
    <2>1. PICK t \in W : TRUE
        OBVIOUS
    <2>2. PICK c \in Cells : WantsCell(t, c, D)
        BY <2>1
    <2>3. Position[c] \in all
        BY <1>1, <2>1, <2>2
    <2> QED  BY <2>3
<1>3. PICK last \in all : \A n \in all : n <= last
    <2> HIDE DEF all
    <2> QED  BY <1>2, LastPosition, ReservationAssumption
<1>4. PICK t \in W : \E c \in Cells : WantsCell(t, c, D) /\ last = Position[c]
    BY <1>3
<1>5. PICK c \in Cells : WantsCell(t, c, D) /\ last = Position[c]
    BY <1>4
<1>6. PICK u \in D \ {t} : HoldsCell(u, c)
    BY <1>5 DEF WantsCell
<1>7. u \in W
    BY <1>5, <1>6
<1>8. PICK d \in Cells : WantsCell(u, d, D)
    BY <1>7
<1>9. Position[c] <= Position[d]
    BY <1>6, <1>8 DEF WantsCell
<1>10. Position[d] <= last
    BY <1>1, <1>3, <1>7, <1>8
<1>11. d = c
    <2>1. Position[c] \in Int /\ Position[d] \in Int
        BY <1>1
    <2>2. Position[d] = Position[c]
        BY <1>5, <1>9, <1>10, <2>1
    <2> QED  BY <2>2, ReservationAssumption
<1>12. PICK v \in D \ {u} : HoldsCell(v, c)
    BY <1>8, <1>11 DEF WantsCell
<1> QED  BY <1>6, <1>12 DEF CellsApart

LEMMA NoInventoryCircle ==
    ASSUME RowInv, NEW D \in SUBSET (Orders \cup Sweepers), D # {},
           \A t \in D : WaitsForInventory(t, D)
    PROVE  FALSE
<1>1. D \subseteq Txs
    BY DEF Txs
<1>2. \A t \in D : \E c \in Cells : WantsCell(t, c, D)
    BY <1>1, InventoryWaiterWants
<1> QED  BY <1>1, <1>2, NoCellCircle DEF RowInv, Locks

-----------------------------------------------------------------------------
(* The deadlocks that are left *)

\* The tx2 of an order visits and writes reservation rows of that order only.
OwnRows == \A o \in Orders : \A row \in plan[o] \cup claimed[o] : row[1] = o

\* A step of t that leaves the plans and claims of the others alone.
LEMMA OwnFrame ==
    ASSUME OwnRows, NEW t \in Txs, OthersStay(t),
           t \in Orders => \A row \in plan'[t] \cup claimed'[t] : row[1] = t
    PROVE  OwnRows'
BY DEF OwnRows, OthersStay, Txs

LEMMA OwnStep ==
    ASSUME TypeOK, OwnRows, NEW t \in Txs,
           \/ t \in Orders /\ OrderStep(t)
           \/ t \in Sweepers /\ Sweep(t)
           \/ t \in Orders \cup Sweepers /\ SettleStep(t)
           \/ t \in Seeders /\ SeedStep(t)
           \/ Crash(t)
    PROVE  OwnRows'
<1>1. ASSUME NEW step, End(t, step) PROVE OwnRows'
    BY <1>1, EndEffect, OwnFrame
<1>2. ASSUME Rollback(t) PROVE OwnRows'
    BY <1>1, <1>2 DEF Rollback
<1>3. ASSUME UNCHANGED <<plan, claimed>> PROVE OwnRows'
    BY <1>3 DEF OwnRows
<1>4. ASSUME t \in Orders, OrderStep(t) PROVE OwnRows'
    <2>1. CASE Begin(t) \/ ReserveItem(t)
        BY <1>3, <2>1 DEF Begin, ReserveItem
    <2>2. CASE InsufficientStock(t)
        BY <1>2, <2>2 DEF InsufficientStock
    <2>3. CASE CommitHold(t)
        BY <1>1, <2>3 DEF CommitHold
    <2>4. CASE Settle(t)
        <3>1. plan' = [plan EXCEPT ![t] = ActiveRows(t)] /\ UNCHANGED claimed
            BY <2>4 DEF Settle, Claim
        <3> QED  BY <1>4, <3>1 DEF OwnRows, TypeOK, Txs, ActiveRows
    <2> QED  BY <1>4, <2>1, <2>2, <2>3, <2>4 DEF OrderStep
<1>5. ASSUME t \in Sweepers, Sweep(t) PROVE OwnRows'
    <2>1. UNCHANGED claimed /\ \E S : plan' = [plan EXCEPT ![t] = S]
        BY <1>5 DEF Sweep, Claim
    <2>2. t \notin Orders
        BY <1>5, ReservationAssumption
    <2> QED  BY <2>1, <2>2 DEF OwnRows, TypeOK, Txs
<1>6. ASSUME SettleStep(t) PROVE OwnRows'
    <2>1. CASE Visit(t)
        <3>1. PICK row \in plan[t] :
                  /\ plan' = [plan EXCEPT ![t] = @ \ {row}]
                  /\ claimed' = [claimed EXCEPT ![t] =
                         IF StillActive(row) THEN @ \cup {row} ELSE @]
            BY <2>1 DEF Visit
        <3>2. \A u \in Txs : u # t => plan'[u] = plan[u] /\ claimed'[u] = claimed[u]
            BY <3>1 DEF TypeOK
        <3>3. plan'[t] \cup claimed'[t] \subseteq plan[t] \cup claimed[t]
            BY <3>1 DEF TypeOK
        <3> QED  BY <3>2, <3>3 DEF OwnRows, Txs
    <2>2. CASE ReturnItem(t)
        BY <1>3, <2>2 DEF ReturnItem
    <2>3. CASE CommitSettle(t)
        BY <1>1, <2>3 DEF CommitSettle
    <2> QED  BY <1>6, <2>1, <2>2, <2>3 DEF SettleStep
<1>7. ASSUME SeedStep(t) PROVE OwnRows'
    BY <1>1, <1>2, <1>3, <1>7
       DEF SeedStep, StartSeed, UpsertRow, BreaksCheck, CommitSeed
<1> QED  BY <1>2, <1>4, <1>5, <1>6, <1>7 DEF Crash

LEMMA OwnAlways == Spec => []OwnRows
<1>1. Init => OwnRows
    BY DEF Init, OwnRows, Txs
<1>2. RowInv /\ OwnRows /\ [Next]_vars => OwnRows'
    <2> SUFFICES ASSUME RowInv, OwnRows, [Next]_vars PROVE OwnRows'
        OBVIOUS
    <2>1. TypeOK
        BY DEF RowInv
    <2>2. ASSUME UNCHANGED <<plan, claimed>> PROVE OwnRows'
        BY <2>2 DEF OwnRows
    <2>3. ASSUME NEW t \in Txs,
                 \/ t \in Orders /\ OrderStep(t)
                 \/ t \in Sweepers /\ Sweep(t)
                 \/ t \in Orders \cup Sweepers /\ SettleStep(t)
                 \/ t \in Seeders /\ SeedStep(t)
                 \/ Crash(t)
          PROVE  OwnRows'
        BY <2>1, <2>3, OwnStep
    <2> QED  BY <2>2, <2>3 DEF Next, HoldLapses, Idle, vars, txVars, Txs
<1> QED  BY <1>1, <1>2, RowAlways, PTL DEF Spec

\* Whoever is still claiming has no inventory row.
LEMMA ClaimingHoldsNoCell ==
    ASSUME RowInv, NEW t \in Txs, plan[t] # {}
    PROVE  applied[t] = {} /\ \A c \in Cells : ~HoldsCell(t, c)
<1>1. Shape /\ pc[t] = "settle"
    BY DEF RowInv, Shape, WorkShape
<1>2. applied[t] = {} /\ listed[t] = 0
    BY <1>1 DEF Shape, WorkShape, ToUpdate, GivesBack
<1> QED  BY <1>2 DEF HoldsCell

\* A deadlock in which no seeder writes out of order leaves no transaction
\* waiting for an inventory row: those would wait in a circle of their own.
LEMMA NobodyWaitsForCells ==
    ASSUME RowInv, NEW D \in SUBSET Txs, Deadlocked(D),
           SeedInOrder \/ D \cap Seeders = {}
    PROVE  \A t \in D : WaitsForHold(t, D)
<1> DEFINE W == {t \in D : ~WaitsForHold(t, D)}
<1>1. ASSUME NEW t \in W PROVE \E c \in Cells : WantsCell(t, c, D)
    <2>1. WaitsForInventory(t, D) \/ WaitsToSeed(t, D)
        BY DEF Deadlocked
    <2>2. WaitsToSeed(t, D) => t \in Seeders /\ SeedInOrder
        BY DEF WaitsToSeed
    <2> QED  BY <2>1, <2>2, InventoryWaiterWants, SeederWants
<1>2. ASSUME NEW u \in D \ W PROVE \A c \in Cells : ~HoldsCell(u, c)
    BY ClaimingHoldsNoCell DEF WaitsForHold
<1>3. CellsApart
    BY DEF RowInv, Locks
<1>4. W = {}
    <2> HIDE DEF W
    <2>1. W \in SUBSET D
        BY DEF W
    <2> QED  BY <1>1, <1>2, <1>3, <2>1, NoCellCircle
<1> QED  BY <1>4

-----------------------------------------------------------------------------
(* Theorems *)

\* Every variable of the statements keeps its type; reserved never goes below
\* zero, however reservations, compensations, sweeps and seeds interleave.
THEOREM ReservationTypes == Spec => []TypeOK
<1>1. RowInv => TypeOK
    BY DEF RowInv
<1> QED  BY <1>1, RowAlways, PTL

\* The statements of ReservationRepository and the seed, under row locks, do
\* what StockPromise says: a reservation is all or nothing, a hold that ends
\* takes its units with it.
THEOREM StatementsKeepPromise == Spec => KeepsPromise
<1>1. Init => Promise!Init
    <2> SUFFICES ASSUME Init PROVE Promise!Init
        OBVIOUS
    <2>1. SeedOnHand \in [Warehouses -> [Products -> Nat]]
        BY ReservationAssumption
    <2>2. \A w \in Warehouses, p \in Products : SeedReserved[w][p] <= SeedOnHand[w][p]
        BY ReservationAssumption
    <2> QED  BY <2>1, <2>2 DEF Init, Promise!Init
<1>2. RowInv /\ [Next]_vars => [Promise!Next]_Promise!vars
    BY PromiseStep
<1> QED  BY <1>1, <1>2, RowAlways, PTL DEF Spec, KeepsPromise, Promise!Spec

\* inventory.reserved is always what the rows that hold or sold stock add up to.
THEOREM StatementsBalance == Spec => []LedgerBalances
<1>1. RowInv => LedgerBalances
    BY DEF RowInv, Books
<1> QED  BY <1>1, RowAlways, PTL

\* No warehouse promises more than it has, re-seeding with other counts included.
THEOREM StatementsNeverOversell == Spec => []NeverOversold
<1>1. RowInv => NeverOversold
    BY DEF RowInv, Books
<1> QED  BY <1>1, RowAlways, PTL

\* The RuntimeError of _settle is unreachable.
THEOREM SettleNeverRaises == Spec => []NeverRaises
<1>1. RowInv => NeverRaises
    BY ClaimedIsCovered DEF NeverRaises
<1> QED  BY <1>1, RowAlways, PTL

\* A hold ends once, whoever races to end it.
THEOREM HoldEndsOnce == Spec => HoldsEndOnce
<1> DEFINE EndsOnce ==
        \A o \in Orders, p \in Products :
            holds[o][p] \notin {"none", "active"} => holds'[o][p] = holds[o][p]
<1>1. RowInv /\ [Next]_vars => [EndsOnce]_holds
    <2> SUFFICES ASSUME RowInv, [Next]_vars, NEW o \in Orders, NEW p \in Products,
                        holds[o][p] \notin {"none", "active"}
                 PROVE  holds'[o][p] = holds[o][p]
        OBVIOUS
    <2>1. [Promise!Next]_Promise!vars
        BY PromiseStep
    <2>2. place[o] # None
        BY DEF RowInv, Shape, OrderShape
    <2>3. ASSUME NEW u \in Orders, NEW w \in Warehouses, Promise!Hold(u, w)
          PROVE  holds'[o][p] = holds[o][p]
        BY <2>2, <2>3 DEF Promise!Hold, RowInv, TypeOK
    <2>4. ASSUME NEW S \in SUBSET Promise!Active, NEW status,
                 holds' = Promise!Marked(S, status)
          PROVE  holds'[o][p] = holds[o][p]
        <3>1. <<o, p>> \notin S
            BY DEF Promise!Active
        <3> QED  BY <2>4, <3>1 DEF Promise!Marked
    <2>5. ASSUME UNCHANGED holds PROVE holds'[o][p] = holds[o][p]
        BY <2>5
    <2> QED
        BY <2>1, <2>3, <2>4, <2>5
           DEF Promise!Next, Promise!vars, Promise!Sell, Promise!GiveBack, Promise!Recount
<1> QED  BY <1>1, RowAlways, PTL DEF Spec, HoldsEndOnce

\* Reserving, releasing and sweeping never wait for each other's inventory rows
\* in a circle: the argument of the module's docstring, for any number of them.
THEOREM SortedLocksNeverDeadlock == Spec => []InventoryNeverDeadlocks
<1>1. RowInv => InventoryNeverDeadlocks
    BY NoInventoryCircle DEF InventoryNeverDeadlocks
<1> QED  BY <1>1, RowAlways, PTL

\* The two ways to deadlock are the only ones: an unsorted re-seed, and claim
\* UPDATEs of a sweep that meet others on reservation rows, before anyone of
\* them has an inventory row.
THEOREM ClaimsAreTheOnlyDeadlock == Spec => []OnlyClaimsDeadlock
<1>1. ASSUME RowInv, OwnRows PROVE OnlyClaimsDeadlock
    <2> SUFFICES ASSUME NEW D \in (SUBSET Txs) \ {{}}, Deadlocked(D),
                        SeedInOrder \/ D \cap Seeders = {}
                 PROVE  /\ D \cap Sweepers # {}
                        /\ \A t \in D : plan[t] # {} /\ applied[t] = {}
        BY DEF OnlyClaimsDeadlock
    <2>1. \A t \in D : WaitsForHold(t, D)
        BY <1>1, NobodyWaitsForCells
    <2>2. \A t \in D : plan[t] # {} /\ applied[t] = {}
        BY <1>1, <2>1, ClaimingHoldsNoCell DEF WaitsForHold
    <2>3. ASSUME D \cap Sweepers = {} PROVE FALSE
        <3>1. \A t \in D : t \in Orders
            BY <1>1, <2>2, <2>3 DEF RowInv, Shape, JobShape, WorkShape, Txs
        <3>2. PICK t \in D : TRUE
            OBVIOUS
        <3>3. PICK row \in plan[t] : \E u \in D \ {t} : row \in claimed[u]
            BY <2>1, <3>2 DEF WaitsForHold
        <3> QED  BY <1>1, <3>1, <3>2, <3>3 DEF OwnRows
    <2> QED  BY <2>2, <2>3
<1> QED  BY <1>1, RowAlways, OwnAlways, PTL
=============================================================================
