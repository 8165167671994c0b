---------------------- MODULE WarehouseSelectionProofs ----------------------
(***************************************************************************)
(* Proofs about WarehouseSelection, for any warehouses, products, stock,   *)
(* distances and baskets: the query of select_best, with the checks the    *)
(* request schema made before it, chooses the nearest warehouse that can   *)
(* supply every unit of the basket, and comes back empty only if there is  *)
(* none; and the count that follows explains why.                          *)
(***************************************************************************)
EXTENDS WarehouseSelection, FiniteSetTheorems, TLAPS

\* A basket that reached the service passed the schema.
PassedValidation ==
    pc \in {"products", "geocode", "select", "count"} => Valid
SelectionInv == TypeOK /\ PassedValidation

-----------------------------------------------------------------------------
(* Lines and what they add up to *)

LEMMA BasketShape ==
    ASSUME TypeOK
    PROVE  \E n \in 0..MaxLines : items \in [1..n -> Line] /\ DOMAIN items = 1..n
BY DEF TypeOK, Baskets

LEMMA AskedFinite ==
    ASSUME TypeOK
    PROVE  IsFiniteSet(Asked) /\ Cardinality(Asked) <= MaxLines
<1>1. PICK n \in 0..MaxLines : DOMAIN items = 1..n
    BY BasketShape
<1>2. IsFiniteSet(1..n) /\ Cardinality(1..n) = n
    BY <1>1, FS_Interval, SelectionAssumption
<1> DEFINE named == [i \in 1..n |-> items[i].product]
<1>3. named \in Surjection(1..n, Asked)
    BY <1>1 DEF Surjection, Asked
<1>4. IsFiniteSet(Asked) /\ Cardinality(Asked) <= Cardinality(1..n)
    BY <1>2, <1>3, FS_Surjection
<1> QED  BY <1>2, <1>4, FS_CardinalityType, SelectionAssumption

\* With one line for each product, what is wanted of it is that line.
LEMMA WantedOfLine ==
    ASSUME TypeOK, Valid, NEW i \in DOMAIN items
    PROVE  Wanted(items[i].product) = items[i].quantity
<1> DEFINE q == items[i].quantity
<1>1. q \in 0..MaxQuantity
    BY BasketShape DEF Line
<1>2. Units(items[i].product) = {i} \X (1..q)
    BY <1>1, SelectionAssumption DEF Units, Valid
<1>3. IsFiniteSet(1..q) /\ Cardinality(1..q) = q
    <2>1. q \in Nat
        BY <1>1, SelectionAssumption
    <2> HIDE DEF q
    <2> QED  BY <2>1, FS_Interval
<1>4. IsFiniteSet({i}) /\ Cardinality({i}) = 1
    BY FS_Singleton
<1>5. Cardinality({i} \X (1..q)) = 1 * q
    BY <1>3, <1>4, FS_Product
<1> QED  BY <1>1, <1>2, <1>5 DEF Wanted

\* HAVING count(DISTINCT product_id) = the number asked: every line is covered.
LEMMA HasAllLines ==
    ASSUME TypeOK, Valid, NEW w
    PROVE  HasAll(w) <=> Joined(w) = DOMAIN items
<1> DEFINE named == {items[i].product : i \in Joined(w)}
<1>1. named \subseteq Asked
    BY DEF Joined, Asked
<1>2. IsFiniteSet(Asked)
    BY AskedFinite
<1>3. Cardinality(named) = Cardinality(Asked) <=> named = Asked
    BY <1>1, <1>2, FS_Subset
<1>4. ASSUME named = Asked, NEW i \in DOMAIN items PROVE i \in Joined(w)
    <2>1. items[i].product \in named
        BY <1>4 DEF Asked
    <2>2. PICK j \in Joined(w) : items[j].product = items[i].product
        BY <2>1
    <2> QED  BY <2>2 DEF Joined, Valid
<1>5. Joined(w) \subseteq DOMAIN items
    BY DEF Joined
<1>6. Joined(w) = DOMAIN items => named = Asked
    BY DEF Asked
<1> QED  BY <1>3, <1>4, <1>5, <1>6 DEF HasAll

\* What the query is for: its candidates are the active warehouses that have
\* every unit of the basket.
LEMMA CandidatesSupply ==
    ASSUME TypeOK, Valid, \A i \in DOMAIN items : Fits(i), NEW w \in Warehouses
    PROVE  w \in Candidates <=> Supplies(w)
<1>1. \A i \in DOMAIN items :
          Sent(i) = items[i].quantity /\ Wanted(items[i].product) = items[i].quantity
    <2> SUFFICES ASSUME NEW i \in DOMAIN items PROVE Sent(i) = items[i].quantity
        BY WantedOfLine
    <2>1. items[i].quantity \in 0..MaxQuantity
        BY BasketShape DEF Line
    <2>2. items[i].quantity \in 0..MaxInt
        BY <2>1, SelectionAssumption DEF Fits
    <2> QED  BY <2>2, SelectionAssumption DEF Sent
<1>2. \A i \in DOMAIN items :
          i \in Joined(w) <=>
              /\ <<w, items[i].product>> \in Stock
              /\ available[<<w, items[i].product>>] >= Wanted(items[i].product)
    BY <1>1 DEF Joined, Covers
<1>3. Joined(w) = DOMAIN items <=> \A i \in DOMAIN items : i \in Joined(w)
    BY DEF Joined
<1>4. Joined(w) = DOMAIN items <=>
          \A p \in Asked : <<w, p>> \in Stock /\ available[<<w, p>>] >= Wanted(p)
    BY <1>2, <1>3 DEF Asked
<1> QED  BY <1>4, HasAllLines DEF Candidates, Supplies

-----------------------------------------------------------------------------
LEMMA SelectionInit == Init => SelectionInv
<1> SUFFICES ASSUME Init PROVE SelectionInv
    OBVIOUS
<1> QED  BY SelectionAssumption DEF Init, SelectionInv, TypeOK, PassedValidation

LEMMA SelectionNext == SelectionInv /\ [Next]_vars => SelectionInv'
<1> SUFFICES ASSUME SelectionInv, [Next]_vars PROVE SelectionInv'
    OBVIOUS
<1> USE DEF SelectionInv, PassedValidation, TypeOK
<1>1. ASSUME UNCHANGED items PROVE Valid' = Valid
    BY <1>1 DEF Valid
<1>2. ASSUME NEW why, Refuse(why),
             why \in {"ValidationError", "UnknownProduct", "GeocodingFailed", "ServerError"}
      PROVE  SelectionInv'
    BY <1>2 DEF Refuse
<1>3. ASSUME NEW step, Proceed(step), Valid,
             step \in {"products", "geocode", "select", "count"}
      PROVE  SelectionInv'
    BY <1>1, <1>3 DEF Proceed
<1>4. CASE Validate
    BY <1>3, <1>4 DEF Validate
<1>5. CASE FailsValidation
    BY <1>2, <1>5 DEF FailsValidation
<1>6. CASE FindsProducts
    BY <1>3, <1>6 DEF FindsProducts
<1>7. CASE FindsUnknownProduct
    BY <1>2, <1>7 DEF FindsUnknownProduct
<1>8. CASE Geocode
    BY <1>3, <1>8 DEF Geocode
<1>9. CASE GeocodingFails
    BY <1>2, <1>9 DEF GeocodingFails
<1>10. CASE OutOfRange
    BY <1>2, <1>10 DEF OutOfRange
<1>11. CASE SelectBest
    BY <1>11 DEF SelectBest
<1>12. CASE FindsNone
    BY <1>3, <1>12 DEF FindsNone
<1>13. CASE CountStocked
    <2> DEFINE found == {p \in Asked : \E row \in Stock : row[2] = p /\ available[row] > 0}
    <2>1. IsFiniteSet(found) /\ Cardinality(found) <= Cardinality(Asked)
        BY AskedFinite, FS_Subset
    <2>2. Cardinality(found) \in 0..MaxLines
        BY <2>1, AskedFinite, FS_CardinalityType, SelectionAssumption
    <2>3. stocked' \in 0..MaxLines
        BY <1>13, <2>2 DEF CountStocked, StockedAnywhere
    <2> QED  BY <1>13, <2>3 DEF CountStocked
<1>14. CASE StockMoves
    <2>1. available' \in [Stock -> 0..MaxUnits]
        BY <1>14 DEF StockMoves
    <2>2. Valid' = Valid
        BY <1>1, <1>14 DEF StockMoves
    <2> QED  BY <1>14, <2>1, <2>2 DEF StockMoves
<1>15. CASE UNCHANGED vars
    BY <1>1, <1>15 DEF vars
<1> QED
    BY <1>4, <1>5, <1>6, <1>7, <1>8, <1>9, <1>10, <1>11, <1>12, <1>13, <1>14, <1>15
       DEF Next

LEMMA SelectionAlways == Spec => []SelectionInv
<1> QED  BY SelectionInit, SelectionNext, PTL DEF Spec

-----------------------------------------------------------------------------
(* What it gives *)

\* The types of the selection, and that it never counts more products as
\* stocked than a basket has lines.
THEOREM SelectionTypes == Spec => []TypeOK
<1>1. SelectionInv => TypeOK
    BY DEF SelectionInv
<1> QED  BY <1>1, SelectionAlways, PTL

\* select_best chooses the nearest warehouse that has every unit of the basket.
THEOREM NearestSupplierChosen == Spec => ChoosesNearestSupplier
<1> DEFINE Good ==
        pc = "select" /\ pc' = "selected" =>
           /\ Supplies(chosen')
           /\ \A v \in Warehouses \ {chosen'} :
                  Supplies(v) =>
                      /\ Distance[chosen'] <= Distance[v]
                      /\ Distance[chosen'] = Distance[v] => Code[chosen'] < Code[v]
<1>1. ASSUME SelectionInv, [Next]_vars PROVE [Good]_vars
    <2> SUFFICES ASSUME pc = "select", pc' = "selected" PROVE Good
        OBVIOUS
    <2>1. SelectBest
        BY <1>1 DEF Next, Validate, FailsValidation, FindsProducts, FindsUnknownProduct,
                    Geocode, GeocodingFails, OutOfRange, FindsNone, CountStocked,
                    StockMoves, Refuse, Proceed, vars
    <2>2. TypeOK /\ Valid /\ \A i \in DOMAIN items : Fits(i)
        BY <1>1, <2>1 DEF SelectionInv, PassedValidation, SelectBest
    <2>3. chosen' \in Warehouses /\ IsFirst(chosen')
        BY <2>1 DEF SelectBest
    <2>4. \A v \in Warehouses : v \in Candidates <=> Supplies(v)
        BY <2>2, CandidatesSupply
    <2>5. Supplies(chosen')
        BY <2>3, <2>4 DEF IsFirst
    <2>6. ASSUME NEW v \in Warehouses \ {chosen'}, Supplies(v)
          PROVE  /\ Distance[chosen'] <= Distance[v]
                 /\ Distance[chosen'] = Distance[v] => Code[chosen'] < Code[v]
        <3>1. Before(chosen', v)
            BY <2>3, <2>4, <2>6 DEF IsFirst
        <3>2. /\ Distance[chosen'] \in Nat /\ Distance[v] \in Nat
              /\ Code[chosen'] \in Nat /\ Code[v] \in Nat
            BY <2>3, SelectionAssumption
        <3> QED  BY <3>1, <3>2 DEF Before
    <2> QED  BY <2>5, <2>6
<1> QED  BY <1>1, SelectionAlways, PTL DEF Spec, ChoosesNearestSupplier

\* The query comes back empty only if no active warehouse has it all.
THEOREM EmptyOnlyIfUnsuppliable == Spec => RefusesOnlyUnsuppliable
<1> DEFINE Good ==
        pc = "select" /\ pc' = "count" => \A w \in Warehouses : ~Supplies(w)
<1>1. ASSUME SelectionInv, [Next]_vars PROVE [Good]_vars
    <2> SUFFICES ASSUME pc = "select", pc' = "count" PROVE Good
        OBVIOUS
    <2>1. FindsNone
        BY <1>1 DEF Next, Validate, FailsValidation, FindsProducts, FindsUnknownProduct,
                    Geocode, GeocodingFails, OutOfRange, SelectBest, CountStocked,
                    StockMoves, Refuse, Proceed, vars
    <2>2. TypeOK /\ Valid /\ \A i \in DOMAIN items : Fits(i)
        BY <1>1, <2>1 DEF SelectionInv, PassedValidation, FindsNone
    <2>3. \A w \in Warehouses : w \in Candidates <=> Supplies(w)
        BY <2>2, CandidatesSupply
    <2> QED  BY <2>1, <2>3 DEF FindsNone
<1> QED  BY <1>1, SelectionAlways, PTL DEF Spec, RefusesOnlyUnsuppliable

\* The number a refusal reports is all of the products only if each is stocked,
\* and less only if one of them is stocked nowhere, so that no warehouse can
\* supply the basket when it is counted.
THEOREM CountExplainsRefusal == Spec => CountTellsWhy
<1> DEFINE Why ==
        IF stocked' = Cardinality(Asked)
        THEN \A p \in Asked : StockedSomewhere(p)
        ELSE /\ \E p \in Asked : ~StockedSomewhere(p)
             /\ \A w \in Warehouses : ~Supplies(w)
           Good == pc = "count" /\ pc' = "refused" => Why
<1>1. ASSUME SelectionInv, [Next]_vars PROVE [Good]_vars
    <2> SUFFICES ASSUME pc = "count", pc' = "refused" PROVE Why
        OBVIOUS
    <2>1. CountStocked
        BY <1>1 DEF Next, Validate, FailsValidation, FindsProducts, FindsUnknownProduct,
                    Geocode, GeocodingFails, OutOfRange, SelectBest, FindsNone,
                    StockMoves, Refuse, Proceed, vars
    <2>2. TypeOK /\ Valid
        BY <1>1 DEF SelectionInv, PassedValidation
    <2> DEFINE found == {p \in Asked : StockedSomewhere(p)}
    <2>3. stocked' = Cardinality(found)
        <3>1. \A p : (\E row \in Stock : row[2] = p /\ available[row] > 0)
                         <=> StockedSomewhere(p)
            <4>1. \A row \in Stock : row[1] \in Warehouses /\ row = <<row[1], row[2]>>
                BY SelectionAssumption
            <4> QED  BY <4>1 DEF StockedSomewhere
        <3> QED  BY <2>1, <3>1 DEF CountStocked, StockedAnywhere
    <2>4. Cardinality(found) = Cardinality(Asked) <=> found = Asked
        BY <2>2, AskedFinite, FS_Subset
    <2>5. ASSUME NEW p \in Asked, ~StockedSomewhere(p), NEW w \in Warehouses
          PROVE  ~Supplies(w)
        <3>1. PICK i \in DOMAIN items : items[i].product = p
            BY DEF Asked
        <3>2. Wanted(p) = items[i].quantity /\ items[i].quantity > 0
            BY <2>2, <3>1, WantedOfLine DEF Valid
        <3>3. items[i].quantity \in Nat
            <4>1. items[i].quantity \in 0..MaxQuantity
                BY <2>2, BasketShape DEF Line
            <4> QED  BY <4>1, SelectionAssumption
        <3>4. ASSUME <<w, p>> \in Stock
              PROVE  available[<<w, p>>] \in Nat /\ ~(available[<<w, p>>] > 0)
            <4>1. available[<<w, p>>] \in 0..MaxUnits
                BY <2>2, <3>4 DEF TypeOK
            <4>2. ~(available[<<w, p>>] > 0)
                BY <2>5, <3>4 DEF StockedSomewhere
            <4> QED  BY <4>1, <4>2, SelectionAssumption
        <3> QED  BY <3>2, <3>3, <3>4 DEF Supplies
    <2>6. CASE found = Asked
        BY <2>3, <2>4, <2>6
    <2>7. CASE found # Asked
        <3>1. PICK p \in Asked : ~StockedSomewhere(p)
            BY <2>7
        <3> QED  BY <2>3, <2>4, <2>5, <2>7, <3>1
    <2> QED  BY <2>6, <2>7
<1> QED  BY <1>1, SelectionAlways, PTL DEF Spec, CountTellsWhy
=============================================================================
