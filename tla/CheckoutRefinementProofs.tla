---------------------- MODULE CheckoutRefinementProofs ----------------------
(***************************************************************************)
(* Proofs about Checkout: the saga implements both of its abstract         *)
(* specifications, StockPromise (all lines of an order or nothing, units   *)
(* that go back where they came from) and OncePerKey (one order, one       *)
(* charge and one story per key), for every value of the constants.  Each  *)
(* step of Checkout is one step of the abstract specification or changes   *)
(* nothing that it sees.  And no request is ever stuck.                    *)
(***************************************************************************)
EXTENDS CheckoutMoneyProofs

\* An order that is not there is nowhere.
NothingBefore ==
    \A r \in Requests : orders[r].status = "none" => orders[r].warehouse = None
RefineInv == AnswerInv /\ NothingBefore

LEMMA RefineTypes ==
    ASSUME RefineInv
    PROVE  /\ TypeOK /\ KeyParts /\ StockParts /\ StateAgreesWithMoney /\ AnswerParts
           /\ NothingBefore
BY DEF RefineInv, AnswerInv, RecordInv, StockInv, KeyInv

LEMMA RefineInit == Init => RefineInv
BY AnswerInit DEF Init, RefineInv, NothingBefore, NoOrder

\* Only three steps of a request write an order, a hold or the stock.
LEMMA OrderWriters ==
    ASSUME NEW r \in Requests, Step(r)
    PROVE  \/ Reserve(r) \/ Complete(r) \/ Compensate(r)
           \/ UNCHANGED <<orders, holds, reserved>>
BY DEF Step, ClaimKey, CreateOrder, Geocode, GeocodingFails, Claim, FindsOtherBody,
       FindsCompleted, FindsInProgress, FindsFailed, Reclaim, LosesReclaim,
       SelectWarehouse, FindsUnknownProduct, FindsNoWarehouse, FindsTwoCurrencies,
       FindsNoCustomer, LosesStock, FindsNothingToPay, Charge, LeaveUnresolved,
       Refuse, dbVars

\* What they write: the order has a status from then on, and a warehouse that
\* it had or is given when it is created.
LEMMA OrderWritten ==
    ASSUME TypeOK, NEW r \in Requests, Reserve(r) \/ Complete(r) \/ Compensate(r)
    PROVE  \E order :
               /\ orders' = [orders EXCEPT ![r] = order]
               /\ Reserve(r) => order.status = "reserved" /\ order.warehouse = chosen[r]
               /\ Complete(r) =>
                      order.status = "confirmed" /\ order.warehouse = orders[r].warehouse
               /\ Compensate(r) =>
                      /\ order.status = "payment_failed"
                      /\ order.warehouse = orders[r].warehouse
<1> DEFINE new == Moved(NewOrder(chosen[r]), "pending", "reserved")
           paid == Moved(orders[r], "reserved", "paid")
           sold == Moved(paid, "paid", "confirmed")
           failed == Moved(orders[r], "reserved", "payment_failed")
<1>0. /\ Reserve(r) => pc[r] = "reserve" /\ orders' = [orders EXCEPT ![r] = new]
      /\ Complete(r) => /\ pc[r] = "settle" /\ heard[r] = "succeeded"
                        /\ orders' = [orders EXCEPT ![r] = sold]
      /\ Compensate(r) => /\ pc[r] = "settle" /\ heard[r] = "declined"
                          /\ orders' = [orders EXCEPT ![r] = failed]
    BY DEF Reserve, Complete, Compensate, Settling
<1>1. orders[r] \in OrderRow
    BY DEF TypeOK
<1>2. new.status = "reserved" /\ new.warehouse = chosen[r]
    BY DEF Moved, NewOrder
<1>3. paid \in OrderRow
    BY <1>1, MovedType DEF OrderStatus
<1>4. sold.status = "confirmed" /\ sold.warehouse = orders[r].warehouse
    BY <1>1, <1>3, MovedType, MovedWarehouse DEF OrderStatus
<1>5. failed.status = "payment_failed" /\ failed.warehouse = orders[r].warehouse
    BY <1>1, MovedType, MovedWarehouse DEF OrderStatus
<1> HIDE DEF new, paid, sold, failed
<1> QED  BY <1>0, <1>2, <1>4, <1>5

LEMMA RefineNext == RefineInv /\ [Next]_vars => RefineInv'
<1> SUFFICES ASSUME RefineInv, [Next]_vars PROVE NothingBefore'
    BY AnswerNext DEF RefineInv
<1>0. TypeOK /\ NothingBefore
    BY RefineTypes
<1>1. ASSUME UNCHANGED orders PROVE NothingBefore'
    BY <1>0, <1>1 DEF NothingBefore
<1>2. ASSUME NEW r \in Requests, Step(r) PROVE NothingBefore'
    <2>1. CASE UNCHANGED orders
        BY <2>1, <1>1
    <2>2. CASE Reserve(r) \/ Complete(r) \/ Compensate(r)
        <3>1. PICK order : /\ orders' = [orders EXCEPT ![r] = order]
                           /\ order.status # "none"
            BY <1>0, <2>2, OrderWritten
        <3>2. \A q \in Requests : orders'[q] = IF q = r THEN order ELSE orders[q]
            BY <3>1, <1>0 DEF TypeOK
        <3> QED  BY <3>1, <3>2, <1>0 DEF NothingBefore
    <2> QED  BY <1>2, <2>1, <2>2, OrderWriters
<1>3. ASSUME NEW r \in Requests,
             \/ Crash(r) \/ Raises(r) \/ HoldLapses(r) \/ ProviderSettles(r)
             \/ Reconcile(r)
      PROVE  UNCHANGED orders
    BY <1>3 DEF Crash, Raises, Refuse, HoldLapses, ProviderSettles, Reconcile,
               dbVars
<1>4. ASSUME Sweep PROVE UNCHANGED orders
    BY <1>4 DEF Sweep
<1>5. ASSUME UNCHANGED vars PROVE UNCHANGED orders
    BY <1>5 DEF vars, dbVars
<1> QED  BY <1>1, <1>2, <1>3, <1>4, <1>5 DEF Next, Idle

LEMMA RefineAlways == Spec => []RefineInv
<1> QED  BY RefineInit, RefineNext, PTL DEF Spec

-----------------------------------------------------------------------------
(* The stock *)

LEMMA SameCardinality == \A S : Promise!Cardinality(S) = Cardinality(S)
BY DEF Promise!Cardinality, Cardinality

\* The abstract stock counts the units that the rows of the saga stand for.
LEMMA SameQuantity ==
    ASSUME NEW S, NEW w, NEW p
    PROVE  Promise!Quantity(S, w, p) = Quantity(S, w, p)
<1>1. Promise!Units(S, w, p) = Units(S, w, p)
    BY DEF Promise!Units, Units, Qty
<1> QED  BY <1>1, SameCardinality DEF Promise!Quantity, Quantity

LEMMA SameLines ==
    ASSUME NEW r \in Requests
    PROVE  Promise!Lines(r) = Lines(r)
BY DEF Promise!Lines, Lines, Qty

LEMMA SameMarks ==
    ASSUME NEW S, NEW status
    PROVE  Promise!Marked(S, status) = Marked(S, status)
BY DEF Promise!Marked, Marked

\* A step that moves no order and no stock is not seen.
LEMMA StockUnseen ==
    ASSUME UNCHANGED <<orders, holds, reserved>>
    PROVE  UNCHANGED Promise!vars
BY DEF Promise!vars

\* Rows that end give their units back to where they came from.
LEMMA GiveBackRefined ==
    ASSUME NEW S \in SUBSET Rows, \A row \in S : holds[row[1]][row[2]] = "active",
           NEW status \in {"released", "expired"},
           holds' = Marked(S, status), reserved' = GivenBack(S),
           \A r \in Requests : orders'[r].warehouse = orders[r].warehouse
    PROVE  Promise!Next
<1>1. S \in SUBSET Promise!Active
    BY DEF Promise!Active, Promise!Rows, Rows
<1>2. holds' = Promise!Marked(S, status)
    BY SameMarks
<1>3. reserved' = [w \in Warehouses |-> [p \in Products |->
                       reserved[w][p] - Promise!Quantity(S, w, p)]]
    BY SameQuantity DEF GivenBack
<1>4. Promise!GiveBack(S, status)
    BY <1>2, <1>3 DEF Promise!GiveBack
<1> QED  BY <1>1, <1>4 DEF Promise!Next

\* tx1 commits: all lines of the order are held at the chosen warehouse.
LEMMA ReserveRefined ==
    ASSUME RefineInv, NEW r \in Requests, Reserve(r)
    PROVE  Promise!Next
<1>0. TypeOK /\ StockParts /\ KeyParts /\ NothingBefore
    BY RefineTypes
<1>1. PICK w \in Warehouses : w = chosen[r]
    BY <1>0 DEF Reserve, StockParts, WarehouseChosen
<1>2. orders[r].warehouse = None
    BY <1>0 DEF Reserve, KeyParts, OrderFollowsRequest, NothingBefore
<1>3. PICK order : orders' = [orders EXCEPT ![r] = order] /\ order.warehouse = w
    BY <1>0, <1>1, OrderWritten
<1>4. /\ holds' = [holds EXCEPT ![r] =
             [p \in Products |-> IF p \in Lines(r) THEN "active" ELSE "none"]]
      /\ reserved' = [reserved EXCEPT ![w] =
             [p \in Products |-> reserved[w][p] + Qty(r, p)]]
      /\ \A p \in Lines(r) : OnHand[w][p] - reserved[w][p] >= Qty(r, p)
    BY <1>1 DEF Reserve, CanReserve, InStock, Available
<1>5. [q \in Requests |-> orders'[q].warehouse] =
          [[q \in Requests |-> orders[q].warehouse] EXCEPT ![r] = w]
    BY <1>0, <1>3 DEF TypeOK
<1>6. \A p : Qty(r, p) = [q \in Requests |-> Basket[BodyOf[q]]][r][p]
    BY DEF Qty
<1>7. Promise!Hold(r, w)
    <2>1. [q \in Requests |-> orders[q].warehouse][r] = None
        BY <1>2
    <2>2. \A p \in Promise!Lines(r) :
              OnHand[w][p] - reserved[w][p] >= [q \in Requests |-> Basket[BodyOf[q]]][r][p]
        BY <1>4, <1>6, SameLines
    <2>3. holds' = [holds EXCEPT ![r] =
             [p \in Products |-> IF p \in Promise!Lines(r) THEN "active" ELSE "none"]]
        BY <1>4, SameLines
    <2>4. reserved' = [reserved EXCEPT ![w] =
             [p \in Products |->
                 reserved[w][p] + [q \in Requests |-> Basket[BodyOf[q]]][r][p]]]
        BY <1>4, <1>6
    <2> QED  BY <1>5, <2>1, <2>2, <2>3, <2>4 DEF Promise!Hold
<1> QED  BY <1>7 DEF Promise!Next

\* tx2 decides: the order stays where it is, whatever becomes of its stock.
LEMMA DecidedPlace ==
    ASSUME TypeOK, NEW r \in Requests, Complete(r) \/ Compensate(r)
    PROVE  \A q \in Requests : orders'[q].warehouse = orders[q].warehouse
<1>1. PICK order : /\ orders' = [orders EXCEPT ![r] = order]
                   /\ order.warehouse = orders[r].warehouse
    BY OrderWritten
<1> QED  BY <1>1 DEF TypeOK

\* A sale: the active rows of the order are committed where they are.
LEMMA CompleteRefined ==
    ASSUME RefineInv, NEW r \in Requests, Complete(r)
    PROVE  Promise!Next
<1>1. [q \in Requests |-> orders'[q].warehouse] =
          [q \in Requests |-> orders[q].warehouse]
    BY RefineTypes, DecidedPlace
<1>2. holds' = Marked(ActiveRows(r), "committed") /\ UNCHANGED reserved
    BY DEF Complete
<1>3. ActiveRows(r) \in SUBSET Promise!Active
    BY DEF ActiveRows, Promise!Active, Promise!Rows, Rows
<1>4. Promise!Sell(ActiveRows(r))
    BY <1>1, <1>2, SameMarks DEF Promise!Sell
<1> QED  BY <1>3, <1>4 DEF Promise!Next

LEMMA CompensateRefined ==
    ASSUME RefineInv, NEW r \in Requests, Compensate(r)
    PROVE  Promise!Next
<1>1. /\ holds' = Marked(ActiveRows(r), "released")
      /\ reserved' = GivenBack(ActiveRows(r))
    BY DEF Compensate
<1>2. \A q \in Requests : orders'[q].warehouse = orders[q].warehouse
    BY RefineTypes, DecidedPlace
<1>3. /\ ActiveRows(r) \in SUBSET Rows
      /\ \A row \in ActiveRows(r) : holds[row[1]][row[2]] = "active"
    BY DEF ActiveRows
<1> QED  BY <1>1, <1>2, <1>3, GiveBackRefined

LEMMA SweepRefined ==
    ASSUME Sweep
    PROVE  Promise!Next
<1>1. PICK S \in SUBSET Expired :
          /\ holds' = Marked(S, "expired") /\ reserved' = GivenBack(S)
          /\ UNCHANGED orders
    BY DEF Sweep
<1>2. S \in SUBSET Rows /\ \A row \in S : holds[row[1]][row[2]] = "active"
    BY DEF Expired
<1> QED  BY <1>1, <1>2, GiveBackRefined

LEMMA StockNextRefined == RefineInv /\ [Next]_vars => [Promise!Next]_(Promise!vars)
<1> SUFFICES ASSUME RefineInv, [Next]_vars
             PROVE  Promise!Next \/ UNCHANGED <<orders, holds, reserved>>
    BY StockUnseen
<1>1. ASSUME NEW r \in Requests, Step(r)
      PROVE  Promise!Next \/ UNCHANGED <<orders, holds, reserved>>
    BY <1>1, OrderWriters, ReserveRefined, CompleteRefined, CompensateRefined
<1>2. ASSUME NEW r \in Requests,
             \/ Crash(r) \/ Raises(r) \/ HoldLapses(r) \/ ProviderSettles(r)
             \/ Reconcile(r)
      PROVE  UNCHANGED <<orders, holds, reserved>>
    BY <1>2 DEF Crash, Raises, Refuse, HoldLapses, ProviderSettles, Reconcile,
               dbVars
<1>3. ASSUME UNCHANGED vars PROVE UNCHANGED <<orders, holds, reserved>>
    BY <1>3 DEF vars, dbVars
<1> QED  BY <1>1, <1>2, <1>3, SweepRefined DEF Next, Idle

LEMMA StockInitRefined == Init => Promise!Init
BY CheckoutAssumption DEF Init, Promise!Init, NoOrder

\* The stock of the saga is the stock reserve_stock promises: an order holds
\* all of its lines at one warehouse or none, and units go back to where they
\* came from, whatever the claims, crashes, compensations and sweeps do.
THEOREM SagaKeepsStockPromise == Spec => KeepsStockPromise
<1> QED  BY RefineAlways, StockInitRefined, StockNextRefined, PTL
         DEF Spec, KeepsStockPromise, Promise!Spec

-----------------------------------------------------------------------------
(* The key *)

\* A key that is not there stands for no body, and whoever settles has asked
\* the provider.
NothingAssumed ==
    /\ \A k \in Keys : keys[k].status = "absent" => keys[k].hash = None
    /\ \A r \in Requests : pc[r] = "settle" => provider[r] # None
PromiseInv == RefineInv /\ NothingAssumed

LEMMA PromiseInit == Init => PromiseInv
BY RefineInit DEF Init, PromiseInv, NothingAssumed, NoKey

\* A step that claims or decides a key, or none, and starts no settling.
LEMMA AssumedMove ==
    ASSUME TypeOK, NothingAssumed,
           \A k \in Keys : keys'[k].status = "absent" => keys'[k] = keys[k],
           \A r \in Requests : pc'[r] = "settle" => pc[r] = "settle",
           UNCHANGED provider
    PROVE  NothingAssumed'
BY DEF NothingAssumed

\* The three steps of a request that write its key.
LEMMA KeyWritten ==
    ASSUME TypeOK, NEW r \in Requests, Reserve(r) \/ Complete(r) \/ Compensate(r)
    PROVE  /\ \A k \in Keys : keys'[k].status = "absent" => keys'[k] = keys[k]
           /\ \A k \in Keys : k # KeyOf[r] => keys'[k].hash = keys[k].hash
           /\ Reserve(r) /\ keys[KeyOf[r]].status = "absent" =>
                  keys'[KeyOf[r]].hash = BodyOf[r]
           /\ ~Reserve(r) \/ keys[KeyOf[r]].status # "absent" =>
                  keys'[KeyOf[r]].hash = keys[KeyOf[r]].hash
           /\ \E step \in {"charge", "answered"} : pc' = [pc EXCEPT ![r] = step]
           /\ UNCHANGED provider
<1>1. PICK row : /\ keys' = [keys EXCEPT ![KeyOf[r]] = row]
                 /\ row.status # "absent"
                 /\ Reserve(r) /\ keys[KeyOf[r]].status = "absent" =>
                        row.hash = BodyOf[r]
                 /\ ~Reserve(r) \/ keys[KeyOf[r]].status # "absent" =>
                        row.hash = keys[KeyOf[r]].hash
    <2>0. keys[KeyOf[r]] \in KeyRow /\ pc[r] \in PC
        BY CheckoutAssumption DEF TypeOK
    <2>1. CASE Reserve(r)
        <3> DEFINE row == ClaimedKey(keys[KeyOf[r]], r)
        <3>1. keys' = [keys EXCEPT ![KeyOf[r]] = row]
            BY <2>1 DEF Reserve
        <3>2. row.status = "in_progress"
            BY <2>0 DEF ClaimedKey, KeyRow
        <3>3. row.hash = IF keys[KeyOf[r]].status = "absent"
                         THEN BodyOf[r] ELSE keys[KeyOf[r]].hash
            BY <2>0 DEF ClaimedKey, KeyRow
        <3> QED  BY <2>1, <3>1, <3>2, <3>3
    <2>2. CASE Complete(r)
        <3>1. ~Reserve(r)
            BY <2>2 DEF Reserve, Complete, Settling
        <3>2. PICK body :
                  keys' = [keys EXCEPT ![KeyOf[r]] = CompletedKey(@, r, body)]
            BY <2>2 DEF Complete
        <3> DEFINE row == CompletedKey(keys[KeyOf[r]], r, body)
        <3>3. row.status = "completed" /\ row.hash = keys[KeyOf[r]].hash
            BY <2>0, RowFields
        <3>4. keys' = [keys EXCEPT ![KeyOf[r]] = row]
            BY <3>2
        <3> QED  BY <3>1, <3>3, <3>4
    <2>3. CASE Compensate(r)
        <3>1. ~Reserve(r)
            BY <2>3 DEF Reserve, Compensate, Settling
        <3> DEFINE row == FailedKey(keys[KeyOf[r]], r)
        <3>2. row.status = "failed" /\ row.hash = keys[KeyOf[r]].hash
            BY <2>0, RowFields
        <3>3. keys' = [keys EXCEPT ![KeyOf[r]] = row]
            BY <2>3 DEF Compensate
        <3> QED  BY <3>1, <3>2, <3>3
    <2> QED  BY <2>1, <2>2, <2>3
<1>2. /\ keys'[KeyOf[r]] = row
      /\ \A k \in Keys : k # KeyOf[r] => keys'[k] = keys[k]
    BY <1>1, CheckoutAssumption DEF TypeOK
<1>3. \E step \in {"charge", "answered"} : pc' = [pc EXCEPT ![r] = step]
    BY DEF Reserve, Complete, Compensate, GoTo, Ends, Reply
<1>4. UNCHANGED provider
    BY DEF Reserve, Complete, Compensate, worldVars
<1>5. \A k \in Keys : keys'[k].status = "absent" => keys'[k] = keys[k]
    BY <1>1, <1>2
<1>6. \A k \in Keys : k # KeyOf[r] => keys'[k].hash = keys[k].hash
    BY <1>2
<1>7. /\ Reserve(r) /\ keys[KeyOf[r]].status = "absent" =>
             keys'[KeyOf[r]].hash = BodyOf[r]
      /\ ~Reserve(r) \/ keys[KeyOf[r]].status # "absent" =>
             keys'[KeyOf[r]].hash = keys[KeyOf[r]].hash
    BY <1>1, <1>2
<1> QED  BY <1>3, <1>4, <1>5, <1>6, <1>7

LEMMA PromiseNext == PromiseInv /\ [Next]_vars => PromiseInv'
<1> SUFFICES ASSUME PromiseInv, [Next]_vars PROVE NothingAssumed'
    BY RefineNext DEF PromiseInv
<1>0. TypeOK /\ NothingAssumed
    BY RefineTypes DEF PromiseInv
<1>1. ASSUME NEW r \in Requests, Step(r) PROVE NothingAssumed'
    <2>1. CASE \/ Geocode(r) \/ Claim(r) \/ FindsFailed(r) \/ Reclaim(r)
               \/ SelectWarehouse(r)
        <3>1. /\ UNCHANGED <<keys, provider>>
              /\ \E step \in {"claim", "select", "reclaim", "reserve"} :
                     pc' = [pc EXCEPT ![r] = step]
            BY <2>1 DEF Geocode, Claim, FindsFailed, Reclaim, SelectWarehouse, GoTo,
                        dbVars, worldVars
        <3>2. \A q \in Requests : pc'[q] = "settle" => pc[q] = "settle"
            BY <3>1, <1>0 DEF TypeOK
        <3> QED  BY <3>1, <3>2, <1>0, AssumedMove
    <2>2. CASE \/ GeocodingFails(r) \/ FindsOtherBody(r) \/ FindsInProgress(r)
               \/ LosesReclaim(r) \/ FindsUnknownProduct(r) \/ FindsNoWarehouse(r)
               \/ FindsTwoCurrencies(r) \/ FindsNoCustomer(r) \/ LosesStock(r)
               \/ FindsNothingToPay(r)
        <3>1. UNCHANGED <<keys, provider>> /\ pc' = [pc EXCEPT ![r] = "answered"]
            BY <2>2 DEF GeocodingFails, FindsOtherBody, FindsInProgress, LosesReclaim,
                   FindsUnknownProduct, FindsNoWarehouse, FindsTwoCurrencies,
                   FindsNoCustomer, LosesStock, FindsNothingToPay, Refuse, Reply,
                   dbVars, worldVars
        <3>2. \A q \in Requests : pc'[q] = "settle" => pc[q] = "settle"
            BY <3>1, <1>0 DEF TypeOK
        <3> QED  BY <3>1, <3>2, <1>0, AssumedMove
    <2>3. CASE FindsCompleted(r) \/ LeaveUnresolved(r)
        <3>1. UNCHANGED <<keys, provider>> /\ pc' = [pc EXCEPT ![r] = "answered"]
            BY <2>3 DEF FindsCompleted, LeaveUnresolved, Ends, Reply, dbVars, worldVars
        <3>2. \A q \in Requests : pc'[q] = "settle" => pc[q] = "settle"
            BY <3>1, <1>0 DEF TypeOK
        <3> QED  BY <3>1, <3>2, <1>0, AssumedMove
    <2>4. CASE Reserve(r) \/ Complete(r) \/ Compensate(r)
        <3>1. /\ \A k \in Keys : keys'[k].status = "absent" => keys'[k] = keys[k]
              /\ \E step \in {"charge", "answered"} : pc' = [pc EXCEPT ![r] = step]
              /\ UNCHANGED provider
            BY <2>4, <1>0, KeyWritten
        <3>2. \A q \in Requests : pc'[q] = "settle" => pc[q] = "settle"
            BY <3>1, <1>0 DEF TypeOK
        <3> QED  BY <3>1, <3>2, <1>0, AssumedMove
    <2>5. CASE Charge(r)
        <3>1. PICK outcome \in Outcome : provider' = [provider EXCEPT ![r] = outcome]
            BY <2>5 DEF Charge
        <3>2. pc' = [pc EXCEPT ![r] = "settle"] /\ UNCHANGED keys
            BY <2>5 DEF Charge, GoTo, dbVars
        <3>3. outcome # None
            BY CheckoutAssumption
        <3> QED  BY <3>1, <3>2, <3>3, <1>0 DEF NothingAssumed, TypeOK
    <2> QED  BY <1>1, <2>1, <2>2, <2>3, <2>4, <2>5 DEF Step, ClaimKey, CreateOrder
<1>2. ASSUME NEW r \in Requests, Crash(r) \/ Raises(r) PROVE NothingAssumed'
    <2>1. /\ UNCHANGED <<keys, provider>>
          /\ \E step \in {"crashed", "answered"} : pc' = [pc EXCEPT ![r] = step]
        BY <1>2 DEF Crash, Raises, Refuse, Reply, GoTo, dbVars, worldVars
    <2>2. \A q \in Requests : pc'[q] = "settle" => pc[q] = "settle"
        BY <2>1, <1>0 DEF TypeOK
    <2> QED  BY <2>1, <2>2, <1>0, AssumedMove
<1>3. ASSUME NEW r \in Requests, ProviderSettles(r) PROVE NothingAssumed'
    <2>1. PICK outcome \in {"succeeded", "declined"} :
              provider' = [provider EXCEPT ![r] = outcome]
        BY <1>3 DEF ProviderSettles
    <2>2. UNCHANGED <<pc, keys>> /\ outcome # None
        BY <1>3, CheckoutAssumption DEF ProviderSettles, requestVars, dbVars, Outcome
    <2> QED  BY <2>1, <2>2, <1>0 DEF NothingAssumed, TypeOK
<1>4. ASSUME UNCHANGED <<pc, keys, provider>> PROVE NothingAssumed'
    BY <1>4, <1>0, AssumedMove
<1>5. ASSUME NEW r \in Requests, HoldLapses(r) \/ Reconcile(r)
      PROVE  UNCHANGED <<pc, keys, provider>>
    BY <1>5 DEF HoldLapses, Reconcile, requestVars, dbVars
<1>6. ASSUME Sweep PROVE UNCHANGED <<pc, keys, provider>>
    BY <1>6 DEF Sweep, requestVars, worldVars
<1>7. ASSUME UNCHANGED vars PROVE UNCHANGED <<pc, keys, provider>>
    BY <1>7 DEF vars, requestVars, dbVars, worldVars
<1> QED  BY <1>1, <1>2, <1>3, <1>4, <1>5, <1>6, <1>7 DEF Next, Idle

LEMMA PromiseAlways == Spec => []PromiseInv
<1> QED  BY PromiseInit, PromiseNext, PTL DEF Spec

\* What the abstract specification sees of a step of the saga.
Tale == [r \in Requests |-> IF pc[r] = "answered" THEN Telling(answer[r]) ELSE None]
Stages == [r \in Requests |-> Stage(orders[r])]
Bound == [k \in Keys |-> keys[k].hash]

LEMMA StageOfOrder ==
    ASSUME NEW order
    PROVE  /\ order.status = "none" => Stage(order) = "none"
           /\ order.status = "confirmed" => Stage(order) = "sold"
           /\ order.status = "payment_failed" => Stage(order) = "declined"
           /\ order.status = "reserved" => Stage(order) = "open"
BY DEF Stage

LEMMA TellingOf ==
    ASSUME NEW kind, NEW body
    PROVE  LET reply == [kind |-> kind, body |-> body]
           IN  /\ kind \in {"created", "replayed"} =>
                      Telling(reply) = [kind |-> "order", order |-> body.order]
               /\ kind = "PaymentDeclined" =>
                      Telling(reply) = [kind |-> "declined", order |-> None]
               /\ kind = "PaymentUnresolved" =>
                      Telling(reply) = [kind |-> "unresolved", order |-> None]
               /\ kind \in Refusals =>
                      Telling(reply) = [kind |-> "refused", order |-> None]
               /\ kind \in InternalErrors =>
                      Telling(reply) = [kind |-> "failed", order |-> None]
BY DEF Telling, Refusals, InternalErrors

\* Whoever answers tells one client one thing.
LEMMA ReplySeen ==
    ASSUME TypeOK, NEW r \in Requests, NEW kind, NEW body, Reply(r, kind, body),
           pc[r] # "answered", NEW news, news = Telling([kind |-> kind, body |-> body])
    PROVE  Tale[r] = None /\ Tale' = [Tale EXCEPT ![r] = news]
<1>1. /\ pc' = [pc EXCEPT ![r] = "answered"]
      /\ answer' = [answer EXCEPT ![r] = [kind |-> kind, body |-> body]]
    BY DEF Reply
<1>2. /\ pc'[r] = "answered" /\ answer'[r] = [kind |-> kind, body |-> body]
      /\ \A q \in Requests : q # r => pc'[q] = pc[q] /\ answer'[q] = answer[q]
    BY <1>1 DEF TypeOK
<1>3. Tale' = [q \in Requests |->
                  IF pc'[q] = "answered" THEN Telling(answer'[q]) ELSE None]
    BY DEF Tale
<1>4. \A q \in Requests :
          Tale'[q] = IF q = r THEN news ELSE Tale[q]
    BY <1>2, <1>3 DEF Tale
<1>5. Tale[r] = None
    BY DEF Tale
<1> QED  BY <1>3, <1>4, <1>5 DEF Tale

\* The end of tx2 tells one client what it says, or of a failure.
LEMMA EndsSeen ==
    ASSUME TypeOK, NEW r \in Requests, NEW kind, NEW body, Ends(r, kind, body),
           pc[r] # "answered", NEW news, news = Telling([kind |-> kind, body |-> body])
    PROVE  /\ Tale[r] = None
           /\ \/ Tale' = [Tale EXCEPT ![r] = news]
              \/ Tale' = [Tale EXCEPT ![r] = [kind |-> "failed", order |-> None]]
<1>1. CASE Reply(r, kind, body)
    BY <1>1, ReplySeen
<1>2. CASE Reply(r, "ServerError", None)
    <2>1. Telling([kind |-> "ServerError", body |-> None])
              = [kind |-> "failed", order |-> None]
        BY TellingOf DEF InternalErrors
    <2> QED  BY <1>2, <2>1, ReplySeen
<1> QED  BY <1>1, <1>2 DEF Ends

\* Whoever moves on tells nobody anything.
LEMMA MoveSeen ==
    ASSUME TypeOK, NEW r \in Requests, NEW step, step # "answered", pc[r] # "answered",
           pc' = [pc EXCEPT ![r] = step], UNCHANGED answer
    PROVE  UNCHANGED Tale
BY DEF Tale, TypeOK

\* One order changes its stage, no other does.
LEMMA OrderSeen ==
    ASSUME TypeOK, NEW r \in Requests, NEW order, orders' = [orders EXCEPT ![r] = order],
           NEW stage, stage = Stage(order)
    PROVE  Stages' = [Stages EXCEPT ![r] = stage]
<1>1. orders'[r] = order /\ \A q \in Requests : q # r => orders'[q] = orders[q]
    BY DEF TypeOK
<1>2. Stages' = [q \in Requests |-> Stage(orders'[q])]
    BY DEF Stages
<1>3. \A q \in Requests : Stages'[q] = IF q = r THEN stage ELSE Stages[q]
    BY <1>1, <1>2 DEF Stages
<1> QED  BY <1>2, <1>3 DEF Stages

\* A step that writes no key, no order, no charge and no answer is not seen.
LEMMA KeyUnseen ==
    ASSUME UNCHANGED <<keys, orders, provider, Tale>>
    PROVE  UNCHANGED Once!vars
<1>1. UNCHANGED Bound /\ UNCHANGED Stages
    BY DEF Bound, Stages
<1> QED  BY <1>1 DEF Once!vars, Bound, Stages, Tale

LEMMA RefuseRefined ==
    ASSUME PromiseInv, NEW r \in Requests, NEW kind \in Refusals, Refuse(r, kind),
           pc[r] \in {"geocode", "claim", "reclaim", "select", "reserve"}
    PROVE  Once!Refuse(r)
<1>0. TypeOK /\ KeyParts
    BY RefineTypes DEF PromiseInv
<1>1. Stages[r] = "none"
    BY <1>0, StageOfOrder DEF KeyParts, OrderFollowsRequest, Stages
<1>2. Reply(r, kind, None) /\ UNCHANGED <<keys, orders, provider>>
    BY DEF Refuse, dbVars, worldVars
<1>3. Telling([kind |-> kind, body |-> None]) = [kind |-> "refused", order |-> None]
    BY TellingOf
<1>4. /\ Tale[r] = None
      /\ Tale' = [Tale EXCEPT ![r] = [kind |-> "refused", order |-> None]]
    BY <1>0, <1>2, <1>3, ReplySeen
<1>5. UNCHANGED Bound /\ UNCHANGED Stages
    BY <1>2 DEF Bound, Stages
<1> QED  BY <1>1, <1>2, <1>4, <1>5 DEF Once!Refuse, Once!Told, Tale, Stages, Bound

\* A 500 may come before there is an order or while it is open.
LEMMA FailRefined ==
    ASSUME PromiseInv, NEW r \in Requests, NEW kind \in InternalErrors, Refuse(r, kind),
           pc[r] \notin {"answered", "crashed"}
    PROVE  Once!Fail(r)
<1>0. TypeOK /\ KeyParts /\ pc[r] \in PC
    BY RefineTypes DEF PromiseInv, TypeOK
<1>1. orders[r].status \in {"none", "reserved"}
    BY <1>0 DEF KeyParts, OrderFollowsRequest, PC
<1>2. Stages[r] \in {"none", "open"}
    BY <1>1, StageOfOrder DEF Stages
<1>3. Reply(r, kind, None) /\ UNCHANGED <<keys, orders, provider>>
    BY DEF Refuse, dbVars, worldVars
<1>4. Telling([kind |-> kind, body |-> None]) = [kind |-> "failed", order |-> None]
    BY TellingOf
<1>5. /\ Tale[r] = None
      /\ Tale' = [Tale EXCEPT ![r] = [kind |-> "failed", order |-> None]]
    BY <1>0, <1>3, <1>4, ReplySeen
<1>6. UNCHANGED Bound /\ UNCHANGED Stages
    BY <1>3 DEF Bound, Stages
<1> QED  BY <1>2, <1>3, <1>5, <1>6 DEF Once!Fail, Once!Told, Tale, Stages, Bound

LEMMA ReplayRefined ==
    ASSUME PromiseInv, NEW r \in Requests, FindsCompleted(r)
    PROVE  Once!Replay(r)
<1> DEFINE k == KeyOf[r]
           body == keys[k].body
<1>0. TypeOK /\ KeyParts /\ AnswerParts /\ k \in Keys
    BY RefineTypes, CheckoutAssumption DEF PromiseInv
<1>1. /\ pc[r] = "claim" /\ keys[k].status = "completed" /\ keys[k].hash = BodyOf[r]
      /\ Reply(r, "replayed", body) /\ UNCHANGED <<keys, orders, provider>>
    BY DEF FindsCompleted, Existing, SameBody, dbVars, worldVars
<1>2. orders[r].status = "none"
    BY <1>0, <1>1 DEF KeyParts, OrderFollowsRequest
<1>3. PICK q \in Requests : /\ q = keys[k].order /\ KeyOf[q] = k
                            /\ orders[q].status = "confirmed"
    BY <1>0, <1>1 DEF KeyParts, KeyTellsItsOrders, OrdersUnder
<1>4. body = [order |-> q, status |-> "confirmed"]
    BY <1>0, <1>1, <1>3 DEF AnswerParts, KeyStoresResponse
<1>5. Telling([kind |-> "replayed", body |-> body]) = [kind |-> "order", order |-> q]
    BY <1>4, TellingOf
<1>6. /\ Tale[r] = None
      /\ Tale' = [Tale EXCEPT ![r] = [kind |-> "order", order |-> q]]
    BY <1>0, <1>1, <1>5, ReplySeen
<1>7. UNCHANGED Bound /\ UNCHANGED Stages
    BY <1>1 DEF Bound, Stages
<1>8. /\ Stages[r] = "none" /\ Stages[q] = "sold" /\ Bound[k] = BodyOf[r]
      /\ q \in Once!Rivals(r)
    BY <1>0, <1>1, <1>2, <1>3, StageOfOrder DEF Stages, Bound, Once!Rivals
<1>9. Once!Told(r, "order", q)
    BY <1>6 DEF Once!Told, Tale
<1> QED  BY <1>1, <1>7, <1>8, <1>9 DEF Once!Replay, Once!Sold, Stages, Bound

\* tx1 commits: no other order under the key is open or sold.
LEMMA OpenRefined ==
    ASSUME PromiseInv, NEW r \in Requests, Reserve(r)
    PROVE  Once!Open(r)
<1> DEFINE k == KeyOf[r]
<1>0. TypeOK /\ KeyParts /\ NothingAssumed /\ k \in Keys
    BY RefineTypes, CheckoutAssumption DEF PromiseInv
<1>1. /\ pc[r] = "reserve" /\ pc' = [pc EXCEPT ![r] = "charge"]
      /\ UNCHANGED <<answer, provider>>
    BY DEF Reserve, GoTo, worldVars
<1>2. holder[k] = r /\ r # None /\ orders[r].status = "none"
    BY <1>0, <1>1, CheckoutAssumption DEF KeyParts, RequestOwnsKey, OrderFollowsRequest
<1>3. \/ keys[k].status = "absent" /\ keys[k].hash = None
      \/ keys[k].status = "failed" /\ keys[k].hash = BodyOf[r]
    BY <1>0, <1>2 DEF KeyParts, OwnerMayClaim, NothingAssumed
<1>4. \A q \in Requests : KeyOf[q] = k => orders[q].status \in {"none", "payment_failed"}
    BY <1>0, <1>3 DEF KeyParts, KeyTellsItsOrders, OrdersUnder
<1>5. PICK order : orders' = [orders EXCEPT ![r] = order] /\ order.status = "reserved"
    BY <1>0, OrderWritten
<1>6. Stage(order) = "open"
    BY <1>5, StageOfOrder
<1>7. Stages' = [Stages EXCEPT ![r] = "open"]
    BY <1>0, <1>5, <1>6, OrderSeen
<1>8. Bound' = [Bound EXCEPT ![k] = BodyOf[r]]
    <2>1. \A j \in Keys : keys'[j].hash = IF j = k THEN BodyOf[r] ELSE keys[j].hash
        BY <1>0, <1>3, KeyWritten
    <2>2. Bound' = [j \in Keys |-> keys'[j].hash]
        BY DEF Bound
    <2> QED  BY <2>1, <2>2 DEF Bound
<1>9. UNCHANGED Tale /\ Tale[r] = None
    BY <1>0, <1>1, MoveSeen DEF Tale
<1>10. /\ Stages[r] = "none" /\ Bound[k] \in {None, BodyOf[r]}
       /\ \A q \in Once!Rivals(r) : Stages[q] \in {"none", "declined"}
    BY <1>0, <1>2, <1>3, <1>4, StageOfOrder DEF Stages, Bound, Once!Rivals
<1> QED  BY <1>1, <1>7, <1>8, <1>9, <1>10
         DEF Once!Open, Once!Blocking, Stages, Bound, Tale

\* The provider's answer, the first or one that settles an unknown outcome.
LEMMA ChargeRefined ==
    ASSUME TypeOK, NEW r \in Requests, orders[r].status = "reserved",
           provider[r] \in {None, "unknown"}, NEW outcome \in Outcome,
           provider' = [provider EXCEPT ![r] = outcome],
           UNCHANGED <<keys, orders, Tale>>
    PROVE  Once!Charge(r, outcome)
<1>1. Stages[r] = "open" /\ UNCHANGED Bound /\ UNCHANGED Stages
    BY StageOfOrder DEF Stages, Bound
<1> QED  BY <1>1 DEF Once!Charge, Stages, Bound, Tale

\* tx2 decides: what the abstract specification sees of the key stays.
LEMMA BoundKept ==
    ASSUME TypeOK, NEW r \in Requests, Complete(r) \/ Compensate(r)
    PROVE  UNCHANGED Bound
<1>1. ~Reserve(r)
    BY DEF Reserve, Complete, Compensate, Settling
<1>2. \A k \in Keys : keys'[k].hash = keys[k].hash
    BY <1>1, KeyWritten
<1> QED  BY <1>2 DEF Bound

LEMMA SellRefined ==
    ASSUME PromiseInv, NEW r \in Requests, Complete(r)
    PROVE  Once!Sell(r)
<1>0. TypeOK /\ KeyParts /\ orders[r] \in OrderRow
    BY RefineTypes DEF PromiseInv, TypeOK
<1>1. /\ pc[r] = "settle" /\ heard[r] = "succeeded" /\ UNCHANGED provider
      /\ \E status : Ends(r, "created", [order |-> r, status |-> status])
    BY DEF Complete, Settling, worldVars, Rendered
<1>2. orders[r].status = "reserved" /\ provider[r] = "succeeded"
    BY <1>0, <1>1 DEF KeyParts, OrderFollowsRequest, MoneyFollowsOrder
<1>3. PICK status : Ends(r, "created", [order |-> r, status |-> status])
    BY <1>1
<1>4. Telling([kind |-> "created", body |-> [order |-> r, status |-> status]])
          = [kind |-> "order", order |-> r]
    BY TellingOf
<1>5. Once!Hears(r, "order", r)
    <2>1. /\ Tale[r] = None
          /\ \/ Tale' = [Tale EXCEPT ![r] = [kind |-> "order", order |-> r]]
             \/ Tale' = [Tale EXCEPT ![r] = [kind |-> "failed", order |-> None]]
        BY <1>0, <1>1, <1>3, <1>4, EndsSeen
    <2> QED  BY <2>1 DEF Once!Hears, Once!Told, Tale
<1>6. PICK order : orders' = [orders EXCEPT ![r] = order] /\ order.status = "confirmed"
    BY <1>0, OrderWritten
<1>7. Stages' = [Stages EXCEPT ![r] = "sold"]
    <2>1. Stage(order) = "sold"
        BY <1>6, StageOfOrder
    <2> QED  BY <1>0, <1>6, <2>1, OrderSeen
<1>8. Stages[r] = "open" /\ UNCHANGED Bound
    BY <1>0, <1>2, StageOfOrder, BoundKept DEF Stages
<1> QED  BY <1>1, <1>2, <1>5, <1>7, <1>8 DEF Once!Sell, Stages, Bound

LEMMA DeclineRefined ==
    ASSUME PromiseInv, NEW r \in Requests, Compensate(r)
    PROVE  Once!Decline(r)
<1>0. TypeOK /\ KeyParts /\ orders[r] \in OrderRow
    BY RefineTypes DEF PromiseInv, TypeOK
<1>1. /\ pc[r] = "settle" /\ heard[r] = "declined" /\ UNCHANGED provider
      /\ Ends(r, "PaymentDeclined", None)
    BY DEF Compensate, Settling, worldVars
<1>2. orders[r].status = "reserved" /\ provider[r] = "declined"
    BY <1>0, <1>1 DEF KeyParts, OrderFollowsRequest, MoneyFollowsOrder
<1>3. Telling([kind |-> "PaymentDeclined", body |-> None])
          = [kind |-> "declined", order |-> None]
    BY TellingOf
<1>4. Once!Hears(r, "declined", None)
    <2>1. /\ Tale[r] = None
          /\ \/ Tale' = [Tale EXCEPT ![r] = [kind |-> "declined", order |-> None]]
             \/ Tale' = [Tale EXCEPT ![r] = [kind |-> "failed", order |-> None]]
        BY <1>0, <1>1, <1>3, EndsSeen
    <2> QED  BY <2>1 DEF Once!Hears, Once!Told, Tale
<1>5. PICK order : /\ orders' = [orders EXCEPT ![r] = order]
                   /\ order.status = "payment_failed"
    BY <1>0, OrderWritten
<1>6. Stages' = [Stages EXCEPT ![r] = "declined"]
    <2>1. Stage(order) = "declined"
        BY <1>5, StageOfOrder
    <2> QED  BY <1>0, <1>5, <2>1, OrderSeen
<1>7. Stages[r] = "open" /\ UNCHANGED Bound
    BY <1>0, <1>2, StageOfOrder, BoundKept DEF Stages
<1> QED  BY <1>1, <1>2, <1>4, <1>6, <1>7 DEF Once!Decline, Stages, Bound

LEMMA LeaveOpenRefined ==
    ASSUME PromiseInv, NEW r \in Requests, LeaveUnresolved(r)
    PROVE  Once!LeaveOpen(r) \/ Once!Fail(r)
<1>0. TypeOK /\ KeyParts /\ NothingAssumed
    BY RefineTypes DEF PromiseInv
<1>1. /\ pc[r] = "settle" /\ UNCHANGED <<keys, orders, provider>>
      /\ Ends(r, "PaymentUnresolved", None)
    BY DEF LeaveUnresolved, Settling, worldVars
<1>2. orders[r].status = "reserved" /\ provider[r] # None
    BY <1>0, <1>1 DEF KeyParts, OrderFollowsRequest, NothingAssumed
<1>3. Telling([kind |-> "PaymentUnresolved", body |-> None])
          = [kind |-> "unresolved", order |-> None]
    BY TellingOf
<1>4. /\ Tale[r] = None
      /\ \/ Tale' = [Tale EXCEPT ![r] = [kind |-> "unresolved", order |-> None]]
         \/ Tale' = [Tale EXCEPT ![r] = [kind |-> "failed", order |-> None]]
    BY <1>0, <1>1, <1>3, EndsSeen
<1>5. Stages[r] = "open" /\ UNCHANGED Bound /\ UNCHANGED Stages
    BY <1>1, <1>2, StageOfOrder DEF Stages, Bound
<1> QED  BY <1>1, <1>2, <1>4, <1>5 DEF Once!LeaveOpen, Once!Fail, Once!Told, Stages, Bound, Tale

LEMMA KeyStepRefined ==
    ASSUME PromiseInv, NEW r \in Requests, Step(r)
    PROVE  Once!Next \/ UNCHANGED Once!vars
<1>0. TypeOK /\ KeyParts
    BY RefineTypes DEF PromiseInv
<1>1. CASE \/ Geocode(r) \/ Claim(r) \/ FindsFailed(r) \/ Reclaim(r)
           \/ SelectWarehouse(r)
    <2>1. /\ pc[r] # "answered" /\ UNCHANGED <<answer, keys, orders, provider>>
          /\ \E step \in {"claim", "select", "reclaim", "reserve"} :
                 pc' = [pc EXCEPT ![r] = step]
        BY <1>1 DEF Geocode, Claim, FindsFailed, Existing, Reclaim, SelectWarehouse,
                    GoTo, dbVars, worldVars
    <2>2. UNCHANGED Tale
        BY <2>1, <1>0, MoveSeen
    <2> QED  BY <2>1, <2>2, KeyUnseen
<1>2. CASE \/ GeocodingFails(r) \/ FindsOtherBody(r) \/ FindsInProgress(r)
           \/ LosesReclaim(r) \/ FindsUnknownProduct(r) \/ FindsNoWarehouse(r)
           \/ FindsTwoCurrencies(r) \/ LosesStock(r)
    <2>1. /\ \E kind \in Refusals : Refuse(r, kind)
          /\ pc[r] \in {"geocode", "claim", "reclaim", "select", "reserve"}
        BY <1>2 DEF GeocodingFails, FindsOtherBody, FindsInProgress, Existing,
               LosesReclaim, FindsUnknownProduct, FindsNoWarehouse, FindsTwoCurrencies,
               LosesStock, Refusals
    <2> QED  BY <2>1, RefuseRefined DEF Once!Next
<1>3. CASE FindsCompleted(r)
    BY <1>3, ReplayRefined DEF Once!Next
<1>4. CASE Reserve(r)
    BY <1>4, OpenRefined DEF Once!Next
<1>5. CASE Charge(r)
    <2>1. PICK outcome \in Outcome : /\ provider[r] \in {None, outcome}
                                     /\ provider' = [provider EXCEPT ![r] = outcome]
        BY <1>5 DEF Charge
    <2>2. /\ pc[r] = "charge" /\ pc' = [pc EXCEPT ![r] = "settle"]
          /\ UNCHANGED <<answer, keys, orders>>
        BY <1>5 DEF Charge, GoTo, dbVars
    <2>3. UNCHANGED Tale /\ orders[r].status = "reserved"
        BY <2>2, <1>0, MoveSeen DEF KeyParts, OrderFollowsRequest
    <2>4. CASE provider[r] = outcome
        <3>1. UNCHANGED provider
            BY <2>1, <2>4, <1>0 DEF TypeOK
        <3> QED  BY <3>1, <2>2, <2>3, KeyUnseen
    <2>5. CASE provider[r] = None
        <3>1. Once!Charge(r, outcome)
            BY <2>1, <2>2, <2>3, <2>5, <1>0, ChargeRefined
        <3> QED  BY <3>1 DEF Once!Next, Outcome
    <2> QED  BY <2>1, <2>4, <2>5
<1>6. CASE Complete(r)
    BY <1>6, SellRefined DEF Once!Next
<1>7. CASE Compensate(r)
    BY <1>7, DeclineRefined DEF Once!Next
<1>8. CASE LeaveUnresolved(r)
    BY <1>8, LeaveOpenRefined DEF Once!Next
<1>9. CASE FindsNoCustomer(r) \/ FindsNothingToPay(r)
    BY <1>9, FailRefined DEF FindsNoCustomer, FindsNothingToPay, InternalErrors, Once!Next
<1> QED  BY <1>1, <1>2, <1>3, <1>4, <1>5, <1>6, <1>7, <1>8, <1>9
         DEF Step, ClaimKey, CreateOrder

\* "A timeout means the provider may still settle it": the order is open.
LEMMA ProviderSettlesRefined ==
    ASSUME PromiseInv, NEW r \in Requests, ProviderSettles(r)
    PROVE  Once!Next
<1>0. TypeOK /\ StateAgreesWithMoney
    BY RefineTypes DEF PromiseInv
<1>1. PICK outcome \in {"succeeded", "declined"} :
          provider' = [provider EXCEPT ![r] = outcome]
    BY DEF ProviderSettles
<1>2. provider[r] = "unknown" /\ UNCHANGED <<pc, answer, keys, orders>>
    BY DEF ProviderSettles, requestVars, dbVars
<1>3. UNCHANGED Tale
    BY <1>2 DEF Tale
<1>4. Stages[r] = "open"
    <2>1. orders[r].status \notin {"none", "confirmed", "payment_failed"}
        BY <1>0, <1>2, CheckoutAssumption DEF StateAgreesWithMoney, Outcome
    <2> QED  BY <2>1 DEF Stages, Stage
<1>5. Once!Charge(r, outcome)
    BY <1>1, <1>2, <1>3, <1>4 DEF Once!Charge, Stages, Bound, Tale
<1> QED  BY <1>5 DEF Once!Next

LEMMA KeyNextRefined == PromiseInv /\ [Next]_vars => [Once!Next]_(Once!vars)
<1> SUFFICES ASSUME PromiseInv, [Next]_vars PROVE Once!Next \/ UNCHANGED Once!vars
    OBVIOUS
<1>0. TypeOK
    BY RefineTypes DEF PromiseInv
<1>1. ASSUME NEW r \in Requests, Step(r) PROVE Once!Next \/ UNCHANGED Once!vars
    BY <1>1, KeyStepRefined
<1>2. ASSUME NEW r \in Requests, Crash(r) PROVE UNCHANGED Once!vars
    <2>1. /\ pc[r] # "answered" /\ pc' = [pc EXCEPT ![r] = "crashed"]
          /\ UNCHANGED <<answer, keys, orders, provider>>
        BY <1>2 DEF Crash, GoTo, dbVars, worldVars
    <2>2. UNCHANGED Tale
        BY <2>1, <1>0, MoveSeen
    <2> QED  BY <2>1, <2>2, KeyUnseen
<1>3. ASSUME NEW r \in Requests, ProviderSettles(r) PROVE Once!Next
    BY <1>3, ProviderSettlesRefined
<1>4. ASSUME UNCHANGED <<pc, answer, keys, orders, provider>>
      PROVE  UNCHANGED Once!vars
    BY <1>4, KeyUnseen DEF Tale
<1>5. ASSUME NEW r \in Requests, HoldLapses(r) \/ Reconcile(r)
      PROVE  UNCHANGED <<pc, answer, keys, orders, provider>>
    BY <1>5 DEF HoldLapses, Reconcile, requestVars, dbVars
<1>6. ASSUME Sweep PROVE UNCHANGED <<pc, answer, keys, orders, provider>>
    BY <1>6 DEF Sweep, requestVars, worldVars
<1>7. ASSUME UNCHANGED vars PROVE UNCHANGED <<pc, answer, keys, orders, provider>>
    BY <1>7 DEF vars, requestVars, dbVars, worldVars
<1>8. ASSUME NEW r \in Requests, Raises(r) PROVE Once!Next
    BY <1>8, FailRefined DEF Raises, InternalErrors, Once!Next
<1> QED  BY <1>1, <1>2, <1>3, <1>4, <1>5, <1>6, <1>7, <1>8 DEF Next, Idle

LEMMA KeyInitRefined == Init => Once!Init
BY DEF Init, Once!Init, NoKey, NoOrder, Stage

\* Seen from outside, a key has one order and one charge at a time, an order
\* is sold only for money taken, and repeating the request tells of that order:
\* whatever the interleaving, the crashes and the provider.
THEOREM SagaKeepsKeyPromise == Spec => KeepsKeyPromise
<1> QED  BY PromiseAlways, KeyInitRefined, KeyNextRefined, PTL
         DEF Spec, KeepsKeyPromise, Once!Spec

\* The facts about OncePerKey, of the keys, orders and answers of Checkout.
Client == INSTANCE OncePerKeyProofs WITH
    bound <- [k \in Keys |-> keys[k].hash],
    stage <- [r \in Requests |-> Stage(orders[r])],
    money <- provider,
    told <- [r \in Requests |->
                IF pc[r] = "answered" THEN Telling(answer[r]) ELSE None]

\* Everyone under a key is told one story, and it is true of the money: from the
\* promise alone, with no look at how Checkout keeps it.
THEOREM OneStoryForAll == Spec => []OneStoryPerKey
<1>1. Once!OnceConstants /\ Client!OnceConstants
    BY CheckoutAssumption DEF Once!OnceConstants, Client!OnceConstants, Outcome
<1>2. Client!Spec => []Client!OneStoryAKey
    BY <1>1, Client!KeyPromiseOneStory
<1>3. Once!Init <=> Client!Init
    BY DEF Once!Init, Client!Init
<1>4. [Once!Next]_Once!vars <=> [Client!Next]_Client!vars
    BY DEF Once!Next, Client!Next, Once!vars, Client!vars,
           Once!Open, Client!Open,
           Once!Charge, Client!Charge,
           Once!Sell, Client!Sell,
           Once!Decline, Client!Decline,
           Once!LeaveOpen, Client!LeaveOpen,
           Once!Replay, Client!Replay,
           Once!Refuse, Client!Refuse,
           Once!Fail, Client!Fail,
           Once!Hears, Client!Hears,
           Once!Told, Client!Told,
           Once!Blocking, Client!Blocking,
           Once!Rivals, Client!Rivals,
           Once!Sold, Client!Sold
<1>5. Client!OneStoryAKey <=> Once!OneStoryAKey
    BY DEF Client!OneStoryAKey, Once!OneStoryAKey, Client!TellsOf, Once!TellsOf
<1> QED  BY <1>2, <1>3, <1>4, <1>5, SagaKeepsKeyPromise, PTL
         DEF OneStoryPerKey, KeepsKeyPromise, Once!Spec, Client!Spec

-----------------------------------------------------------------------------
(* Nobody is stuck *)

\* ORDER BY distance, code LIMIT 1 has a first row if there is any.
LEMMA NearestExists ==
    ASSUME NEW r \in Requests, Eligible(r) # {}
    PROVE  \E w \in Eligible(r) : IsNearest(r, w)
<1> DEFINE Far == {Nearness[BodyOf[r]][w] : w \in Eligible(r)}
<1>1. \A w \in Eligible(r) : Nearness[BodyOf[r]][w] \in Nat
    BY CheckoutAssumption DEF Eligible
<1>2. Far \in SUBSET Nat /\ Far # {}
    BY <1>1
<1>3. PICK least \in Far : \A other \in Far : least <= other
    <2> HIDE DEF Far
    <2> QED  BY <1>2, LeastNumber
<1>4. PICK w \in Eligible(r) : least = Nearness[BodyOf[r]][w]
    BY <1>3
<1> QED  BY <1>3, <1>4 DEF IsNearest

\* A request inside tx1, past its claim, waits for no one.
LEMMA OwnerGoesOn ==
    ASSUME NEW r \in Requests, pc[r] \in {"select", "reserve"}
    PROVE  CanGoOn(r)
BY NearestExists DEF CanGoOn

\* tx2 has an answer of the provider, and finds what it left in tx1: the order
\* reserved, the key free, and its units in inventory.reserved.
LEMMA SettlingGoesOn ==
    ASSUME PromiseInv, NEW r \in Requests, pc[r] = "settle"
    PROVE  CanGoOn(r)
<1> USE DEF PromiseInv, RefineInv, AnswerInv, RecordInv, StockInv
<1>1. holder[KeyOf[r]] = None /\ orders[r].status = "reserved"
    BY InFlight
<1>2. heard[r] # None
    <2>1. heard[r] # "unknown" => provider[r] = heard[r]
        BY DEF KeyInv, KeyParts, MoneyFollowsOrder
    <2>2. provider[r] # None
        BY DEF NothingAssumed
    <2>3. None # "unknown"
        BY CheckoutAssumption DEF Outcome
    <2> QED  BY <2>1, <2>2, <2>3
<1>3. heard[r] \in Outcome
    BY <1>2 DEF KeyInv, TypeOK
<1>4. ActiveRows(r) \subseteq {row \in Rows : holds[row[1]][row[2]] = "active"}
    BY DEF ActiveRows
<1>5. CanGiveBack(ActiveRows(r))
    BY <1>4, ActiveCovered
<1>6. /\ CanMove(orders[r], "reserved", "paid")
      /\ CanMove(orders[r], "reserved", "payment_failed")
    BY <1>1 DEF CanMove, is_allowed, ALLOWED
<1> QED  BY <1>1, <1>3, <1>5, <1>6 DEF CanGoOn, Settling, Outcome

\* A request that is not over goes on, or waits for the claim of one that does:
\* no wait is for a crashed request or for one that waits itself, selection
\* always has an answer, and tx2 cannot meet an order or a stock it did not
\* leave.  What is left of EveryRequestAnswered is the scheduler's part.
THEOREM NobodyGetsStuck == Spec => []NobodyIsStuck
<1>1. ASSUME PromiseInv, NEW r \in Requests, pc[r] \notin {"answered", "crashed"}
      PROVE  \/ CanGoOn(r)
             \/ holder[KeyOf[r]] \in Requests \ {r} /\ CanGoOn(holder[KeyOf[r]])
    <2> USE DEF PromiseInv, RefineInv, AnswerInv, RecordInv, StockInv, KeyInv, KeyParts
    <2>1. KeyOf[r] \in Keys /\ pc[r] \in PC
        BY <1>1, CheckoutAssumption DEF TypeOK
    <2>2. CASE pc[r] \in {"geocode", "charge"}
        BY <2>2 DEF CanGoOn
    <2>3. CASE pc[r] \in {"select", "reserve"}
        BY <2>3, OwnerGoesOn
    <2>4. CASE pc[r] = "settle"
        BY <1>1, <2>4, SettlingGoesOn
    <2>5. CASE pc[r] \in {"claim", "reclaim"} /\ holder[KeyOf[r]] = None
        BY <2>5 DEF CanGoOn
    <2>6. CASE pc[r] \in {"claim", "reclaim"} /\ holder[KeyOf[r]] # None
        <3>1. holder[KeyOf[r]] \in Requests /\ pc[holder[KeyOf[r]]] \in {"select", "reserve"}
            BY <1>1, <2>1, <2>6 DEF OwnerMayClaim
        <3> QED  BY <2>6, <3>1, OwnerGoesOn
    <2> QED  BY <1>1, <2>1, <2>2, <2>3, <2>4, <2>5, <2>6 DEF PC
<1>2. PromiseInv => NobodyIsStuck
    BY <1>1 DEF NobodyIsStuck
<1> QED  BY <1>2, PromiseAlways, PTL
=============================================================================
