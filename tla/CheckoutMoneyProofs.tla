------------------------ MODULE CheckoutMoneyProofs ------------------------
(***************************************************************************)
(* Proofs about what Checkout records of an order and tells its clients,   *)
(* for all values of its constants: orders, payments, events and the       *)
(* provider agree on what was paid, the history tells how an order got     *)
(* where it is, what has been decided is never touched again, an answer    *)
(* stays true, and a key is left in progress only in doubt.                *)
(***************************************************************************)
EXTENDS CheckoutStockProofs

RecordInv == StockInv /\ StateAgreesWithMoney /\ HistoryAgrees

-----------------------------------------------------------------------------
(* The history of one order *)

LEMMA NewHistory ==
    ASSUME NEW w \in Warehouses
    PROVE  /\ NewOrder(w) \in OrderRow /\ NewOrder(w).status = "pending"
           /\ HistoryTells(NewOrder(w))
<1>1. NewOrder(w) \in OrderRow
    BY NewOrderType
<1>2. /\ NewOrder(w).history = <<<<None, "pending">>>>
      /\ NewOrder(w).status = "pending"
    BY DEF NewOrder
<1> QED  BY <1>1, <1>2 DEF HistoryTells

\* A legal move from the status the order has keeps its history telling it.
LEMMA MovedHistory ==
    ASSUME NEW order, order \in OrderRow, HistoryTells(order),
           NEW from \in OrderStatus, NEW to \in OrderStatus,
           CanMove(order, from, to)
    PROVE  /\ Moved(order, from, to) \in OrderRow
           /\ Moved(order, from, to).status = to
           /\ HistoryTells(Moved(order, from, to))
<1> DEFINE h == order.history
           moved == Moved(order, from, to)
           g == moved.history
<1>1. moved \in OrderRow /\ moved.status = to
    BY MovedType
<1>2. h \in Seq(HistoryRow) /\ g = Append(h, <<from, to>>)
    BY DEF OrderRow, Moved
<1>3. order.status = from /\ <<from, to>> \in ALLOWED
    BY DEF CanMove, is_allowed
<1>4. from # "none" /\ to # "none"
    BY DEF OrderStatus
<1>5. /\ h # <<>> /\ h[1] = <<None, "pending">> /\ h[Len(h)][2] = from
      /\ \A i \in 1..(Len(h) - 1) : h[i][2] = h[i + 1][1] /\ h[i + 1] \in ALLOWED
    BY <1>3, <1>4 DEF HistoryTells
<1> HIDE DEF h, g, moved
<1>6. Len(h) \in Nat \ {0} /\ Len(g) = Len(h) + 1
    BY <1>2, <1>5
<1>7. g[Len(h) + 1] = <<from, to>> /\ \A i \in 1..Len(h) : g[i] = h[i]
    BY <1>2, <1>6
<1>8. ASSUME NEW i \in 1..(Len(g) - 1)
      PROVE  g[i][2] = g[i + 1][1] /\ g[i + 1] \in ALLOWED
    <2>1. CASE i = Len(h)
        <3>1. g[i] = h[i] /\ h[i][2] = from
            BY <1>5, <1>6, <1>7, <2>1
        <3>2. g[i + 1] = <<from, to>>
            BY <1>7, <2>1
        <3> QED  BY <1>3, <3>1, <3>2
    <2>2. CASE i # Len(h)
        <3>1. i \in 1..(Len(h) - 1) /\ i + 1 \in 1..Len(h)
            BY <1>6, <2>2
        <3> QED  BY <1>5, <1>7, <3>1
    <2> QED  BY <2>1, <2>2
<1>9. g # <<>> /\ g[1] = <<None, "pending">> /\ g[Len(g)][2] = to
    BY <1>2, <1>5, <1>6, <1>7
<1> QED  BY <1>1, <1>4, <1>8, <1>9 DEF HistoryTells, g, moved

-----------------------------------------------------------------------------
LEMMA RecordInit == Init => RecordInv
<1> SUFFICES ASSUME Init PROVE RecordInv
    OBVIOUS
<1>1. StateAgreesWithMoney
    BY CheckoutAssumption DEF Init, StateAgreesWithMoney, NoOrder, NoPayment
<1>2. HistoryAgrees
    BY DEF Init, HistoryAgrees, HistoryTells, NoOrder
<1> QED  BY <1>1, <1>2, StockInit DEF RecordInv

\* A step that leaves the records of every order alone.
LEMMA RecordUnmoved ==
    ASSUME RecordInv, UNCHANGED <<orders, outbox, provider>>,
           \A r \in Requests : payments'[r].status = payments[r].status
    PROVE  StateAgreesWithMoney' /\ HistoryAgrees'
BY DEF RecordInv, StateAgreesWithMoney, HistoryAgrees

\* The provider decides, now or later, about an order still reserved.
LEMMA RecordProvider ==
    ASSUME RecordInv, NEW r \in Requests, orders[r].status = "reserved",
           NEW outcome, provider' = [provider EXCEPT ![r] = outcome],
           UNCHANGED <<orders, payments, outbox>>
    PROVE  StateAgreesWithMoney' /\ HistoryAgrees'
<1>1. provider'[r] = outcome /\ \A q \in Requests : q # r => provider'[q] = provider[q]
    BY DEF RecordInv, StockInv, KeyInv, TypeOK
<1> QED  BY <1>1 DEF RecordInv, StateAgreesWithMoney, HistoryAgrees

\* One order and its payment change together.
LEMMA RecordOrder ==
    ASSUME RecordInv, NEW r \in Requests, NEW order, NEW payment, NEW events,
           orders' = [orders EXCEPT ![r] = order],
           payments' = [payments EXCEPT ![r] = payment],
           outbox' = [outbox EXCEPT ![r] = events],
           UNCHANGED provider,
           \/ order.status = "reserved" /\ payment.status = "pending" /\ events = 0
           \/ /\ order.status = "confirmed" /\ payment.status = "succeeded"
              /\ events = 1 /\ provider[r] = "succeeded"
           \/ /\ order.status = "payment_failed" /\ payment.status = "failed"
              /\ events = 0 /\ provider[r] = "declined",
           HistoryTells(order)
    PROVE  StateAgreesWithMoney' /\ HistoryAgrees'
<1>1. /\ orders'[r] = order /\ payments'[r] = payment /\ outbox'[r] = events
      /\ \A q \in Requests : q # r =>
             /\ orders'[q] = orders[q] /\ payments'[q] = payments[q]
             /\ outbox'[q] = outbox[q]
    BY DEF RecordInv, StockInv, KeyInv, TypeOK
<1>2. HistoryAgrees'
    BY <1>1 DEF RecordInv, HistoryAgrees
<1>3. StateAgreesWithMoney'
    <2> SUFFICES ASSUME NEW q \in Requests
                 PROVE
            /\ orders'[q].status = "confirmed" <=> payments'[q].status = "succeeded"
            /\ orders'[q].status = "confirmed" => provider[q] = "succeeded"
            /\ orders'[q].status = "payment_failed" <=> payments'[q].status = "failed"
            /\ orders'[q].status = "payment_failed" => provider[q] = "declined"
            /\ orders'[q].status = "reserved" <=> payments'[q].status = "pending"
            /\ outbox'[q] = IF orders'[q].status = "confirmed" THEN 1 ELSE 0
            /\ provider[q] # None => orders'[q].status # "none"
        BY DEF StateAgreesWithMoney
    <2>1. CASE q = r
        BY <1>1, <2>1
    <2>2. CASE q # r
        BY <1>1, <2>2 DEF RecordInv, StateAgreesWithMoney
    <2> QED  BY <2>1, <2>2
<1> QED  BY <1>2, <1>3

LEMMA RecordRefuse ==
    ASSUME RecordInv, NEW r \in Requests, NEW kind, Refuse(r, kind)
    PROVE  StateAgreesWithMoney' /\ HistoryAgrees'
BY RecordUnmoved DEF Refuse, dbVars, worldVars

\* tx1 commits: a reserved order with a pending payment and no event.
LEMMA RecordReserve ==
    ASSUME RecordInv, NEW r \in Requests, Reserve(r)
    PROVE  StateAgreesWithMoney' /\ HistoryAgrees'
<1> USE DEF RecordInv, StockInv, KeyInv
<1> DEFINE order == Moved(NewOrder(chosen[r]), "pending", "reserved")
           payment == [status |-> "pending", noted |-> FALSE]
<1>1. chosen[r] \in Warehouses /\ orders[r].status = "none"
    BY DEF Reserve, StockParts, WarehouseChosen, KeyParts, OrderFollowsRequest
<1>2. CanMove(NewOrder(chosen[r]), "pending", "reserved")
    BY <1>1, NewHistory DEF CanMove, is_allowed, ALLOWED
<1>3. order.status = "reserved" /\ HistoryTells(order)
    BY <1>1, <1>2, NewHistory, MovedHistory DEF OrderStatus
<1>4. outbox' = [outbox EXCEPT ![r] = 0]
    BY <1>1 DEF Reserve, StateAgreesWithMoney, TypeOK
<1>5. /\ orders' = [orders EXCEPT ![r] = order]
      /\ payments' = [payments EXCEPT ![r] = payment]
      /\ UNCHANGED provider
    BY DEF Reserve, worldVars
<1>6. payment.status = "pending"
    OBVIOUS
<1> HIDE DEF order, payment
<1> QED  BY <1>3, <1>4, <1>5, <1>6, RecordOrder

\* A sale: confirmed, paid, one event, and the provider did take the money.
LEMMA RecordComplete ==
    ASSUME RecordInv, NEW r \in Requests, Complete(r)
    PROVE  StateAgreesWithMoney' /\ HistoryAgrees'
<1> USE DEF RecordInv, StockInv, KeyInv
<1> DEFINE paid == Moved(orders[r], "reserved", "paid")
           order == Moved(paid, "paid", "confirmed")
           payment == [payments[r] EXCEPT !.status = "succeeded"]
<1>1. /\ pc[r] = "settle" /\ heard[r] = "succeeded"
      /\ CanMove(orders[r], "reserved", "paid")
      /\ orders' = [orders EXCEPT ![r] = order]
      /\ payments' = [payments EXCEPT ![r] = payment]
      /\ outbox' = [outbox EXCEPT ![r] = @ + 1]
      /\ UNCHANGED provider
    BY DEF Complete, Settling, worldVars
<1>2. orders[r] \in OrderRow /\ HistoryTells(orders[r]) /\ orders[r].status = "reserved"
    BY <1>1 DEF TypeOK, HistoryAgrees, CanMove
<1>3. paid \in OrderRow /\ paid.status = "paid" /\ HistoryTells(paid)
    BY <1>1, <1>2, MovedHistory DEF OrderStatus
<1> HIDE DEF paid
<1>4. CanMove(paid, "paid", "confirmed")
    BY <1>3 DEF CanMove, is_allowed, ALLOWED
<1>5. order.status = "confirmed" /\ HistoryTells(order)
    BY <1>3, <1>4, MovedHistory DEF OrderStatus
<1>6. payment.status = "succeeded"
    BY DEF TypeOK, PaymentRow
<1>7. outbox' = [outbox EXCEPT ![r] = 1]
    <2>1. outbox[r] = 0
        BY <1>2 DEF StateAgreesWithMoney
    <2> QED  BY <1>1, <2>1
<1>8. provider[r] = "succeeded"
    BY <1>1 DEF KeyParts, MoneyFollowsOrder
<1> HIDE DEF order, payment
<1> QED  BY <1>1, <1>5, <1>6, <1>7, <1>8, RecordOrder

\* A decline the provider will not take back.
LEMMA RecordCompensate ==
    ASSUME RecordInv, NEW r \in Requests, Compensate(r)
    PROVE  StateAgreesWithMoney' /\ HistoryAgrees'
<1> USE DEF RecordInv, StockInv, KeyInv
<1> DEFINE order == Moved(orders[r], "reserved", "payment_failed")
           payment == [payments[r] EXCEPT !.status = "failed"]
<1>1. /\ pc[r] = "settle" /\ heard[r] = "declined"
      /\ CanMove(orders[r], "reserved", "payment_failed")
      /\ orders' = [orders EXCEPT ![r] = order]
      /\ payments' = [payments EXCEPT ![r] = payment]
      /\ UNCHANGED <<outbox, provider>>
    BY DEF Compensate, Settling, worldVars
<1>2. orders[r] \in OrderRow /\ HistoryTells(orders[r]) /\ orders[r].status = "reserved"
    BY <1>1 DEF TypeOK, HistoryAgrees, CanMove
<1>3. order.status = "payment_failed" /\ HistoryTells(order)
    BY <1>1, <1>2, MovedHistory DEF OrderStatus
<1>4. payment.status = "failed"
    BY DEF TypeOK, PaymentRow
<1>5. outbox' = [outbox EXCEPT ![r] = 0]
    BY <1>1, <1>2 DEF StateAgreesWithMoney, TypeOK
<1>6. provider[r] = "declined"
    BY <1>1 DEF KeyParts, MoneyFollowsOrder
<1> HIDE DEF order, payment
<1> QED  BY <1>1, <1>3, <1>4, <1>5, <1>6, RecordOrder

LEMMA RecordStep ==
    ASSUME RecordInv, NEW r \in Requests, Step(r)
    PROVE  StateAgreesWithMoney' /\ HistoryAgrees'
<1>1. CASE Geocode(r) \/ Claim(r) \/ FindsFailed(r) \/ Reclaim(r) \/ SelectWarehouse(r)
    <2>1. UNCHANGED dbVars /\ UNCHANGED worldVars
        BY <1>1 DEF Geocode, Claim, FindsFailed, Reclaim, SelectWarehouse
    <2> QED  BY <2>1, RecordUnmoved DEF dbVars, worldVars
<1>2. CASE FindsCompleted(r)
    BY <1>2, RecordUnmoved DEF FindsCompleted, dbVars, worldVars
<1>3. CASE \/ GeocodingFails(r) \/ FindsOtherBody(r) \/ FindsInProgress(r)
           \/ LosesReclaim(r) \/ FindsUnknownProduct(r) \/ FindsNoWarehouse(r)
           \/ FindsTwoCurrencies(r) \/ FindsNoCustomer(r) \/ LosesStock(r)
           \/ FindsNothingToPay(r)
    <2>1. \E kind \in AnswerKind : Refuse(r, kind)
        BY <1>3 DEF GeocodingFails, FindsOtherBody, FindsInProgress, LosesReclaim,
                    FindsUnknownProduct, FindsNoWarehouse, FindsTwoCurrencies,
                    FindsNoCustomer, LosesStock, FindsNothingToPay, Refusals,
                    InternalErrors, AnswerKind
    <2> QED  BY <2>1, RecordRefuse
<1>4. CASE Reserve(r)
    BY <1>4, RecordReserve
<1>5. CASE Charge(r)
    <2>1. orders[r].status = "reserved"
        BY <1>5, InFlight DEF Charge, RecordInv, StockInv
    <2> QED  BY <1>5, <2>1, RecordProvider DEF Charge, dbVars
<1>6. CASE Complete(r)
    BY <1>6, RecordComplete
<1>7. CASE Compensate(r)
    BY <1>7, RecordCompensate
<1>8. CASE LeaveUnresolved(r)
    <2>1. \A q \in Requests : payments'[q].status = payments[q].status
        BY <1>8 DEF LeaveUnresolved, RecordInv, StockInv, KeyInv, TypeOK, PaymentRow
    <2> QED  BY <1>8, <2>1, RecordUnmoved DEF LeaveUnresolved, worldVars
<1> QED
    BY <1>1, <1>2, <1>3, <1>4, <1>5, <1>6, <1>7, <1>8 DEF Step, ClaimKey, CreateOrder

LEMMA RecordNext == RecordInv /\ [Next]_vars => RecordInv'
<1> SUFFICES ASSUME RecordInv, [Next]_vars
             PROVE  StateAgreesWithMoney' /\ HistoryAgrees'
    BY StockNext DEF RecordInv
<1>1. ASSUME NEW r \in Requests, Step(r)
      PROVE  StateAgreesWithMoney' /\ HistoryAgrees'
    BY <1>1, RecordStep
<1>2. ASSUME NEW r \in Requests, Crash(r) \/ HoldLapses(r) \/ Reconcile(r)
      PROVE  StateAgreesWithMoney' /\ HistoryAgrees'
    <2>1. UNCHANGED <<orders, outbox, provider, payments>>
        BY <1>2 DEF Crash, HoldLapses, Reconcile, dbVars, worldVars
    <2> QED  BY <2>1, RecordUnmoved
<1>3. ASSUME NEW r \in Requests, ProviderSettles(r)
      PROVE  StateAgreesWithMoney' /\ HistoryAgrees'
    <2>1. PICK outcome \in {"succeeded", "declined"} :
              provider' = [provider EXCEPT ![r] = outcome]
        BY <1>3 DEF ProviderSettles
    <2>2. orders[r].status \in {"reserved", "pending", "paid", "cancelled"}
        BY <1>3, CheckoutAssumption
           DEF ProviderSettles, RecordInv, StateAgreesWithMoney, StockInv, KeyInv,
               TypeOK, OrderRow, OrderStatus, Outcome
    <2>3. \A q \in Requests : provider'[q] = IF q = r THEN outcome ELSE provider[q]
        BY <2>1 DEF RecordInv, StockInv, KeyInv, TypeOK
    <2>4. UNCHANGED <<orders, payments, outbox>>
        BY <1>3 DEF ProviderSettles, dbVars
    <2> QED  BY <2>2, <2>3, <2>4 DEF RecordInv, StateAgreesWithMoney, HistoryAgrees
<1>4. ASSUME Sweep
      PROVE  StateAgreesWithMoney' /\ HistoryAgrees'
    BY <1>4, RecordUnmoved DEF Sweep, worldVars
<1>5. ASSUME UNCHANGED vars
      PROVE  StateAgreesWithMoney' /\ HistoryAgrees'
    <2>1. UNCHANGED <<orders, outbox, provider, payments>>
        BY <1>5 DEF vars, dbVars, worldVars
    <2> QED  BY <2>1, RecordUnmoved
<1>6. ASSUME NEW r \in Requests, Raises(r)
      PROVE  StateAgreesWithMoney' /\ HistoryAgrees'
    BY <1>6, RecordRefuse DEF Raises
<1> QED  BY <1>1, <1>2, <1>3, <1>4, <1>5, <1>6 DEF Next, Idle

LEMMA RecordAlways == Spec => []RecordInv
<1> QED  BY RecordInit, RecordNext, PTL DEF Spec

\* An order, its payment, its event and the provider never contradict each
\* other: crashes, late answers of the provider and sweeps included.
THEOREM MoneyAgrees == Spec => []StateAgreesWithMoney
<1>1. RecordInv => StateAgreesWithMoney
    BY DEF RecordInv
<1> QED  BY <1>1, RecordAlways, PTL

\* order_status_history always leads to orders.status along legal moves.
THEOREM HistoriesTell == Spec => []HistoryAgrees
<1>1. RecordInv => HistoryAgrees
    BY DEF RecordInv
<1> QED  BY <1>1, RecordAlways, PTL

-----------------------------------------------------------------------------
(* What has been decided stays *)

\* tx2 finds its order reserved and its key in progress: neither is decided.
LEMMA FinalDecide ==
    ASSUME StockInv, NEW r \in Requests, pc[r] = "settle",
           \A q \in Requests : q # r => orders'[q] = orders[q],
           \A k \in Keys : k # KeyOf[r] => keys'[k] = keys[k],
           \A q \in Requests, p \in Products :
               holds[q][p] # "active" => holds'[q][p] = holds[q][p]
    PROVE  DecidedStays
<1>1. orders[r].status = "reserved" /\ keys[KeyOf[r]].status = "in_progress"
    BY InFlight DEF StockInv
<1> QED  BY <1>1 DEF DecidedStays, TERMINAL

\* tx1 writes a new order, its rows and a key nobody has completed.
LEMMA FinalReserve ==
    ASSUME StockInv, NEW r \in Requests, Reserve(r)
    PROVE  DecidedStays
<1> USE DEF StockInv, KeyInv
<1>1. /\ pc[r] = "reserve" /\ orders[r].status = "none" /\ KeyOf[r] \in Keys
      /\ keys[KeyOf[r]].status \in {"absent", "failed"}
    BY CheckoutAssumption
       DEF Reserve, KeyParts, OrderFollowsRequest, RequestOwnsKey, OwnerMayClaim
<1>2. \A q \in Requests : orders[q].status \in TERMINAL => orders'[q] = orders[q]
    BY <1>1 DEF Reserve, TypeOK, TERMINAL
<1>3. \A k \in Keys : keys[k].status = "completed" => keys'[k] = keys[k]
    BY <1>1 DEF Reserve, TypeOK
<1>4. \A q \in Requests, p \in Products :
          holds[q][p] \notin {"none", "active"} => holds'[q][p] = holds[q][p]
    <2>1. \A p \in Products : holds[r][p] = "none"
        BY <1>1 DEF StockParts, HoldsEndForAReason
    <2>2. \A q \in Requests : q # r => holds'[q] = holds[q]
        BY DEF Reserve, TypeOK
    <2> QED  BY <2>1, <2>2
<1> QED  BY <1>2, <1>3, <1>4 DEF DecidedStays

LEMMA FinalNext == StockInv /\ [Next]_vars => [DecidedStays]_vars
<1> SUFFICES ASSUME StockInv, Next PROVE DecidedStays
    OBVIOUS
<1>1. ASSUME UNCHANGED <<orders, keys, holds>> PROVE DecidedStays
    BY <1>1 DEF DecidedStays
<1>2. ASSUME NEW r \in Requests, Step(r) PROVE DecidedStays
    <2>1. CASE Reserve(r)
        BY <2>1, FinalReserve
    <2>2. CASE Complete(r)
        <3>1. /\ pc[r] = "settle" /\ holds' = Marked(ActiveRows(r), "committed")
              /\ \A q \in Requests : q # r => orders'[q] = orders[q]
              /\ \A k \in Keys : k # KeyOf[r] => keys'[k] = keys[k]
            BY <2>2 DEF Complete, Settling, StockInv, KeyInv, TypeOK
        <3>2. \A q \in Requests, p \in Products :
                  holds[q][p] # "active" => holds'[q][p] = holds[q][p]
            BY <3>1, MarkedActive
        <3> QED  BY <3>1, <3>2, FinalDecide
    <2>3. CASE Compensate(r)
        <3>1. /\ pc[r] = "settle" /\ holds' = Marked(ActiveRows(r), "released")
              /\ \A q \in Requests : q # r => orders'[q] = orders[q]
              /\ \A k \in Keys : k # KeyOf[r] => keys'[k] = keys[k]
            BY <2>3 DEF Compensate, Settling, StockInv, KeyInv, TypeOK
        <3>2. \A q \in Requests, p \in Products :
                  holds[q][p] # "active" => holds'[q][p] = holds[q][p]
            BY <3>1, MarkedActive
        <3> QED  BY <3>1, <3>2, FinalDecide
    <2>4. CASE ~(Reserve(r) \/ Complete(r) \/ Compensate(r))
        <3>1. UNCHANGED <<orders, keys, holds>>
            BY <1>2, <2>4
               DEF Step, ClaimKey, CreateOrder, Geocode, GeocodingFails, Claim,
                   FindsOtherBody, FindsCompleted, FindsInProgress, FindsFailed,
                   Reclaim, LosesReclaim, SelectWarehouse, FindsUnknownProduct,
                   FindsNoWarehouse, FindsTwoCurrencies, FindsNoCustomer, LosesStock,
                   FindsNothingToPay, Charge, LeaveUnresolved, Refuse, dbVars
        <3> QED  BY <1>1, <3>1
    <2> QED  BY <2>1, <2>2, <2>3, <2>4
<1>3. ASSUME NEW r \in Requests,
             \/ Crash(r) \/ Raises(r) \/ HoldLapses(r) \/ ProviderSettles(r)
             \/ Reconcile(r)
      PROVE  DecidedStays
    BY <1>1, <1>3 DEF Crash, Raises, Refuse, HoldLapses, ProviderSettles, Reconcile, dbVars
<1>4. ASSUME Sweep PROVE DecidedStays
    <2>1. PICK S \in SUBSET Expired : holds' = Marked(S, "expired")
        BY <1>4 DEF Sweep
    <2>2. \A q \in Requests, p \in Products :
              holds[q][p] # "active" => holds'[q][p] = holds[q][p]
        BY <2>1 DEF Expired, Marked
    <2> QED  BY <1>4, <2>2 DEF Sweep, DecidedStays
<1>5. ASSUME Idle PROVE DecidedStays
    BY <1>1, <1>5 DEF Idle, vars, dbVars
<1> QED  BY <1>2, <1>3, <1>4, <1>5 DEF Next

\* No step of any actor rewrites a decided order, a completed key or a row of
\* stock whose hold has ended.
THEOREM DecisionsAreFinal == Spec => DecidedIsFinal
<1> QED  BY StockAlways, FinalNext, PTL DEF Spec, DecidedIsFinal

-----------------------------------------------------------------------------
(* The answers *)

\* The response stored with a completed key is the one of its order.
KeyStoresResponse ==
    \A k \in Keys : keys[k].status = "completed" =>
        keys[k].body = [order |-> keys[k].order, status |-> "confirmed"]

\* An answer is of a known kind, a 201, replayed or not, is the response the
\* key stores for its body, and whoever ran into a constraint has no order.
AnswerIsStored(r) ==
    /\ answer[r].kind \in AnswerKind
    /\ answer[r].kind \in {"created", "replayed"} =>
        /\ keys[KeyOf[r]].status = "completed"
        /\ keys[KeyOf[r]].hash = BodyOf[r]
        /\ answer[r].body = keys[KeyOf[r]].body
    /\ answer[r].kind = "IntegrityError" => orders[r].status = "none"

AnswerParts ==
    /\ KeyStoresResponse
    /\ \A r \in Requests : pc[r] = "answered" => AnswerIsTrue(r) /\ AnswerIsStored(r)
AnswerInv == RecordInv /\ AnswerParts

LEMMA AnswerInit == Init => AnswerInv
BY RecordInit DEF Init, AnswerInv, AnswerParts, KeyStoresResponse, NoKey

\* A step of one request: what the others were told stays as true as it was.
LEMMA AnswerFrame ==
    ASSUME AnswerInv, DecidedStays, KeyStoresResponse', NEW r \in Requests,
           \A q \in Requests : q # r =>
               /\ pc'[q] = pc[q] /\ answer'[q] = answer[q] /\ orders'[q] = orders[q]
               /\ payments'[q] = payments[q] /\ provider'[q] = provider[q],
           pc'[r] = "answered" => AnswerIsTrue(r)' /\ AnswerIsStored(r)'
    PROVE  AnswerParts'
<1> SUFFICES ASSUME NEW q \in Requests, q # r, pc'[q] = "answered"
             PROVE  AnswerIsTrue(q)' /\ AnswerIsStored(q)'
    BY DEF AnswerParts
<1>1. AnswerIsTrue(q) /\ AnswerIsStored(q)
    BY DEF AnswerInv, AnswerParts
<1>2. AnswerIsTrue(q)'
    BY <1>1 DEF AnswerIsTrue
<1>3. KeyOf[q] \in Keys
    BY CheckoutAssumption
<1>4. AnswerIsStored(q)'
    BY <1>1, <1>3 DEF AnswerIsStored, DecidedStays
<1> QED  BY <1>2, <1>4

\* A refusal comes before any order; a 500 may come at any time, and says
\* nothing.
LEMMA AnswerRefuse ==
    ASSUME AnswerInv, DecidedStays, NEW r \in Requests,
           NEW kind \in Refusals \cup InternalErrors,
           kind = "ServerError"
               \/ pc[r] \in {"geocode", "claim", "reclaim", "select", "reserve"},
           Refuse(r, kind)
    PROVE  AnswerParts'
<1> USE DEF AnswerInv, RecordInv, StockInv, KeyInv
<1>1. /\ pc' = [pc EXCEPT ![r] = "answered"]
      /\ answer' = [answer EXCEPT ![r] = [kind |-> kind, body |-> None]]
      /\ UNCHANGED <<keys, orders, payments, provider>>
    BY DEF Refuse, Reply, dbVars, worldVars
<1>2. answer'[r] = [kind |-> kind, body |-> None]
    BY <1>1 DEF TypeOK
<1>3. kind # "ServerError" => orders'[r].status = "none"
    BY <1>1 DEF KeyParts, OrderFollowsRequest
<1>4. /\ kind \notin {"created", "replayed", "PaymentDeclined", "PaymentUnresolved"}
      /\ kind \in Refusals => kind # "ServerError"
    BY DEF Refusals, InternalErrors
<1>5. AnswerIsTrue(r)' /\ AnswerIsStored(r)'
    BY <1>2, <1>3, <1>4 DEF AnswerIsTrue, AnswerIsStored, AnswerKind
<1>6. KeyStoresResponse'
    BY <1>1 DEF AnswerParts, KeyStoresResponse
<1>7. \A q \in Requests : q # r => pc'[q] = pc[q] /\ answer'[q] = answer[q]
    BY <1>1 DEF TypeOK
<1> QED  BY <1>1, <1>5, <1>6, <1>7, AnswerFrame

\* The end of tx2 answers what it has to say, or 500.
LEMMA EndsAnswer ==
    ASSUME TypeOK, NEW r \in Requests, NEW kind, NEW body, Ends(r, kind, body)
    PROVE  /\ pc' = [pc EXCEPT ![r] = "answered"]
           /\ \A q \in Requests : q # r => answer'[q] = answer[q]
           /\ answer'[r] \in {[kind |-> kind, body |-> body],
                              [kind |-> "ServerError", body |-> None]}
BY DEF Ends, Reply, TypeOK

\* A 500 is true of any order.
LEMMA ServerErrorIsTrue ==
    ASSUME NEW r, answer'[r] = [kind |-> "ServerError", body |-> None]
    PROVE  AnswerIsTrue(r)' /\ AnswerIsStored(r)'
BY DEF AnswerIsTrue, AnswerIsStored, AnswerKind, Refusals, InternalErrors

\* A request that goes on, or dies, without an answer.
LEMMA AnswerMove ==
    ASSUME AnswerInv, DecidedStays, NEW r \in Requests,
           NEW step, step # "answered", pc' = [pc EXCEPT ![r] = step],
           UNCHANGED <<answer, keys>>,
           \A q \in Requests : q # r =>
               /\ orders'[q] = orders[q] /\ payments'[q] = payments[q]
               /\ provider'[q] = provider[q]
    PROVE  AnswerParts'
<1>1. pc'[r] # "answered" /\ \A q \in Requests : q # r => pc'[q] = pc[q]
    BY DEF AnswerInv, RecordInv, StockInv, KeyInv, TypeOK
<1>2. KeyStoresResponse'
    BY DEF AnswerInv, AnswerParts, KeyStoresResponse
<1> QED  BY <1>1, <1>2, AnswerFrame

\* The jobs and the clock answer nobody and write no record of an order.
LEMMA AnswerUntouched ==
    ASSUME AnswerInv, UNCHANGED <<pc, answer, keys, orders, payments, provider>>
    PROVE  AnswerParts'
BY DEF AnswerInv, AnswerParts, KeyStoresResponse, AnswerIsTrue, AnswerIsStored

\* A replay: the key is completed, so a request before tx1's order has none.
LEMMA AnswerReplay ==
    ASSUME AnswerInv, DecidedStays, NEW r \in Requests, FindsCompleted(r)
    PROVE  AnswerParts'
<1> USE DEF AnswerInv, RecordInv, StockInv, KeyInv
<1> DEFINE body == keys[KeyOf[r]].body
<1>1. /\ pc[r] = "claim" /\ keys[KeyOf[r]].status = "completed"
      /\ keys[KeyOf[r]].hash = BodyOf[r]
      /\ pc' = [pc EXCEPT ![r] = "answered"]
      /\ answer' = [answer EXCEPT ![r] = [kind |-> "replayed", body |-> body]]
      /\ UNCHANGED <<keys, orders, payments, provider>>
    BY DEF FindsCompleted, Existing, SameBody, Reply, dbVars, worldVars
<1>2. answer'[r] = [kind |-> "replayed", body |-> body] /\ orders'[r].status = "none"
    BY <1>1 DEF TypeOK, KeyParts, OrderFollowsRequest
<1>3. AnswerIsTrue(r)' /\ AnswerIsStored(r)'
    BY <1>1, <1>2 DEF AnswerIsTrue, AnswerIsStored, AnswerKind
<1>4. KeyStoresResponse'
    BY <1>1 DEF AnswerParts, KeyStoresResponse
<1>5. \A q \in Requests : q # r => pc'[q] = pc[q] /\ answer'[q] = answer[q]
    BY <1>1 DEF TypeOK
<1> QED  BY <1>1, <1>3, <1>4, <1>5, AnswerFrame

LEMMA AnswerReserve ==
    ASSUME AnswerInv, DecidedStays, NEW r \in Requests, Reserve(r)
    PROVE  AnswerParts'
<1> USE DEF AnswerInv, RecordInv, StockInv, KeyInv
<1>1. pc' = [pc EXCEPT ![r] = "charge"] /\ UNCHANGED <<answer, provider>>
    BY DEF Reserve, GoTo, worldVars
<1>2. pc'[r] # "answered"
    BY <1>1 DEF TypeOK
<1>3. \A q \in Requests : q # r =>
          pc'[q] = pc[q] /\ orders'[q] = orders[q] /\ payments'[q] = payments[q]
    BY <1>1 DEF Reserve, TypeOK
<1>4. KeyOf[r] \in Keys /\ keys'[KeyOf[r]].status = "in_progress"
    <2>1. KeyOf[r] \in Keys /\ keys[KeyOf[r]] \in KeyRow
        BY CheckoutAssumption DEF TypeOK
    <2>2. ClaimedKey(keys[KeyOf[r]], r).status = "in_progress"
        BY <2>1 DEF ClaimedKey, KeyRow
    <2>3. keys' = [keys EXCEPT ![KeyOf[r]] = ClaimedKey(keys[KeyOf[r]], r)]
        BY DEF Reserve
    <2> QED  BY <2>1, <2>2, <2>3 DEF TypeOK
<1>5. \A k \in Keys : k # KeyOf[r] => keys'[k] = keys[k]
    BY <1>4 DEF Reserve, TypeOK
<1>6. KeyStoresResponse'
    BY <1>4, <1>5 DEF AnswerParts, KeyStoresResponse
<1> QED  BY <1>1, <1>2, <1>3, <1>6, AnswerFrame

\* 201: the response goes to the client and to the key in one transaction.
LEMMA AnswerComplete ==
    ASSUME AnswerInv, DecidedStays, NEW r \in Requests, Complete(r)
    PROVE  AnswerParts'
<1> USE DEF AnswerInv, RecordInv, StockInv, KeyInv
<1> DEFINE order == Moved(Moved(orders[r], "reserved", "paid"), "paid", "confirmed")
           body == [order |-> r, status |-> "confirmed"]
           k == KeyOf[r]
<1>1. k \in Keys /\ keys[k] \in KeyRow /\ orders[r] \in OrderRow
    BY CheckoutAssumption DEF TypeOK
<1>2. order.status = "confirmed"
    BY <1>1, MovedType DEF OrderStatus
<1>3. Rendered(r, order) = body
    BY <1>2 DEF Rendered
<1>4. /\ orders' = [orders EXCEPT ![r] = order]
      /\ keys' = [keys EXCEPT ![k] = CompletedKey(@, r, Rendered(r, order))]
      /\ pc' = [pc EXCEPT ![r] = "answered"]
      /\ \A q \in Requests : q # r => answer'[q] = answer[q]
      /\ answer'[r] \in {[kind |-> "created", body |-> Rendered(r, order)],
                         [kind |-> "ServerError", body |-> None]}
      /\ UNCHANGED provider
    <2>1. Ends(r, "created", Rendered(r, order))
        BY DEF Complete
    <2> QED  BY <2>1, EndsAnswer DEF Complete, worldVars
<1> HIDE DEF order, body
<1>5. /\ keys'[k].status = "completed" /\ keys'[k].order = r /\ keys'[k].body = body
      /\ keys'[k].hash = keys[k].hash
      /\ \A j \in Keys : j # k => keys'[j] = keys[j]
    BY <1>1, <1>3, <1>4 DEF CompletedKey, TypeOK, KeyRow
<1>6. KeyStoresResponse'
    BY <1>5 DEF AnswerParts, KeyStoresResponse, body
<1>7. orders'[r] = order
    BY <1>4 DEF TypeOK
<1>8. ASSUME answer'[r] = [kind |-> "created", body |-> body]
      PROVE  AnswerIsTrue(r)' /\ AnswerIsStored(r)'
    <2>1. AnswerIsTrue(r)'
        BY <1>2, <1>7, <1>8 DEF AnswerIsTrue, Refusals, body
    <2>2. r \in OrdersUnder(k)
        BY InFlight DEF Complete, Settling
    <2>3. keys[k].hash = BodyOf[r]
        BY <1>1, <2>2 DEF KeyParts, KeyTellsItsOrders
    <2>4. AnswerIsStored(r)'
        BY <1>5, <1>8, <2>3 DEF AnswerIsStored, AnswerKind
    <2> QED  BY <2>1, <2>4
<1>9. AnswerIsTrue(r)' /\ AnswerIsStored(r)'
    BY <1>3, <1>4, <1>8, ServerErrorIsTrue
<1>10. \A q \in Requests : q # r =>
           /\ pc'[q] = pc[q] /\ answer'[q] = answer[q] /\ orders'[q] = orders[q]
           /\ payments'[q] = payments[q]
    BY <1>4 DEF Complete, TypeOK
<1> QED  BY <1>4, <1>6, <1>9, <1>10, AnswerFrame

\* 402: the provider declined and will not take the money later.
LEMMA AnswerCompensate ==
    ASSUME AnswerInv, DecidedStays, NEW r \in Requests, Compensate(r)
    PROVE  AnswerParts'
<1> USE DEF AnswerInv, RecordInv, StockInv, KeyInv
<1> DEFINE order == Moved(orders[r], "reserved", "payment_failed")
           k == KeyOf[r]
<1>1. k \in Keys /\ keys[k] \in KeyRow /\ orders[r] \in OrderRow
    BY CheckoutAssumption DEF TypeOK
<1>2. order.status = "payment_failed"
    BY <1>1, MovedType DEF OrderStatus
<1>3. /\ pc[r] = "settle" /\ heard[r] = "declined"
      /\ orders' = [orders EXCEPT ![r] = order]
      /\ keys' = [keys EXCEPT ![k] = FailedKey(@, r)]
      /\ pc' = [pc EXCEPT ![r] = "answered"]
      /\ \A q \in Requests : q # r => answer'[q] = answer[q]
      /\ answer'[r] \in {[kind |-> "PaymentDeclined", body |-> None],
                         [kind |-> "ServerError", body |-> None]}
      /\ UNCHANGED provider
    BY EndsAnswer DEF Compensate, Settling, worldVars
<1> HIDE DEF order
<1>4. /\ keys'[k].status = "failed" /\ \A j \in Keys : j # k => keys'[j] = keys[j]
    BY <1>1, <1>3, RowFields DEF TypeOK
<1>5. KeyStoresResponse'
    BY <1>4 DEF AnswerParts, KeyStoresResponse
<1>6. orders'[r] = order /\ provider'[r] = "declined"
    BY <1>3 DEF TypeOK, KeyParts, MoneyFollowsOrder
<1>7. AnswerIsTrue(r)' /\ AnswerIsStored(r)'
    <2>1. CASE answer'[r] = [kind |-> "PaymentDeclined", body |-> None]
        BY <1>2, <1>6, <2>1 DEF AnswerIsTrue, AnswerIsStored, AnswerKind, Refusals
    <2> QED  BY <1>3, <2>1, ServerErrorIsTrue
<1>8. \A q \in Requests : q # r =>
          /\ pc'[q] = pc[q] /\ answer'[q] = answer[q] /\ orders'[q] = orders[q]
          /\ payments'[q] = payments[q]
    BY <1>3 DEF Compensate, TypeOK
<1> QED  BY <1>3, <1>5, <1>7, <1>8, AnswerFrame

\* 502: the order stays reserved until someone learns what happened.
LEMMA AnswerUnresolved ==
    ASSUME AnswerInv, DecidedStays, NEW r \in Requests, LeaveUnresolved(r)
    PROVE  AnswerParts'
<1> USE DEF AnswerInv, RecordInv, StockInv, KeyInv
<1>1. /\ pc[r] = "settle" /\ pc' = [pc EXCEPT ![r] = "answered"]
      /\ \A q \in Requests : q # r => answer'[q] = answer[q]
      /\ answer'[r] \in {[kind |-> "PaymentUnresolved", body |-> None],
                         [kind |-> "ServerError", body |-> None]}
      /\ payments' = [payments EXCEPT ![r].noted = TRUE]
      /\ UNCHANGED <<keys, orders, provider>>
    BY EndsAnswer DEF LeaveUnresolved, Settling, worldVars
<1>2. payments'[r].noted = TRUE /\ orders'[r].status = "reserved"
    BY <1>1 DEF TypeOK, PaymentRow, KeyParts, OrderFollowsRequest
<1>3. AnswerIsTrue(r)' /\ AnswerIsStored(r)'
    <2>1. CASE answer'[r] = [kind |-> "PaymentUnresolved", body |-> None]
        BY <1>2, <2>1 DEF AnswerIsTrue, AnswerIsStored, AnswerKind, Refusals
    <2> QED  BY <1>1, <2>1, ServerErrorIsTrue
<1>4. KeyStoresResponse'
    BY <1>1 DEF AnswerParts, KeyStoresResponse
<1>5. \A q \in Requests : q # r =>
          pc'[q] = pc[q] /\ answer'[q] = answer[q] /\ payments'[q] = payments[q]
    BY <1>1 DEF TypeOK
<1> QED  BY <1>1, <1>3, <1>4, <1>5, AnswerFrame

LEMMA AnswerStep ==
    ASSUME AnswerInv, DecidedStays, NEW r \in Requests, Step(r)
    PROVE  AnswerParts'
<1>1. CASE \/ Geocode(r) \/ Claim(r) \/ FindsFailed(r) \/ Reclaim(r)
           \/ SelectWarehouse(r)
    <2>1. \E step \in {"claim", "select", "reclaim", "reserve"} :
              pc' = [pc EXCEPT ![r] = step]
        BY <1>1 DEF Geocode, Claim, FindsFailed, Reclaim, SelectWarehouse, GoTo
    <2>2. UNCHANGED <<answer, keys, orders, payments, provider>>
        BY <1>1 DEF Geocode, Claim, FindsFailed, Reclaim, SelectWarehouse, GoTo,
                    dbVars, worldVars
    <2> QED  BY <2>1, <2>2, AnswerMove
<1>2. CASE \/ GeocodingFails(r) \/ FindsOtherBody(r) \/ FindsInProgress(r)
           \/ LosesReclaim(r) \/ FindsUnknownProduct(r) \/ FindsNoWarehouse(r)
           \/ FindsTwoCurrencies(r) \/ FindsNoCustomer(r) \/ LosesStock(r)
           \/ FindsNothingToPay(r)
    <2>1. /\ \E kind \in Refusals \cup InternalErrors : Refuse(r, kind)
          /\ pc[r] \in {"geocode", "claim", "reclaim", "select", "reserve"}
        BY <1>2 DEF GeocodingFails, FindsOtherBody, FindsInProgress, LosesReclaim,
                    FindsUnknownProduct, FindsNoWarehouse, FindsTwoCurrencies,
                    FindsNoCustomer, LosesStock, FindsNothingToPay, Existing, Refusals,
                    InternalErrors
    <2> QED  BY <2>1, AnswerRefuse
<1>3. CASE FindsCompleted(r)
    BY <1>3, AnswerReplay
<1>4. CASE Reserve(r)
    BY <1>4, AnswerReserve
<1>5. CASE Charge(r)
    <2>1. /\ pc' = [pc EXCEPT ![r] = "settle"]
          /\ UNCHANGED <<answer, keys, orders, payments>>
        BY <1>5 DEF Charge, GoTo, dbVars
    <2>2. \A q \in Requests : q # r => provider'[q] = provider[q]
        BY <1>5 DEF Charge, AnswerInv, RecordInv, StockInv, KeyInv, TypeOK
    <2> QED  BY <2>1, <2>2, AnswerMove
<1>6. CASE Complete(r)
    BY <1>6, AnswerComplete
<1>7. CASE Compensate(r)
    BY <1>7, AnswerCompensate
<1>8. CASE LeaveUnresolved(r)
    BY <1>8, AnswerUnresolved
<1> QED
    BY <1>1, <1>2, <1>3, <1>4, <1>5, <1>6, <1>7, <1>8 DEF Step, ClaimKey, CreateOrder

LEMMA AnswerNext == AnswerInv /\ [Next]_vars => AnswerInv'
<1> SUFFICES ASSUME AnswerInv, [Next]_vars PROVE AnswerParts'
    BY RecordNext DEF AnswerInv
<1>0. [DecidedStays]_vars
    BY FinalNext DEF AnswerInv, RecordInv
<1>1. ASSUME UNCHANGED vars PROVE AnswerParts'
    <2>1. UNCHANGED <<pc, answer, keys, orders, payments, provider>>
        BY <1>1 DEF vars, requestVars, dbVars, worldVars
    <2> QED  BY <2>1, AnswerUntouched
<1>2. ASSUME NEW r \in Requests, Step(r), DecidedStays PROVE AnswerParts'
    BY <1>2, AnswerStep
<1>3. ASSUME NEW r \in Requests, Crash(r), DecidedStays PROVE AnswerParts'
    BY <1>3, AnswerMove DEF Crash, GoTo, dbVars, worldVars
<1>4. ASSUME NEW r \in Requests, ProviderSettles(r), DecidedStays PROVE AnswerParts'
    <2>1. /\ provider[r] = "unknown" /\ UNCHANGED <<pc, answer, keys, orders, payments>>
          /\ \E outcome : provider' = [provider EXCEPT ![r] = outcome]
        BY <1>4 DEF ProviderSettles, requestVars, dbVars
    <2>2. \A q \in Requests : q # r => provider'[q] = provider[q]
        BY <2>1 DEF AnswerInv, RecordInv, StockInv, KeyInv, TypeOK
    <2>3. pc'[r] = "answered" => AnswerIsTrue(r)' /\ AnswerIsStored(r)'
        BY <2>1 DEF AnswerInv, AnswerParts, AnswerIsTrue, AnswerIsStored
    <2>4. KeyStoresResponse'
        BY <2>1 DEF AnswerInv, AnswerParts, KeyStoresResponse
    <2> QED  BY <1>4, <2>1, <2>2, <2>3, <2>4, AnswerFrame
<1>5. ASSUME NEW r \in Requests, HoldLapses(r) \/ Reconcile(r) PROVE AnswerParts'
    <2>1. UNCHANGED <<pc, answer, keys, orders, payments, provider>>
        BY <1>5 DEF HoldLapses, Reconcile, requestVars, dbVars
    <2> QED  BY <2>1, AnswerUntouched
<1>6. ASSUME Sweep PROVE AnswerParts'
    BY <1>6, AnswerUntouched DEF Sweep, requestVars, worldVars
<1>7. ASSUME NEW r \in Requests, Raises(r), DecidedStays PROVE AnswerParts'
    BY <1>7, AnswerRefuse DEF Raises, InternalErrors
<1> QED  BY <1>0, <1>1, <1>2, <1>3, <1>4, <1>5, <1>6, <1>7 DEF Next, Idle

LEMMA AnswerAlways == Spec => []AnswerInv
<1> QED  BY AnswerInit, AnswerNext, PTL DEF Spec

-----------------------------------------------------------------------------
(* What the clients were told stays *)

\* What a client was told stays true, whatever anyone does afterwards.
THEOREM AnswersStayTrue == Spec => []AnswerStaysTrue
<1>1. AnswerInv => AnswerStaysTrue
    BY DEF AnswerInv, AnswerParts, AnswerStaysTrue
<1> QED  BY <1>1, AnswerAlways, PTL

\* A replay is the response of the key's one confirmed order, and every 201
\* under the key is that response.
THEOREM ReplaysAreOriginal == Spec => []ReplayIsOriginal
<1>1. ASSUME AnswerInv, NEW r \in Requests, pc[r] = "answered",
             answer[r].kind = "replayed"
      PROVE  /\ answer[r].body # None
             /\ orders[answer[r].body.order].status = answer[r].body.status
             /\ KeyOf[answer[r].body.order] = KeyOf[r]
             /\ BodyOf[answer[r].body.order] = BodyOf[r]
             /\ \A q \in Requests :
                    /\ KeyOf[q] = KeyOf[r] /\ pc[q] = "answered"
                    /\ answer[q].kind \in {"created", "replayed"}
                    => answer[q].body = answer[r].body
    <2> DEFINE k == KeyOf[r]
    <2>1. /\ k \in Keys /\ keys[k].status = "completed"
          /\ answer[r].body = [order |-> keys[k].order, status |-> "confirmed"]
        BY <1>1, CheckoutAssumption
           DEF AnswerInv, AnswerParts, AnswerIsStored, KeyStoresResponse
    <2>2. /\ keys[k].order \in OrdersUnder(k) /\ keys[k].hash = BodyOf[r]
          /\ orders[keys[k].order].status = "confirmed"
          /\ \A o \in OrdersUnder(k) : keys[k].hash = BodyOf[o]
        BY <1>1, <2>1
           DEF AnswerInv, AnswerParts, AnswerIsStored, RecordInv, StockInv, KeyInv,
               KeyParts, KeyTellsItsOrders
    <2>3. keys[k].order \in Requests /\ KeyOf[keys[k].order] = k
        BY <2>2 DEF OrdersUnder
    <2>4. answer[r].body \in Response
        BY <2>1, <2>3 DEF Response, OrderStatus
    <2>5. answer[r].body # None
        BY <2>4, CheckoutAssumption
    <2>6. ASSUME NEW q \in Requests, KeyOf[q] = k, pc[q] = "answered",
                 answer[q].kind \in {"created", "replayed"}
          PROVE  answer[q].body = answer[r].body
        BY <1>1, <2>6 DEF AnswerInv, AnswerParts, AnswerIsStored
    <2> QED  BY <2>1, <2>2, <2>3, <2>5, <2>6
<1>2. AnswerInv => ReplayIsOriginal
    BY <1>1 DEF ReplayIsOriginal
<1> QED  BY <1>2, AnswerAlways, PTL

\* Reconciliation and the operators have no key to free but those of requests
\* that crashed, were answered 500 or said that the payment is unresolved.
THEOREM KeysAreLeftInDoubt == Spec => []KeyLeftOnlyInDoubt
<1>1. ASSUME AnswerInv PROVE KeyLeftOnlyInDoubt
    <2> SUFFICES ASSUME NEW k \in Keys, keys[k].status = "in_progress"
                 PROVE  \E r \in OrdersUnder(k) :
                            /\ orders[r].status = "reserved"
                            /\ payments[r].status = "pending"
                            /\ pc[r] \in {"charge", "settle"} \/ InDoubt(r)
        BY DEF KeyLeftOnlyInDoubt
    <2> USE <1>1 DEF AnswerInv, RecordInv, StockInv, KeyInv, KeyParts
    <2>1. PICK r \in OrdersUnder(k) : orders[r].status = "reserved"
        BY DEF KeyTellsItsOrders, OneLive
    <2>2. r \in Requests /\ pc[r] \in PC
        BY <2>1 DEF OrdersUnder, TypeOK
    <2>3. payments[r].status = "pending"
        BY <2>1, <2>2 DEF StateAgreesWithMoney
    <2>4. pc[r] \in {"charge", "settle", "answered", "crashed"}
        BY <2>1, <2>2 DEF OrderFollowsRequest, PC
    <2>5. ASSUME pc[r] = "answered" PROVE InDoubt(r)
        <3>1. AnswerIsTrue(r) /\ answer[r].kind \in AnswerKind
            BY <2>2, <2>5 DEF AnswerParts, AnswerIsStored
        <3>2. answer[r].kind # "IntegrityError"
            BY <2>1, <2>2, <2>5 DEF AnswerParts, AnswerIsStored
        <3> QED  BY <2>1, <2>5, <3>1, <3>2 DEF AnswerIsTrue, AnswerKind, InternalErrors, InDoubt
    <2> QED  BY <2>1, <2>3, <2>4, <2>5 DEF InDoubt
<1> QED  BY <1>1, AnswerAlways, PTL
=============================================================================
