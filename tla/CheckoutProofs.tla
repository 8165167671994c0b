--------------------------- MODULE CheckoutProofs ---------------------------
(***************************************************************************)
(* Proofs about Checkout, for any number of requests, keys, warehouses and *)
(* products: its state keeps its type, and the idempotency key does what   *)
(* it is for.                                                              *)
(***************************************************************************)
EXTENDS Checkout, FiniteSetTheorems, TLAPS

-----------------------------------------------------------------------------
(* A set of reservation rows stands for a natural number of units. *)

LEMMA UnitsFinite ==
    ASSUME NEW S, NEW w, NEW p
    PROVE  IsFiniteSet(Units(S, w, p))
<1>1. IsFiniteSet(1..MaxQuantity)
    BY FS_Interval, CheckoutAssumption
<1>2. IsFiniteSet(Requests \X (1..MaxQuantity))
    BY <1>1, FS_Product, CheckoutAssumption
<1>3. Units(S, w, p) \in SUBSET (Requests \X (1..MaxQuantity))
    BY DEF Units
<1> QED  BY <1>2, <1>3, FS_Subset

LEMMA QuantityType ==
    ASSUME NEW S, NEW w, NEW p
    PROVE  Quantity(S, w, p) \in Nat
BY UnitsFinite, FS_CardinalityType DEF Quantity

LEMMA QtyType ==
    ASSUME NEW r \in Requests, NEW p \in Products
    PROVE  Qty(r, p) \in Nat /\ Qty(r, p) <= MaxQuantity
BY CheckoutAssumption DEF Qty

-----------------------------------------------------------------------------
(* Type correctness *)

LEMMA TypeInit == Init => TypeOK
BY CheckoutAssumption
   DEF Init, TypeOK, PC, NoKey, KeyRow, KeyStatus, NoOrder, OrderRow, NoPayment,
       PaymentRow, HoldStatus, HistoryRow


LEMMA RowTypes ==
    ASSUME NEW r \in Requests, NEW row \in KeyRow
    PROVE  /\ ClaimedKey(row, r) \in KeyRow
           /\ FailedKey(row, r) \in KeyRow
           /\ \A body \in Response : CompletedKey(row, r, body) \in KeyRow
BY CheckoutAssumption DEF KeyRow, KeyStatus, ClaimedKey, FailedKey, CompletedKey

LEMMA RowFields ==
    ASSUME NEW r \in Requests, NEW row \in KeyRow, NEW body
    PROVE  /\ FailedKey(row, r).status = "failed"
           /\ FailedKey(row, r).order = r
           /\ FailedKey(row, r).hash = row.hash
           /\ CompletedKey(row, r, body).status = "completed"
           /\ CompletedKey(row, r, body).order = r
           /\ CompletedKey(row, r, body).hash = row.hash
BY DEF KeyRow, FailedKey, CompletedKey

LEMMA MovedType ==
    ASSUME NEW order \in OrderRow, NEW from \in OrderStatus, NEW to \in OrderStatus
    PROVE  Moved(order, from, to) \in OrderRow /\ Moved(order, from, to).status = to
<1>1. <<from, to>> \in HistoryRow
    BY DEF HistoryRow
<1>2. Append(order.history, <<from, to>>) \in Seq(HistoryRow)
    BY <1>1 DEF OrderRow
<1> QED  BY <1>2 DEF Moved, OrderRow

LEMMA NewOrderType ==
    ASSUME NEW w \in Warehouses \cup {None}
    PROVE  NewOrder(w) \in OrderRow
<1>1. <<None, "pending">> \in HistoryRow
    BY DEF HistoryRow, OrderStatus
<1> QED  BY <1>1 DEF NewOrder, OrderRow, OrderStatus

LEMMA MarkedType ==
    ASSUME TypeOK, NEW S, NEW status \in HoldStatus
    PROVE  Marked(S, status) \in [Requests -> [Products -> HoldStatus]]
BY DEF Marked, TypeOK

LEMMA GivenBackType ==
    ASSUME TypeOK, NEW S, CanGiveBack(S)
    PROVE  GivenBack(S) \in [Warehouses -> [Products -> Nat]]
<1>1. ASSUME NEW w \in Warehouses, NEW p \in Products
      PROVE  reserved[w][p] - Quantity(S, w, p) \in Nat
    <2>1. reserved[w][p] \in Nat
        BY DEF TypeOK
    <2>2. Quantity(S, w, p) \in Nat
        BY QuantityType
    <2>3. Quantity(S, w, p) <= reserved[w][p]
        BY DEF CanGiveBack
    <2> QED  BY <2>1, <2>2, <2>3
<1> QED  BY <1>1 DEF GivenBack

\* What every refusal does to the state, whatever its reason.
LEMMA TypeRefuse ==
    ASSUME TypeOK, NEW r \in Requests, NEW kind \in AnswerKind, Refuse(r, kind)
    PROVE  TypeOK'
BY DEF TypeOK, Refuse, Reply, Released, PC, Answer, dbVars, worldVars

LEMMA TypeReply ==
    ASSUME TypeOK, NEW r \in Requests, NEW kind \in AnswerKind,
           NEW body \in Response \cup {None}, Reply(r, kind, body)
    PROVE  /\ pc' \in [Requests -> PC]
           /\ answer' \in [Requests -> Answer \cup {None}]
BY DEF TypeOK, Reply, PC, Answer

\* What the end of tx2 does to the answer, acknowledged or not.
LEMMA TypeEnds ==
    ASSUME TypeOK, NEW r \in Requests, NEW kind \in AnswerKind,
           NEW body \in Response \cup {None}, Ends(r, kind, body)
    PROVE  /\ pc' \in [Requests -> PC]
           /\ answer' \in [Requests -> Answer \cup {None}]
BY TypeReply DEF Ends, AnswerKind, InternalErrors

LEMMA TypeStep ==
    ASSUME TypeOK, NEW r \in Requests, Step(r)
    PROVE  TypeOK'
<1> DEFINE k == KeyOf[r]
<1>0. k \in Keys /\ BodyOf[r] \in Bodies
    BY CheckoutAssumption
<1>1. CASE Geocode(r)
    BY <1>1 DEF Geocode, GoTo, TypeOK, PC, dbVars, worldVars
<1>2. CASE GeocodingFails(r)
    BY <1>2, TypeRefuse DEF GeocodingFails, AnswerKind, Refusals
<1>3. CASE Claim(r)
    BY <1>0, <1>3 DEF Claim, GoTo, TypeOK, PC, dbVars, worldVars
<1>4. CASE FindsOtherBody(r)
    BY <1>4, TypeRefuse DEF FindsOtherBody, AnswerKind, Refusals
<1>5. CASE FindsCompleted(r)
    <2>1. keys[k].body \in Response \cup {None}
        BY <1>0 DEF TypeOK, KeyRow
    <2>2. pc' \in [Requests -> PC] /\ answer' \in [Requests -> Answer \cup {None}]
        BY <1>5, <2>1, TypeReply DEF FindsCompleted, AnswerKind
    <2> QED  BY <1>5, <2>2 DEF FindsCompleted, TypeOK, dbVars, worldVars
<1>6. CASE FindsInProgress(r)
    BY <1>6, TypeRefuse DEF FindsInProgress, AnswerKind, Refusals
<1>7. CASE FindsFailed(r)
    BY <1>7 DEF FindsFailed, GoTo, TypeOK, PC, dbVars, worldVars
<1>8. CASE Reclaim(r)
    BY <1>0, <1>8 DEF Reclaim, GoTo, TypeOK, PC, dbVars, worldVars
<1>9. CASE LosesReclaim(r)
    BY <1>9, TypeRefuse DEF LosesReclaim, AnswerKind, Refusals
<1>10. CASE SelectWarehouse(r)
    BY <1>10 DEF SelectWarehouse, Eligible, GoTo, TypeOK, PC, dbVars, worldVars
<1>11. CASE FindsUnknownProduct(r)
    BY <1>11, TypeRefuse DEF FindsUnknownProduct, AnswerKind, Refusals
<1>12. CASE FindsNoWarehouse(r)
    BY <1>12, TypeRefuse DEF FindsNoWarehouse, AnswerKind, Refusals
<1>13. CASE FindsTwoCurrencies(r)
    BY <1>13, TypeRefuse DEF FindsTwoCurrencies, AnswerKind, Refusals
<1>14. CASE FindsNoCustomer(r)
    BY <1>14, TypeRefuse DEF FindsNoCustomer, AnswerKind, InternalErrors
<1>15. CASE LosesStock(r)
    BY <1>15, TypeRefuse DEF LosesStock, AnswerKind, Refusals
<1>16. CASE FindsNothingToPay(r)
    BY <1>16, TypeRefuse DEF FindsNothingToPay, AnswerKind, InternalErrors
<1>17. CASE Reserve(r)
    <2>1. Moved(NewOrder(chosen[r]), "pending", "reserved") \in OrderRow
        BY NewOrderType, MovedType DEF TypeOK, OrderStatus
    <2>2. orders' \in [Requests -> OrderRow]
        BY <1>17, <2>1 DEF Reserve, TypeOK
    <2>3. holds' \in [Requests -> [Products -> HoldStatus]]
        BY <1>17 DEF Reserve, TypeOK, HoldStatus
    <2>4. \A w \in Warehouses, p \in Products : reserved[w][p] + Qty(r, p) \in Nat
        BY QtyType DEF TypeOK
    <2>5. reserved' \in [Warehouses -> [Products -> Nat]]
        BY <1>17, <2>4 DEF Reserve, TypeOK
    <2>6. payments' \in [Requests -> PaymentRow]
        BY <1>17 DEF Reserve, TypeOK, PaymentRow
    <2>7. keys' \in [Keys -> KeyRow]
        BY <1>0, <1>17, RowTypes DEF Reserve, TypeOK
    <2> QED
        BY <1>17, <2>2, <2>3, <2>5, <2>6, <2>7
           DEF Reserve, GoTo, Released, TypeOK, PC, worldVars
<1>18. CASE Charge(r)
    BY <1>18 DEF Charge, GoTo, TypeOK, PC, dbVars
<1>19. CASE Complete(r)
    <2> DEFINE confirmed ==
            Moved(Moved(orders[r], "reserved", "paid"), "paid", "confirmed")
    <2>1. confirmed \in OrderRow /\ confirmed.status = "confirmed"
        BY MovedType DEF TypeOK, OrderStatus
    <2>2. Rendered(r, confirmed) \in Response
        BY <2>1 DEF Rendered, Response, OrderStatus
    <2> HIDE DEF confirmed
    <2>3. keys' \in [Keys -> KeyRow]
        BY <1>0, <1>19, <2>2, RowTypes DEF Complete, TypeOK, confirmed
    <2>4. orders' \in [Requests -> OrderRow]
        BY <1>19, <2>1 DEF Complete, TypeOK, confirmed
    <2>5. holds' \in [Requests -> [Products -> HoldStatus]]
        BY <1>19, MarkedType DEF Complete, HoldStatus
    <2>6. pc' \in [Requests -> PC] /\ answer' \in [Requests -> Answer \cup {None}]
        BY <1>19, <2>2, TypeEnds DEF Complete, AnswerKind, confirmed
    <2>7. payments' \in [Requests -> PaymentRow]
        <3>1. payments' = [payments EXCEPT ![r].status = "succeeded"]
            BY <1>19 DEF Complete
        <3> QED  BY <3>1 DEF TypeOK, PaymentRow
    <2>8. outbox' \in [Requests -> Nat]
        BY <1>19 DEF Complete, TypeOK
    <2> QED
        BY <1>19, <2>3, <2>4, <2>5, <2>6, <2>7, <2>8
           DEF Complete, TypeOK, worldVars
<1>20. CASE Compensate(r)
    <2>1. Moved(orders[r], "reserved", "payment_failed") \in OrderRow
        BY MovedType DEF TypeOK, OrderStatus
    <2>2. orders' \in [Requests -> OrderRow]
        BY <1>20, <2>1 DEF Compensate, TypeOK
    <2>3. holds' \in [Requests -> [Products -> HoldStatus]]
        BY <1>20, MarkedType DEF Compensate, HoldStatus
    <2>4. reserved' \in [Warehouses -> [Products -> Nat]]
        BY <1>20, GivenBackType DEF Compensate
    <2>5. keys' \in [Keys -> KeyRow]
        BY <1>0, <1>20, RowTypes DEF Compensate, TypeOK
    <2>6. payments' \in [Requests -> PaymentRow]
        <3>1. payments' = [payments EXCEPT ![r].status = "failed"]
            BY <1>20 DEF Compensate
        <3> QED  BY <3>1 DEF TypeOK, PaymentRow
    <2>7. pc' \in [Requests -> PC] /\ answer' \in [Requests -> Answer \cup {None}]
        BY <1>20, TypeEnds DEF Compensate, AnswerKind
    <2> QED
        BY <1>20, <2>2, <2>3, <2>4, <2>5, <2>6, <2>7
           DEF Compensate, TypeOK, worldVars
<1>21. CASE LeaveUnresolved(r)
    <2>1. pc' \in [Requests -> PC] /\ answer' \in [Requests -> Answer \cup {None}]
        BY <1>21, TypeEnds DEF LeaveUnresolved, AnswerKind
    <2>2. payments' \in [Requests -> PaymentRow]
        BY <1>21 DEF LeaveUnresolved, TypeOK, PaymentRow
    <2> QED  BY <1>21, <2>1, <2>2 DEF LeaveUnresolved, TypeOK, worldVars
<1> QED
    BY <1>1, <1>2, <1>3, <1>4, <1>5, <1>6, <1>7, <1>8, <1>9, <1>10, <1>11,
       <1>12, <1>13, <1>14, <1>15, <1>16, <1>17, <1>18, <1>19, <1>20, <1>21
       DEF Step, ClaimKey, CreateOrder

LEMMA TypeNext == TypeOK /\ [Next]_vars => TypeOK'
<1> SUFFICES ASSUME TypeOK, [Next]_vars PROVE TypeOK'
    OBVIOUS
<1>1. ASSUME NEW r \in Requests, Step(r) PROVE TypeOK'
    BY <1>1, TypeStep
<1>2. ASSUME NEW r \in Requests, Crash(r) PROVE TypeOK'
    BY <1>2 DEF Crash, GoTo, Released, TypeOK, PC, dbVars, worldVars
<1>3. ASSUME NEW r \in Requests, HoldLapses(r) PROVE TypeOK'
    BY <1>3 DEF HoldLapses, TypeOK, requestVars, dbVars
<1>4. ASSUME NEW r \in Requests, ProviderSettles(r) PROVE TypeOK'
    BY <1>4 DEF ProviderSettles, Outcome, TypeOK, requestVars, dbVars
<1>5. ASSUME NEW r \in Requests, Reconcile(r) PROVE TypeOK'
    BY <1>5 DEF Reconcile, TypeOK, requestVars, dbVars
<1>6. CASE Sweep
    <2> PICK S \in (SUBSET Expired) \ {{}} :
            /\ CanGiveBack(S)
            /\ holds' = Marked(S, "expired")
            /\ reserved' = GivenBack(S)
            /\ UNCHANGED <<requestVars, keys, orders, payments, outbox, holder, worldVars>>
        BY <1>6 DEF Sweep
    <2>1. holds' \in [Requests -> [Products -> HoldStatus]]
        BY MarkedType DEF HoldStatus
    <2>2. reserved' \in [Warehouses -> [Products -> Nat]]
        BY GivenBackType
    <2> QED  BY <2>1, <2>2 DEF TypeOK, requestVars, worldVars
<1>7. CASE UNCHANGED vars
    BY <1>7 DEF TypeOK, vars, requestVars, dbVars, worldVars
<1>8. ASSUME NEW r \in Requests, Raises(r) PROVE TypeOK'
    BY <1>8, TypeRefuse DEF Raises, AnswerKind, InternalErrors
<1> QED
    BY <1>1, <1>2, <1>3, <1>4, <1>5, <1>6, <1>7, <1>8 DEF Next, Idle

\* Every variable keeps its type; in particular reserved never goes negative.
THEOREM TypeCorrect == Spec => []TypeOK
<1> QED  BY TypeInit, TypeNext, PTL DEF Spec

-----------------------------------------------------------------------------
(* The idempotency key.  The inductive invariant adds to KeyTellsItsOrders *)
(* what the control state of a request says about its order and its key.   *)

\* Where a request stands in the saga, and how its order stands.
OrderFollowsRequest ==
    \A r \in Requests :
        /\ pc[r] \in {"geocode", "claim", "reclaim", "select", "reserve"} =>
               orders[r].status = "none"
        /\ pc[r] \in {"charge", "settle"} => orders[r].status = "reserved"

\* A request inside create_in_transaction owns its key, one about to reclaim
\* has compared the body, and an owner found the key absent or failed.
RequestOwnsKey ==
    \A r \in Requests :
        /\ pc[r] \in {"select", "reserve"} => holder[KeyOf[r]] = r
        /\ pc[r] = "reclaim" =>
               keys[KeyOf[r]].status # "absent" /\ keys[KeyOf[r]].hash = BodyOf[r]
OwnerMayClaim ==
    \A k \in Keys : holder[k] # None =>
        /\ holder[k] \in Requests /\ KeyOf[holder[k]] = k
        /\ pc[holder[k]] \in {"select", "reserve"}
        /\ keys[k].status \in {"absent", "failed"}
        /\ keys[k].status = "failed" => keys[k].hash = BodyOf[holder[k]]

\* What the provider did, and what the request was told of it.
MoneyFollowsOrder ==
    \A r \in Requests :
        /\ provider[r] # None => orders[r].status # "none"
        /\ orders[r].status = "payment_failed" => provider[r] = "declined"
        /\ pc[r] = "settle" /\ heard[r] # "unknown" => provider[r] = heard[r]

KeyParts ==
    /\ OrderFollowsRequest
    /\ RequestOwnsKey
    /\ OwnerMayClaim
    /\ MoneyFollowsOrder
    /\ KeyTellsItsOrders
KeyInv == TypeOK /\ KeyParts

LEMMA KeyInit == Init => KeyInv
<1> SUFFICES ASSUME Init PROVE KeyInv
    OBVIOUS
<1>1. TypeOK
    BY TypeInit
<1>2. OrderFollowsRequest /\ RequestOwnsKey /\ OwnerMayClaim /\ MoneyFollowsOrder
    BY CheckoutAssumption
       DEF Init, OrderFollowsRequest, RequestOwnsKey, OwnerMayClaim, MoneyFollowsOrder,
           NoOrder, NoKey
<1>3. KeyTellsItsOrders
    BY DEF Init, KeyTellsItsOrders, OrdersUnder, OneLive, NoOrder, NoKey
<1> QED  BY <1>1, <1>2, <1>3 DEF KeyInv, KeyParts

\* OneLive looks at the status of the orders under its key and nothing else.
LEMMA OneLiveFrame ==
    ASSUME NEW k \in Keys, NEW st, OneLive(k, st), OrdersUnder(k)' = OrdersUnder(k),
           \A q \in OrdersUnder(k) : orders'[q] = orders[q]
    PROVE  OneLive(k, st)'
<1> PICK r \in OrdersUnder(k) :
        /\ orders[r].status = st
        /\ \A q \in OrdersUnder(k) \ {r} : orders[q].status = "payment_failed"
    BY DEF OneLive
<1>1. r \in OrdersUnder(k)' /\ orders'[r].status = st
    OBVIOUS
<1>2. \A q \in OrdersUnder(k)' \ {r} : orders'[q].status = "payment_failed"
    OBVIOUS
<1> QED  BY <1>1, <1>2 DEF OneLive

LEMMA KeyTellsUnchanged ==
    ASSUME KeyTellsItsOrders, UNCHANGED <<keys, orders>>
    PROVE  KeyTellsItsOrders'
BY DEF KeyTellsItsOrders, OneLive, OrdersUnder

\* A request that leaves tx1 with an answer or a crash.
LEMMA KeyLeave ==
    ASSUME KeyInv, NEW r \in Requests,
           pc' = [pc EXCEPT ![r] = "answered"] \/ pc' = [pc EXCEPT ![r] = "crashed"],
           holder' = Released(r),
           UNCHANGED <<heard, keys, orders, provider>>
    PROVE  KeyParts'
<1> USE CheckoutAssumption DEF KeyInv, KeyParts
<1>1. OrderFollowsRequest'
    BY DEF OrderFollowsRequest, TypeOK
<1>2. RequestOwnsKey'
    BY DEF RequestOwnsKey, OwnerMayClaim, Released, TypeOK
<1>3. ASSUME NEW k \in Keys, holder'[k] # None
      PROVE  holder'[k] = holder[k] /\ holder[k] # r /\ holder[k] \in Requests
    BY <1>3 DEF OwnerMayClaim, Released, TypeOK
<1>4. OwnerMayClaim'
    BY <1>3 DEF OwnerMayClaim, TypeOK
<1>5. MoneyFollowsOrder'
    BY DEF MoneyFollowsOrder, TypeOK
<1>6. KeyTellsItsOrders'
    BY KeyTellsUnchanged
<1> QED  BY <1>1, <1>2, <1>4, <1>5, <1>6

\* A refusal rolls tx1 back.
LEMMA KeyRefuse ==
    ASSUME KeyInv, NEW r \in Requests, NEW kind, Refuse(r, kind)
    PROVE  KeyParts'
BY KeyLeave DEF Refuse, Reply, dbVars, worldVars

\* A request that moves on and writes no key, no order and no claim.
LEMMA KeyMove ==
    ASSUME KeyInv, NEW r \in Requests,
           \/ pc' = [pc EXCEPT ![r] = "answered"]
           \/ pc[r] = "geocode" /\ pc' = [pc EXCEPT ![r] = "claim"]
           \/ pc[r] = "select" /\ pc' = [pc EXCEPT ![r] = "reserve"],
           pc[r] \notin {"select", "reserve"} \/ pc'[r] = "reserve",
           UNCHANGED <<heard, keys, orders, holder, provider>>
    PROVE  KeyParts'
<1> USE CheckoutAssumption DEF KeyInv, KeyParts
<1>1. OrderFollowsRequest'
    BY DEF OrderFollowsRequest, TypeOK
<1>2. RequestOwnsKey'
    BY DEF RequestOwnsKey, TypeOK
<1>3. OwnerMayClaim'
    <2> SUFFICES ASSUME NEW k \in Keys, holder[k] # None
                 PROVE  pc'[holder[k]] \in {"select", "reserve"}
        BY DEF OwnerMayClaim
    <2>1. holder[k] \in Requests /\ pc[holder[k]] \in {"select", "reserve"}
        BY DEF OwnerMayClaim
    <2> QED  BY <2>1 DEF TypeOK
<1>4. MoneyFollowsOrder'
    BY DEF MoneyFollowsOrder, TypeOK
<1>5. KeyTellsItsOrders'
    BY KeyTellsUnchanged
<1> QED  BY <1>1, <1>2, <1>3, <1>4, <1>5

\* A request that becomes the owner of its key.
LEMMA KeyOwn ==
    ASSUME KeyInv, NEW r \in Requests,
           pc[r] \in {"claim", "reclaim"},
           holder[KeyOf[r]] = None,
           keys[KeyOf[r]].status \in {"absent", "failed"},
           keys[KeyOf[r]].status = "failed" => pc[r] = "reclaim",
           pc' = [pc EXCEPT ![r] = "select"],
           holder' = [holder EXCEPT ![KeyOf[r]] = r],
           UNCHANGED <<heard, keys, orders, provider>>
    PROVE  KeyParts'
<1> USE CheckoutAssumption DEF KeyInv, KeyParts
<1>1. OrderFollowsRequest'
    BY DEF OrderFollowsRequest, TypeOK
<1>2. RequestOwnsKey'
    <2> SUFFICES ASSUME NEW q \in Requests
                 PROVE  /\ pc'[q] \in {"select", "reserve"} => holder'[KeyOf[q]] = q
                        /\ pc'[q] = "reclaim" => pc[q] = "reclaim"
        BY DEF RequestOwnsKey
    <2>1. CASE q = r
        BY <2>1 DEF TypeOK
    <2>2. CASE q # r
        <3>1. pc'[q] = pc[q]
            BY <2>2 DEF TypeOK
        <3>2. pc[q] \in {"select", "reserve"} => KeyOf[q] # KeyOf[r]
            BY DEF RequestOwnsKey
        <3> QED  BY <3>1, <3>2 DEF RequestOwnsKey, TypeOK
    <2> QED  BY <2>1, <2>2
<1>3. OwnerMayClaim'
    <2> SUFFICES ASSUME NEW k \in Keys, holder'[k] # None
                 PROVE  /\ holder'[k] \in Requests /\ KeyOf[holder'[k]] = k
                        /\ pc'[holder'[k]] \in {"select", "reserve"}
                        /\ keys[k].status \in {"absent", "failed"}
                        /\ keys[k].status = "failed" => keys[k].hash = BodyOf[holder'[k]]
        BY DEF OwnerMayClaim
    <2>1. CASE k = KeyOf[r]
        BY <2>1 DEF RequestOwnsKey, TypeOK
    <2>2. CASE k # KeyOf[r]
        <3>1. holder'[k] = holder[k]
            BY <2>2 DEF TypeOK
        <3>2. holder[k] \in Requests /\ pc[holder[k]] \in {"select", "reserve"}
            BY <3>1 DEF OwnerMayClaim
        <3>3. pc'[holder[k]] \in {"select", "reserve"}
            BY <3>2 DEF TypeOK
        <3> QED  BY <3>1, <3>2, <3>3 DEF OwnerMayClaim
    <2> QED  BY <2>1, <2>2
<1>4. MoneyFollowsOrder'
    BY DEF MoneyFollowsOrder, TypeOK
<1>5. KeyTellsItsOrders'
    BY KeyTellsUnchanged
<1> QED  BY <1>1, <1>2, <1>3, <1>4, <1>5

\* tx1 commits: the orders under the key were all declined, and the new one
\* is the only one undecided.
LEMMA KeyReserve ==
    ASSUME KeyInv, NEW r \in Requests, Reserve(r)
    PROVE  KeyParts'
<1> USE CheckoutAssumption DEF KeyInv, KeyParts
<1> DEFINE k == KeyOf[r]
<1>1. /\ k \in Keys /\ holder[k] = r /\ orders[r].status = "none"
      /\ provider[r] = None
    BY DEF Reserve, RequestOwnsKey, OrderFollowsRequest, MoneyFollowsOrder
<1>2. /\ keys[k].status \in {"absent", "failed"}
      /\ keys[k].status = "failed" => keys[k].hash = BodyOf[r]
    BY <1>1 DEF OwnerMayClaim
<1>3. /\ keys' = [keys EXCEPT ![k] = ClaimedKey(keys[k], r)]
      /\ keys'[k].status = "in_progress" /\ keys'[k].hash = BodyOf[r]
    BY <1>1, <1>2 DEF Reserve, ClaimedKey, TypeOK, KeyRow
<1>4. /\ Moved(NewOrder(chosen[r]), "pending", "reserved").status = "reserved"
      /\ orders' = [orders EXCEPT ![r] = Moved(NewOrder(chosen[r]), "pending", "reserved")]
      /\ orders'[r].status = "reserved"
      /\ \A q \in Requests : q # r => orders'[q] = orders[q]
    BY NewOrderType, MovedType DEF Reserve, TypeOK, OrderStatus
<1>5. /\ pc' = [pc EXCEPT ![r] = "charge"] /\ holder' = Released(r)
      /\ UNCHANGED <<heard, provider>>
    BY DEF Reserve, GoTo, worldVars
<1>6. OrderFollowsRequest'
    BY <1>4, <1>5 DEF OrderFollowsRequest, TypeOK
<1>7. RequestOwnsKey'
    <2> SUFFICES ASSUME NEW q \in Requests
                 PROVE  /\ pc'[q] \in {"select", "reserve"} => holder'[KeyOf[q]] = q
                        /\ pc'[q] = "reclaim" => /\ keys'[KeyOf[q]].status # "absent"
                                                 /\ keys'[KeyOf[q]].hash = BodyOf[q]
        BY DEF RequestOwnsKey
    <2>1. pc'[q] \in {"select", "reserve"} => holder'[KeyOf[q]] = q
        BY <1>1, <1>5 DEF RequestOwnsKey, Released, TypeOK
    <2>2. CASE KeyOf[q] # k
        BY <1>3, <1>5, <2>1, <2>2 DEF RequestOwnsKey, TypeOK
    <2>3. CASE KeyOf[q] = k
        BY <1>1, <1>2, <1>3, <1>5, <2>1, <2>3 DEF RequestOwnsKey, TypeOK
    <2> QED  BY <2>2, <2>3
<1>8. OwnerMayClaim'
    <2>1. ASSUME NEW j \in Keys, holder'[j] # None
          PROVE  /\ j # k /\ holder'[j] = holder[j] /\ holder[j] # r
                 /\ holder[j] \in Requests
        BY <1>1, <1>5, <2>1 DEF OwnerMayClaim, Released, TypeOK
    <2> QED  BY <1>3, <1>5, <2>1 DEF OwnerMayClaim, TypeOK
<1>9. MoneyFollowsOrder'
    BY <1>1, <1>4, <1>5 DEF MoneyFollowsOrder, TypeOK
<1>10. KeyTellsItsOrders'
    <2>1. \A j \in Keys : OrdersUnder(j)' = IF j = k THEN OrdersUnder(j) \cup {r}
                                                    ELSE OrdersUnder(j)
        BY <1>1, <1>4 DEF OrdersUnder
    <2>2. /\ r \notin OrdersUnder(k)
          /\ \A q \in OrdersUnder(k) :
                 orders[q].status = "payment_failed" /\ keys[k].hash = BodyOf[q]
        BY <1>1, <1>2 DEF KeyTellsItsOrders, OrdersUnder
    <2>3. ASSUME NEW j \in Keys, j # k
          PROVE  /\ keys'[j] = keys[j] /\ r \notin OrdersUnder(j)
                 /\ \A q \in OrdersUnder(j) : orders'[q] = orders[q]
        BY <1>3, <1>4, <2>3 DEF OrdersUnder
    <2>4. OneLive(k, "reserved")'
        <3>1. r \in OrdersUnder(k)' /\ orders'[r].status = "reserved"
            BY <1>1, <1>4, <2>1
        <3>2. ASSUME NEW q \in OrdersUnder(k)' \ {r}
              PROVE  orders'[q].status = "payment_failed"
            <4>1. q \in OrdersUnder(k) /\ q # r
                BY <1>1, <2>1
            <4>2. q \in Requests
                BY <4>1 DEF OrdersUnder
            <4> QED  BY <1>4, <2>2, <4>1, <4>2
        <3> QED  BY <3>1, <3>2 DEF OneLive
    <2>5. \A q \in OrdersUnder(k)' : keys'[k].hash = BodyOf[q]
        <3>1. ASSUME NEW q \in OrdersUnder(k)
              PROVE  BodyOf[r] = BodyOf[q]
            <4>1. keys[k].status = "failed"
                BY <1>1, <1>2 DEF KeyTellsItsOrders
            <4> QED  BY <1>2, <2>2, <4>1
        <3> QED  BY <1>1, <1>3, <2>1, <3>1
    <2>6. ASSUME NEW j \in Keys, keys[j].status = "completed"
          PROVE  keys[j].order # r
        <3>1. orders[keys[j].order].status = "confirmed"
            BY <2>6 DEF KeyTellsItsOrders
        <3> QED  BY <1>1, <3>1
    <2>7. ASSUME NEW j \in Keys, j # k, NEW st,
                 OneLive(j, st)
          PROVE  OneLive(j, st)'
        BY <2>1, <2>3, <2>7, OneLiveFrame
    <2> QED
        BY <1>3, <1>4, <2>1, <2>3, <2>4, <2>5, <2>6, <2>7 DEF KeyTellsItsOrders
<1> QED  BY <1>6, <1>7, <1>8, <1>9, <1>10

\* The order of a request in flight is the one its key waits for.
LEMMA InFlight ==
    ASSUME KeyInv, NEW r \in Requests, pc[r] \in {"charge", "settle"}
    PROVE  /\ KeyOf[r] \in Keys
           /\ orders[r].status = "reserved" /\ r \in OrdersUnder(KeyOf[r])
           /\ keys[KeyOf[r]].status = "in_progress"
           /\ holder[KeyOf[r]] = None
           /\ \A q \in OrdersUnder(KeyOf[r]) \ {r} : orders[q].status = "payment_failed"
<1> USE CheckoutAssumption DEF KeyInv, KeyParts
<1> DEFINE k == KeyOf[r]
<1>1. k \in Keys
    OBVIOUS
<1>2. orders[r].status = "reserved" /\ r \in OrdersUnder(k)
    BY DEF OrderFollowsRequest, OrdersUnder
<1>3. keys[k].status \notin {"absent", "failed"}
    BY <1>1, <1>2 DEF KeyTellsItsOrders
<1>4. keys[k].status # "completed"
    <2> SUFFICES ASSUME keys[k].status = "completed" PROVE FALSE
        OBVIOUS
    <2> PICK q \in OrdersUnder(k) :
            /\ orders[q].status = "confirmed"
            /\ \A p \in OrdersUnder(k) \ {q} : orders[p].status = "payment_failed"
        BY <1>1 DEF KeyTellsItsOrders, OneLive
    <2> QED  BY <1>2
<1>5. keys[k].status = "in_progress"
    BY <1>1, <1>3, <1>4 DEF TypeOK, KeyRow, KeyStatus
<1>6. PICK q \in OrdersUnder(k) :
            /\ orders[q].status = "reserved"
            /\ \A p \in OrdersUnder(k) \ {q} : orders[p].status = "payment_failed"
    BY <1>1, <1>5 DEF KeyTellsItsOrders, OneLive
<1>7. holder[k] = None
    BY <1>1, <1>5 DEF OwnerMayClaim
<1> QED  BY <1>1, <1>2, <1>5, <1>6, <1>7

\* tx2 commits a decision: the order and its key change together.
LEMMA KeyDecide ==
    ASSUME KeyInv, NEW r \in Requests, pc[r] = "settle",
           NEW order \in OrderRow, NEW row \in KeyRow,
           order.status \in {"confirmed", "payment_failed"},
           order.status = "payment_failed" => heard[r] = "declined",
           row.status = IF order.status = "confirmed" THEN "completed" ELSE "failed",
           row.order = r, row.hash = keys[KeyOf[r]].hash,
           orders' = [orders EXCEPT ![r] = order],
           keys' = [keys EXCEPT ![KeyOf[r]] = row],
           pc' = [pc EXCEPT ![r] = "answered"],
           UNCHANGED <<heard, holder, provider>>
    PROVE  KeyParts'
<1> USE CheckoutAssumption DEF KeyInv, KeyParts
<1> DEFINE k == KeyOf[r]
<1>1. /\ k \in Keys /\ orders[r].status = "reserved" /\ r \in OrdersUnder(k)
      /\ keys[k].status = "in_progress" /\ holder[k] = None
      /\ \A q \in OrdersUnder(k) \ {r} : orders[q].status = "payment_failed"
    BY InFlight
<1>2. /\ orders'[r] = order /\ \A q \in Requests : q # r => orders'[q] = orders[q]
      /\ keys'[k] = row /\ \A j \in Keys : j # k => keys'[j] = keys[j]
    BY <1>1 DEF TypeOK
<1>3. OrderFollowsRequest'
    BY <1>2 DEF OrderFollowsRequest, TypeOK
<1>4. RequestOwnsKey'
    <2> SUFFICES ASSUME NEW q \in Requests
                 PROVE  /\ pc'[q] \in {"select", "reserve"} => holder'[KeyOf[q]] = q
                        /\ pc'[q] = "reclaim" => /\ keys'[KeyOf[q]].status # "absent"
                                                 /\ keys'[KeyOf[q]].hash = BodyOf[q]
        BY DEF RequestOwnsKey
    <2>1. pc'[q] \in {"select", "reserve", "reclaim"} => pc[q] = pc'[q]
        BY DEF TypeOK
    <2>2. CASE KeyOf[q] = k
        BY <1>2, <2>1, <2>2 DEF RequestOwnsKey
    <2>3. CASE KeyOf[q] # k
        BY <1>2, <2>1, <2>3 DEF RequestOwnsKey
    <2> QED  BY <2>2, <2>3
<1>5. OwnerMayClaim'
    <2> SUFFICES ASSUME NEW j \in Keys, holder[j] # None
                 PROVE  /\ pc'[holder[j]] \in {"select", "reserve"}
                        /\ keys'[j] = keys[j]
        BY DEF OwnerMayClaim
    <2>1. j # k /\ holder[j] \in Requests /\ pc[holder[j]] \in {"select", "reserve"}
        BY <1>1 DEF OwnerMayClaim
    <2> QED  BY <1>2, <2>1 DEF TypeOK
<1>6. MoneyFollowsOrder'
    BY <1>1, <1>2 DEF MoneyFollowsOrder, TypeOK
<1>7. KeyTellsItsOrders'
    <2>1. \A j \in Keys : OrdersUnder(j)' = OrdersUnder(j)
        BY <1>1, <1>2 DEF OrdersUnder
    <2>2. ASSUME NEW q \in OrdersUnder(k) \ {r}
          PROVE  orders'[q].status = "payment_failed"
        BY <1>1, <1>2, <2>2 DEF OrdersUnder
    <2>3. order.status = "confirmed" => OneLive(k, "confirmed")'
        BY <1>1, <1>2, <2>1, <2>2 DEF OneLive
    <2>4. \A q \in OrdersUnder(k) : keys'[k].hash = BodyOf[q]
        BY <1>1, <1>2 DEF KeyTellsItsOrders
    <2>5. ASSUME NEW j \in Keys, j # k
          PROVE  \A q \in OrdersUnder(j) : orders'[q] = orders[q]
        BY <1>2, <2>5 DEF OrdersUnder
    <2>6. ASSUME NEW j \in Keys, j # k, NEW st, OneLive(j, st)
          PROVE  OneLive(j, st)'
        BY <2>1, <2>5, <2>6, OneLiveFrame
    <2> SUFFICES ASSUME NEW j \in Keys
                 PROVE  /\ keys'[j].status = "absent" => OrdersUnder(j)' = {}
                        /\ keys'[j].status = "in_progress" => OneLive(j, "reserved")'
                        /\ keys'[j].status = "completed" =>
                               /\ OneLive(j, "confirmed")'
                               /\ keys'[j].order \in OrdersUnder(j)'
                               /\ orders'[keys'[j].order].status = "confirmed"
                        /\ keys'[j].status = "failed" =>
                               /\ OrdersUnder(j)' # {}
                               /\ \A q \in OrdersUnder(j)' :
                                      orders'[q].status = "payment_failed"
                        /\ \A q \in OrdersUnder(j)' : keys'[j].hash = BodyOf[q]
        BY DEF KeyTellsItsOrders
    <2>7. CASE j = k
        BY <1>1, <1>2, <2>1, <2>2, <2>3, <2>4, <2>7
    <2>8. CASE j # k
        <3>1. keys'[j] = keys[j] /\ OrdersUnder(j)' = OrdersUnder(j)
            BY <1>2, <2>1, <2>8
        <3>2. keys[j].status = "completed" =>
                  /\ keys[j].order \in OrdersUnder(j)
                  /\ orders'[keys[j].order].status = "confirmed"
            BY <2>5, <2>8 DEF KeyTellsItsOrders
        <3> QED  BY <2>5, <2>6, <2>8, <3>1, <3>2 DEF KeyTellsItsOrders
    <2> QED  BY <2>7, <2>8
<1> QED  BY <1>3, <1>4, <1>5, <1>6, <1>7

LEMMA KeyStep ==
    ASSUME KeyInv, NEW r \in Requests, Step(r)
    PROVE  KeyParts'
<1>0. TypeOK /\ KeyOf[r] \in Keys
    BY CheckoutAssumption DEF KeyInv
<1>1. CASE Geocode(r)
    BY <1>1, <1>0, KeyMove DEF Geocode, GoTo, dbVars, worldVars, TypeOK
<1>2. CASE GeocodingFails(r)
    BY <1>2, KeyRefuse DEF GeocodingFails
<1>3. CASE Claim(r)
    BY <1>3, KeyOwn DEF Claim, GoTo, dbVars, worldVars
<1>4. CASE FindsOtherBody(r)
    BY <1>4, KeyRefuse DEF FindsOtherBody
<1>5. CASE FindsCompleted(r)
    BY <1>5, KeyMove DEF FindsCompleted, Existing, Reply, dbVars, worldVars
<1>6. CASE FindsInProgress(r)
    BY <1>6, KeyRefuse DEF FindsInProgress
<1>7. CASE FindsFailed(r)
    <2>1. /\ pc[r] = "claim" /\ pc' = [pc EXCEPT ![r] = "reclaim"]
          /\ keys[KeyOf[r]].status = "failed" /\ keys[KeyOf[r]].hash = BodyOf[r]
          /\ UNCHANGED <<heard, keys, orders, holder, provider>>
        BY <1>7 DEF FindsFailed, Existing, SameBody, GoTo, dbVars, worldVars
    <2>2. OrderFollowsRequest'
        BY <1>0, <2>1 DEF KeyInv, KeyParts, OrderFollowsRequest, TypeOK
    <2>3. RequestOwnsKey'
        BY <1>0, <2>1 DEF KeyInv, KeyParts, RequestOwnsKey, TypeOK
    <2>4. OwnerMayClaim'
        <3> SUFFICES ASSUME NEW k \in Keys, holder[k] # None
                     PROVE  pc'[holder[k]] \in {"select", "reserve"}
            BY <2>1 DEF KeyInv, KeyParts, OwnerMayClaim
        <3>1. holder[k] \in Requests /\ pc[holder[k]] \in {"select", "reserve"}
            BY DEF KeyInv, KeyParts, OwnerMayClaim
        <3> QED  BY <1>0, <2>1, <3>1 DEF TypeOK
    <2>5. MoneyFollowsOrder'
        BY <1>0, <2>1 DEF KeyInv, KeyParts, MoneyFollowsOrder, TypeOK
    <2>6. KeyTellsItsOrders'
        BY <2>1, KeyTellsUnchanged DEF KeyInv, KeyParts
    <2> QED  BY <2>2, <2>3, <2>4, <2>5, <2>6 DEF KeyParts
<1>8. CASE Reclaim(r)
    BY <1>8, KeyOwn DEF Reclaim, CanReclaim, GoTo, dbVars, worldVars
<1>9. CASE LosesReclaim(r)
    BY <1>9, KeyRefuse DEF LosesReclaim
<1>10. CASE SelectWarehouse(r)
    BY <1>10, <1>0, KeyMove DEF SelectWarehouse, GoTo, dbVars, worldVars, TypeOK
<1>11. CASE FindsUnknownProduct(r)
    BY <1>11, KeyRefuse DEF FindsUnknownProduct
<1>12. CASE FindsNoWarehouse(r)
    BY <1>12, KeyRefuse DEF FindsNoWarehouse
<1>13. CASE FindsTwoCurrencies(r)
    BY <1>13, KeyRefuse DEF FindsTwoCurrencies
<1>14. CASE FindsNoCustomer(r)
    BY <1>14, KeyRefuse DEF FindsNoCustomer
<1>15. CASE LosesStock(r)
    BY <1>15, KeyRefuse DEF LosesStock
<1>16. CASE FindsNothingToPay(r)
    BY <1>16, KeyRefuse DEF FindsNothingToPay
<1>17. CASE Reserve(r)
    BY <1>17, KeyReserve
<1>18. CASE Charge(r)
    <2>1. /\ pc[r] = "charge" /\ pc' = [pc EXCEPT ![r] = "settle"]
          /\ UNCHANGED <<keys, orders, holder>>
        BY <1>18 DEF Charge, GoTo, dbVars
    <2> PICK outcome \in Outcome : /\ provider[r] \in {None, outcome}
                                   /\ provider' = [provider EXCEPT ![r] = outcome]
                                   /\ heard' = [heard EXCEPT ![r] = outcome]
        BY <1>18 DEF Charge
    <2>2. orders[r].status = "reserved"
        BY <2>1, InFlight
    <2>3. OrderFollowsRequest'
        BY <1>0, <2>1, <2>2 DEF KeyInv, KeyParts, OrderFollowsRequest, TypeOK
    <2>4. RequestOwnsKey'
        BY <1>0, <2>1 DEF KeyInv, KeyParts, RequestOwnsKey, TypeOK
    <2>5. OwnerMayClaim'
        <3> SUFFICES ASSUME NEW k \in Keys, holder[k] # None
                     PROVE  pc'[holder[k]] \in {"select", "reserve"}
            BY <2>1 DEF KeyInv, KeyParts, OwnerMayClaim
        <3>1. holder[k] \in Requests /\ pc[holder[k]] \in {"select", "reserve"}
            BY DEF KeyInv, KeyParts, OwnerMayClaim
        <3> QED  BY <1>0, <2>1, <3>1 DEF TypeOK
    <2>6. MoneyFollowsOrder'
        BY <1>0, <2>1, <2>2 DEF KeyInv, KeyParts, MoneyFollowsOrder, TypeOK
    <2>7. KeyTellsItsOrders'
        BY <2>1, KeyTellsUnchanged DEF KeyInv, KeyParts
    <2> QED  BY <2>3, <2>4, <2>5, <2>6, <2>7 DEF KeyParts
<1>19. CASE Complete(r)
    <2> DEFINE order == Moved(Moved(orders[r], "reserved", "paid"), "paid", "confirmed")
               row == CompletedKey(keys[KeyOf[r]], r, Rendered(r, order))
    <2>1. /\ pc[r] = "settle" /\ pc' = [pc EXCEPT ![r] = "answered"]
          /\ orders' = [orders EXCEPT ![r] = order]
          /\ keys' = [keys EXCEPT ![KeyOf[r]] = row]
          /\ UNCHANGED <<heard, holder, provider>>
        BY <1>19 DEF Complete, Settling, Ends, Reply, worldVars
    <2>2. order \in OrderRow /\ order.status = "confirmed"
        BY <1>0, MovedType DEF TypeOK, OrderStatus
    <2>3. keys[KeyOf[r]] \in KeyRow
        BY <1>0 DEF TypeOK
    <2>4. Rendered(r, order) \in Response
        BY <2>2 DEF Rendered, Response, OrderStatus
    <2>5. /\ row \in KeyRow
          /\ row.status = "completed" /\ row.order = r /\ row.hash = keys[KeyOf[r]].hash
        BY <2>3, <2>4, RowTypes, RowFields
    <2> HIDE DEF order, row
    <2>6. /\ order.status \in {"confirmed", "payment_failed"}
          /\ order.status = "payment_failed" => heard[r] = "declined"
          /\ row.status = IF order.status = "confirmed" THEN "completed" ELSE "failed"
        BY <2>2, <2>5
    <2> QED  BY <2>1, <2>2, <2>5, <2>6, KeyDecide
<1>20. CASE Compensate(r)
    <2> DEFINE order == Moved(orders[r], "reserved", "payment_failed")
               row == FailedKey(keys[KeyOf[r]], r)
    <2>1. /\ pc[r] = "settle" /\ heard[r] = "declined"
          /\ pc' = [pc EXCEPT ![r] = "answered"]
          /\ orders' = [orders EXCEPT ![r] = order]
          /\ keys' = [keys EXCEPT ![KeyOf[r]] = row]
          /\ UNCHANGED <<heard, holder, provider>>
        BY <1>20 DEF Compensate, Settling, Ends, Reply, worldVars
    <2>2. order \in OrderRow /\ order.status = "payment_failed"
        BY <1>0, MovedType DEF TypeOK, OrderStatus
    <2>3. keys[KeyOf[r]] \in KeyRow
        BY <1>0 DEF TypeOK
    <2>4. /\ row \in KeyRow
          /\ row.status = "failed" /\ row.order = r /\ row.hash = keys[KeyOf[r]].hash
        BY <2>3, RowTypes, RowFields
    <2> HIDE DEF order, row
    <2>5. /\ order.status \in {"confirmed", "payment_failed"}
          /\ order.status = "payment_failed" => heard[r] = "declined"
          /\ row.status = IF order.status = "confirmed" THEN "completed" ELSE "failed"
        BY <2>1, <2>2, <2>4
    <2> QED  BY <2>1, <2>2, <2>4, <2>5, KeyDecide
<1>21. CASE LeaveUnresolved(r)
    BY <1>21, KeyMove DEF LeaveUnresolved, Settling, Ends, Reply, worldVars
<1> QED
    BY <1>1, <1>2, <1>3, <1>4, <1>5, <1>6, <1>7, <1>8, <1>9, <1>10, <1>11,
       <1>12, <1>13, <1>14, <1>15, <1>16, <1>17, <1>18, <1>19, <1>20, <1>21
       DEF Step, ClaimKey, CreateOrder

\* The jobs and the clock touch neither keys nor orders nor requests.
LEMMA KeyUntouched ==
    ASSUME KeyInv, UNCHANGED <<pc, heard, keys, orders, holder, provider>>
    PROVE  KeyParts'
BY DEF KeyInv, KeyParts, OrderFollowsRequest, RequestOwnsKey, OwnerMayClaim,
       MoneyFollowsOrder, KeyTellsItsOrders, OneLive, OrdersUnder

LEMMA KeyNext == KeyInv /\ [Next]_vars => KeyInv'
<1> SUFFICES ASSUME KeyInv, [Next]_vars PROVE KeyInv'
    OBVIOUS
<1>0. TypeOK'
    BY TypeNext DEF KeyInv
<1>1. ASSUME NEW r \in Requests, Step(r) PROVE KeyParts'
    BY <1>1, KeyStep
<1>2. ASSUME NEW r \in Requests, Crash(r) PROVE KeyParts'
    BY <1>2, KeyLeave DEF Crash, GoTo, dbVars, worldVars
<1>3. ASSUME NEW r \in Requests, HoldLapses(r) PROVE KeyParts'
    BY <1>3, KeyUntouched DEF HoldLapses, requestVars, dbVars
<1>4. ASSUME NEW r \in Requests, ProviderSettles(r) PROVE KeyParts'
    <2>1. /\ provider[r] = "unknown"
          /\ UNCHANGED <<pc, heard, keys, orders, holder>>
        BY <1>4 DEF ProviderSettles, requestVars, dbVars
    <2>2. provider[r] # None
        BY <2>1, CheckoutAssumption DEF Outcome
    <2>3. MoneyFollowsOrder'
        BY <1>4, <2>1, <2>2 DEF ProviderSettles, KeyInv, KeyParts, MoneyFollowsOrder, TypeOK
    <2> QED
        BY <2>1, <2>3, KeyTellsUnchanged
           DEF KeyInv, KeyParts, OrderFollowsRequest, RequestOwnsKey, OwnerMayClaim
<1>5. ASSUME NEW r \in Requests, Reconcile(r) PROVE KeyParts'
    BY <1>5, KeyUntouched DEF Reconcile, requestVars, dbVars
<1>6. CASE Sweep
    <2>1. UNCHANGED <<pc, heard, keys, orders, holder, provider>>
        BY <1>6 DEF Sweep, requestVars, worldVars
    <2> QED  BY <1>0, <2>1, KeyUntouched DEF KeyInv
<1>7. CASE UNCHANGED vars
    <2>1. UNCHANGED <<pc, heard, keys, orders, holder, provider>>
        BY <1>7 DEF vars, requestVars, dbVars, worldVars
    <2> QED  BY <1>0, <2>1, KeyUntouched DEF KeyInv
<1>8. ASSUME NEW r \in Requests, Raises(r) PROVE KeyParts'
    BY <1>8, KeyRefuse DEF Raises
<1> QED
    BY <1>0, <1>1, <1>2, <1>3, <1>4, <1>5, <1>6, <1>7, <1>8 DEF Next, Idle, KeyInv

LEMMA KeyAlways == Spec => []KeyInv
<1> QED  BY KeyInit, KeyNext, PTL DEF Spec

-----------------------------------------------------------------------------
(* What it gives *)

\* An order that may have cost money was not declined, and a key has one such
\* order at most.
LEMMA ChargeInv == KeyInv => OneChargePerKey
<1> SUFFICES ASSUME KeyInv, NEW r \in Requests, NEW q \in Requests,
                    KeyOf[r] = KeyOf[q], MayHavePaid(r), MayHavePaid(q)
             PROVE  r = q
    BY DEF OneChargePerKey
<1> DEFINE k == KeyOf[r]
<1>1. k \in Keys
    BY CheckoutAssumption
<1>2. ASSUME NEW o \in {r, q}
      PROVE  o \in OrdersUnder(k) /\ orders[o].status # "payment_failed"
    <2>1. provider[o] \in {"succeeded", "unknown"}
        BY DEF MayHavePaid
    <2>2. provider[o] # None
        BY <2>1, CheckoutAssumption DEF Outcome
    <2> QED
        BY <2>1, <2>2 DEF KeyInv, KeyParts, MoneyFollowsOrder, OrdersUnder
<1>3. keys[k].status \in {"in_progress", "completed"}
    BY <1>1, <1>2 DEF KeyInv, KeyParts, KeyTellsItsOrders, TypeOK, KeyRow, KeyStatus
<1>4. \E st : OneLive(k, st)
    BY <1>1, <1>3 DEF KeyInv, KeyParts, KeyTellsItsOrders
<1>5. PICK o \in OrdersUnder(k) :
          \A p \in OrdersUnder(k) \ {o} : orders[p].status = "payment_failed"
    BY <1>4 DEF OneLive
<1> QED  BY <1>2, <1>5

\* A key row says how its orders stand, in every state of every run: the key
\* and the order are one transaction, over races, retries and crashes.
THEOREM KeysTellTheirOrders == Spec => []KeyTellsItsOrders
<1>1. KeyInv => KeyTellsItsOrders
    BY DEF KeyInv, KeyParts
<1> QED  BY <1>1, KeyAlways, PTL

\* However many requests carry a key, one charge at most takes the money.
THEOREM KeyChargesOnce == Spec => []OneChargePerKey
<1> QED  BY ChargeInv, KeyAlways, PTL

\* tx2 finds its key unclaimed, so the two transactions of the saga cannot
\* wait for each other across the key and the stock.
THEOREM SettlingIsFree == Spec => []SettlingNeverWaitsForKey
<1>1. KeyInv => SettlingNeverWaitsForKey
    BY InFlight DEF SettlingNeverWaitsForKey
<1> QED  BY <1>1, KeyAlways, PTL
=============================================================================
