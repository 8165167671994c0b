------------------------------ MODULE Checkout ------------------------------
(***************************************************************************)
(* The checkout saga of app/services/order_checkout.py, run by any number  *)
(* of concurrent requests against one PostgreSQL database and one payment  *)
(* provider, next to the reservation sweeper and the reconciliation job.   *)
(*                                                                         *)
(* A request is one POST /orders.  Its control state pc[r] names what it   *)
(* does next:                                                              *)
(*   "geocode"   resolve the address, before any transaction               *)
(*   "claim"     tx1 has begun: claim the idempotency key                  *)
(*   "reclaim"   tx1: the key was read as failed, compare-and-swap it      *)
(*   "select"    tx1: choose a warehouse (a plain read)                    *)
(*   "reserve"   tx1: insert the order, reserve, insert the payment, commit*)
(*   "charge"    no transaction: call the provider                         *)
(*   "settle"    tx2: record what the provider answered, commit            *)
(*   "answered", "crashed"   the client has its answer, or never will      *)
(*                                                                         *)
(* What a transaction wrote becomes visible at its commit and disappears   *)
(* if it rolls back; the one uncommitted write that others wait for before *)
(* the commit is the claim of the key row, recorded in holder.  The writes *)
(* of the last statements of a transaction are one step: the row locks     *)
(* they take are held to the commit, so no other writer comes in between.  *)
(*                                                                         *)
(* A request creates at most one order, so an order is named by the        *)
(* request that created it; a client's retry is another request with the   *)
(* same key.                                                               *)
(*                                                                         *)
(* A definition whose name starts with Bug is a slip the code could have   *)
(* made in the definition that follows it.  No action uses it; it shows    *)
(* that a property below would notice.                                     *)
(***************************************************************************)
EXTENDS OrderState, Integers, FiniteSets, Sequences

CONSTANTS
    Requests,       \* POST /orders calls, retries included
    Keys,           \* values of the Idempotency-Key header
    Bodies,         \* request bodies as request_hash tells them apart
    Warehouses,     \* the active warehouses
    Products,       \* product ids a client may name
    None,           \* NULL
    MaxQuantity,    \* bound on the quantity of an order line
    KeyOf,          \* the key and the body a request carries
    BodyOf,
    Basket,         \* what a body orders: quantity of each product
    Nearness,       \* warehouses by (distance to the body's address, code)
    UnknownBuyer,   \* bodies whose customer_id is no row of customers
    Catalog,        \* the rows of products, with their price and currency
    PriceOf,
    CurrencyOf,
    OnHand,         \* inventory.on_hand, written by the seed only
    SeedReserved,   \* inventory.reserved as the seed leaves it
    SweepBatch,     \* batch_size of sweep_expired
    LongPending     \* bound: whose payments may get older than GRACE_SECONDS

Outcome == {"succeeded", "declined", "unknown"}

\* The response body: the order it renders, and the status it renders for it.
Response == [order : Requests, status : OrderStatus]

\* The schema's CHECKs and keys: quantities and prices are not negative,
\* reserved never starts above on_hand, and a warehouse's code is unique.
ASSUME CheckoutAssumption ==
    /\ IsFiniteSet(Requests) /\ None \notin Requests \cup Outcome \cup Response
    /\ MaxQuantity \in Nat
    /\ KeyOf \in [Requests -> Keys]
    /\ BodyOf \in [Requests -> Bodies]
    /\ Basket \in [Bodies -> [Products -> 0..MaxQuantity]]
    /\ Nearness \in [Bodies -> [Warehouses -> Nat]]
    /\ \A b \in Bodies : \A v, w \in Warehouses :
           Nearness[b][v] = Nearness[b][w] => v = w
    /\ UnknownBuyer \subseteq Bodies
    /\ Catalog \subseteq Products
    /\ PriceOf \in [Catalog -> Nat]
    /\ OnHand \in [Warehouses -> [Products -> Nat]]
    /\ SeedReserved \in [Warehouses -> [Products -> Nat]]
    /\ \A w \in Warehouses, p \in Products : SeedReserved[w][p] <= OnHand[w][p]
    /\ SweepBatch \in Nat \ {0}

VARIABLES
    \* requests
    pc,         \* control state
    answer,     \* what the client was answered
    chosen,     \* the warehouse selection returned
    heard,      \* the outcome charge() returned
    \* the database, as committed
    keys,       \* idempotency_keys
    orders,     \* orders, each with its order_status_history
    payments,   \* payments
    holds,      \* stock_reservations, one row per order line
    reserved,   \* inventory.reserved
    outbox,     \* number of OrderConfirmed rows of an order
    \* uncommitted
    holder,     \* the request whose tx1 wrote the key row and still runs
    \* the world
    provider,   \* what the provider did with the charge of an order
    lapsed,     \* orders whose expires_at has passed, oldest first
    reported    \* orders reconciliation counted as resolved

requestVars == <<pc, answer, chosen, heard>>
dbVars == <<keys, orders, payments, holds, reserved, outbox>>
worldVars == <<provider, lapsed, reported>>
vars == <<requestVars, dbVars, holder, worldVars>>

-----------------------------------------------------------------------------
(* What the variables hold *)

PC == {"geocode", "claim", "reclaim", "select", "reserve", "charge", "settle",
       "answered", "crashed"}

\* The errors that api/errors.py maps to refusals, and the two kinds of
\* exception it does not map, which the client hears of as the same 500: a
\* constraint that refuses an INSERT of tx1, and whatever else may be raised.
Refusals == {"GeocodingFailed", "IdempotencyKeyReuse", "IdempotencyInProgress",
             "UnknownProduct", "NoEligibleWarehouse", "MixedCurrencyBasket",
             "InsufficientStock"}
InternalErrors == {"IntegrityError", "ServerError"}
AnswerKind == Refusals \cup InternalErrors
              \cup {"created", "replayed", "PaymentDeclined", "PaymentUnresolved"}

Answer == [kind : AnswerKind, body : Response \cup {None}]

KeyStatus == {"absent", "in_progress", "completed", "failed"}
KeyRow == [status : KeyStatus, hash : Bodies \cup {None},
           order : Requests \cup {None}, body : Response \cup {None}]
NoKey == [status |-> "absent", hash |-> None, order |-> None, body |-> None]

HistoryRow == (OrderStatus \cup {None}) \X OrderStatus
OrderRow == [status : OrderStatus \cup {"none"}, warehouse : Warehouses \cup {None},
             history : Seq(HistoryRow)]
NoOrder == [status |-> "none", warehouse |-> None, history |-> <<>>]

\* noted: mark_unknown has written its failure_reason.
PaymentRow == [status : {"none", "pending", "succeeded", "failed"}, noted : BOOLEAN]
NoPayment == [status |-> "none", noted |-> FALSE]

HoldStatus == {"none", "active", "committed", "released", "expired"}

-----------------------------------------------------------------------------
(* Stock *)

Qty(r, p) == Basket[BodyOf[r]][p]
Lines(r) == {p \in Products : Qty(r, p) > 0}
Rows == Requests \X Products

\* The units of (w, p) that the reservation rows in S stand for, one element
\* for each unit: a row of quantity q contributes q of them.
Units(S, w, p) ==
    {unit \in Requests \X (1..MaxQuantity) :
        LET r == unit[1]
        IN  <<r, p>> \in S /\ orders[r].warehouse = w /\ unit[2] <= Qty(r, p)}
Quantity(S, w, p) == Cardinality(Units(S, w, p))

Available(w, p) == OnHand[w][p] - reserved[w][p]

\* select_best: every line in stock at the same warehouse, nearest first.
Eligible(r) ==
    {w \in Warehouses : \A p \in Lines(r) : Available(w, p) >= Qty(r, p)}
IsNearest(r, w) ==
    \A v \in Eligible(r) : Nearness[BodyOf[r]][w] <= Nearness[BodyOf[r]][v]

BugExpiredTwice ==
    {row \in Rows : /\ holds[row[1]][row[2]] \in {"active", "expired"}
                    /\ \E i \in DOMAIN lapsed : lapsed[i] = row[1]}
BugExpiredUnlessOpen ==
    {row \in Rows : /\ holds[row[1]][row[2]] = "active"
                    /\ orders[row[1]].status # "reserved"
                    /\ \E i \in DOMAIN lapsed : lapsed[i] = row[1]}

\* The rows sweep_expired may claim, and a batch of them: the oldest first,
\* in any order among rows that expired together.
Expired == {row \in Rows : /\ holds[row[1]][row[2]] = "active"
                           /\ \E i \in DOMAIN lapsed : lapsed[i] = row[1]}
Age(r) == CHOOSE i \in DOMAIN lapsed : lapsed[i] = r
IsBatch(S) ==
    /\ S \subseteq Expired
    /\ Cardinality(S) <= SweepBatch
    /\ S = Expired \/ Cardinality(S) = SweepBatch
    /\ \A s \in S, t \in Expired \ S : Age(s[1]) <= Age(t[1])

\* _settle gives a batch of claimed rows back to inventory.  It raises
\* instead, and everything rolls back, if reserved would go below zero.
CanGiveBack(S) ==
    \A w \in Warehouses, p \in Products : Quantity(S, w, p) <= reserved[w][p]
BugGivenBackTwice(S) ==
    [w \in Warehouses |-> [p \in Products |-> reserved[w][p] - 2 * Quantity(S, w, p)]]
GivenBack(S) ==
    [w \in Warehouses |-> [p \in Products |-> reserved[w][p] - Quantity(S, w, p)]]

\* A status column rewritten on the rows of S.
Marked(S, status) ==
    [r \in Requests |-> [p \in Products |->
        IF <<r, p>> \in S THEN status ELSE holds[r][p]]]

BugRowsOfAnyone(r) == {row \in Rows : holds[row[1]][row[2]] = "active"}
BugAllRows(r) == {row \in Rows : row[1] = r /\ holds[r][row[2]] # "none"}
ActiveRows(r) == {row \in Rows : row[1] = r /\ holds[r][row[2]] = "active"}

-----------------------------------------------------------------------------
(* Orders and keys *)

\* OrderRepository.create, and one transition: the compare-and-swap on status
\* together with its history row.
NewOrder(w) ==
    [status |-> "pending", warehouse |-> w, history |-> <<<<None, "pending">>>>]
CanMove(order, from, to) == is_allowed(from, to) /\ order.status = from
BugMovedUnrecorded(order, from, to) == [order EXCEPT !.status = to]
Moved(order, from, to) ==
    [order EXCEPT !.status = to, !.history = Append(@, <<from, to>>)]

BugRenderedEarly(r, order) == [order |-> r, status |-> "paid"]

\* _render: OrderResponse of the order as tx2 sees it.
Rendered(r, order) == [order |-> r, status |-> order.status]

\* claim and reclaim_failed, mark_failed, settle_completed.  Reclaiming clears
\* the response and leaves order_id pointing at the declined order.
ClaimedKey(row, r) ==
    IF row.status = "absent"
    THEN [status |-> "in_progress", hash |-> BodyOf[r], order |-> None, body |-> None]
    ELSE [row EXCEPT !.status = "in_progress", !.body = None]
BugFailedStaysOpen(row, r) == [row EXCEPT !.order = r, !.body = None]
FailedKey(row, r) == [row EXCEPT !.status = "failed", !.order = r, !.body = None]
BugCompletedStale(row, r, body) ==
    [row EXCEPT !.status = "completed", !.body = body,
                !.order = IF @ = None THEN r ELSE @]
CompletedKey(row, r, body) ==
    [row EXCEPT !.status = "completed", !.order = r, !.body = body]

\* The compare-and-swap of reclaim_failed, evaluated on the row's committed
\* version once no uncommitted claim of it is left.
BugReclaimAny(r) == keys[KeyOf[r]].status # "completed"
CanReclaim(r) == keys[KeyOf[r]].status = "failed"

-----------------------------------------------------------------------------
Init ==
    /\ pc = [r \in Requests |-> "geocode"]
    /\ answer = [r \in Requests |-> None]
    /\ chosen = [r \in Requests |-> None]
    /\ heard = [r \in Requests |-> None]
    /\ keys = [k \in Keys |-> NoKey]
    /\ orders = [r \in Requests |-> NoOrder]
    /\ payments = [r \in Requests |-> NoPayment]
    /\ holds = [r \in Requests |-> [p \in Products |-> "none"]]
    /\ reserved = SeedReserved
    /\ outbox = [r \in Requests |-> 0]
    /\ holder = [k \in Keys |-> None]
    /\ provider = [r \in Requests |-> None]
    /\ lapsed = <<>>
    /\ reported = {}

GoTo(r, step) == pc' = [pc EXCEPT ![r] = step] /\ UNCHANGED answer

Reply(r, kind, body) ==
    /\ pc' = [pc EXCEPT ![r] = "answered"]
    /\ answer' = [answer EXCEPT ![r] = [kind |-> kind, body |-> body]]

\* An exception inside tx1: everything rolls back, the claim of the key too.
BugNeverReleased(r) == holder
Released(r) == [holder EXCEPT ![KeyOf[r]] = IF @ = r THEN None ELSE @]
BugRefuseKeepsKey(r, kind) ==
    /\ Reply(r, kind, None)
    /\ keys' = IF holder[KeyOf[r]] = r
               THEN [keys EXCEPT ![KeyOf[r]] = ClaimedKey(@, r)] ELSE keys
    /\ holder' = Released(r)
    /\ UNCHANGED <<chosen, heard, orders, payments, holds, reserved, outbox, worldVars>>
Refuse(r, kind) ==
    /\ Reply(r, kind, None)
    /\ holder' = Released(r)
    /\ UNCHANGED <<chosen, heard, dbVars, worldVars>>

-----------------------------------------------------------------------------
(* Before tx1 *)

Geocode(r) ==
    /\ pc[r] = "geocode"
    /\ GoTo(r, "claim")
    /\ UNCHANGED <<chosen, heard, dbVars, holder, worldVars>>

GeocodingFails(r) == pc[r] = "geocode" /\ Refuse(r, "GeocodingFailed")

-----------------------------------------------------------------------------
(* tx1: _claim_key *)

\* INSERT ... ON CONFLICT DO NOTHING waits for an uncommitted insert of the
\* same key, and inserts if that one rolls back.
Claim(r) ==
    /\ pc[r] = "claim"
    /\ keys[KeyOf[r]].status = "absent" /\ holder[KeyOf[r]] = None
    /\ holder' = [holder EXCEPT ![KeyOf[r]] = r]
    /\ GoTo(r, "select")
    /\ UNCHANGED <<chosen, heard, dbVars, worldVars>>

\* The key exists, so claim() returned None and get() read its row: the
\* latest committed version, without waiting for anyone.
Existing(r) == pc[r] = "claim" /\ keys[KeyOf[r]].status # "absent"
BugAnyBody(r) == TRUE
SameBody(r) == keys[KeyOf[r]].hash = BodyOf[r]

FindsOtherBody(r) ==
    /\ Existing(r) /\ ~SameBody(r)
    /\ Refuse(r, "IdempotencyKeyReuse")

FindsCompleted(r) ==
    /\ Existing(r) /\ SameBody(r) /\ keys[KeyOf[r]].status = "completed"
    /\ Reply(r, "replayed", keys[KeyOf[r]].body)
    /\ UNCHANGED <<chosen, heard, dbVars, holder, worldVars>>

FindsInProgress(r) ==
    /\ Existing(r) /\ SameBody(r) /\ keys[KeyOf[r]].status = "in_progress"
    /\ Refuse(r, "IdempotencyInProgress")

FindsFailed(r) ==
    /\ Existing(r) /\ SameBody(r) /\ keys[KeyOf[r]].status = "failed"
    /\ GoTo(r, "reclaim")
    /\ UNCHANGED <<chosen, heard, dbVars, holder, worldVars>>

\* reclaim_failed is a statement of its own: the row may have changed since
\* get() read it, and it waits for another request's uncommitted reclaim.
Reclaim(r) ==
    /\ pc[r] = "reclaim" /\ holder[KeyOf[r]] = None /\ CanReclaim(r)
    /\ holder' = [holder EXCEPT ![KeyOf[r]] = r]
    /\ GoTo(r, "select")
    /\ UNCHANGED <<chosen, heard, dbVars, worldVars>>

LosesReclaim(r) ==
    /\ pc[r] = "reclaim" /\ holder[KeyOf[r]] = None /\ ~CanReclaim(r)
    /\ Refuse(r, "IdempotencyInProgress")

-----------------------------------------------------------------------------
(* tx1: create_in_transaction *)

\* select(): a read without locks, so what it chose may be gone by the time
\* reserve_stock runs.
SelectWarehouse(r) ==
    /\ pc[r] = "select" /\ Lines(r) # {} /\ Lines(r) \subseteq Catalog
    /\ \E w \in Eligible(r) :
           IsNearest(r, w) /\ chosen' = [chosen EXCEPT ![r] = w]
    /\ GoTo(r, "reserve")
    /\ UNCHANGED <<heard, dbVars, holder, worldVars>>

FindsUnknownProduct(r) ==
    /\ pc[r] = "select" /\ ~(Lines(r) \subseteq Catalog)
    /\ Refuse(r, "UnknownProduct")

FindsNoWarehouse(r) ==
    /\ pc[r] = "select" /\ Lines(r) \subseteq Catalog
    /\ Lines(r) = {} \/ Eligible(r) = {}
    /\ Refuse(r, "NoEligibleWarehouse")

OneCurrency(r) == \A p, q \in Lines(r) : CurrencyOf[p] = CurrencyOf[q]
\* payments CHECK (amount_minor > 0).
TotalIsZero(r) == \A p \in Lines(r) : PriceOf[p] = 0
InStock(r) == \A p \in Lines(r) : Available(chosen[r], p) >= Qty(r, p)

\* The conditional UPDATEs of reserve_stock all match a row.
BugTrustSelection(r) == TRUE
CanReserve(r) == InStock(r)

FindsTwoCurrencies(r) ==
    /\ pc[r] = "reserve" /\ ~OneCurrency(r)
    /\ Refuse(r, "MixedCurrencyBasket")

\* The foreign key of orders.customer_id refuses the INSERT.
FindsNoCustomer(r) ==
    /\ pc[r] = "reserve" /\ OneCurrency(r) /\ BodyOf[r] \in UnknownBuyer
    /\ Refuse(r, "IntegrityError")

LosesStock(r) ==
    /\ pc[r] = "reserve" /\ OneCurrency(r) /\ BodyOf[r] \notin UnknownBuyer
    /\ ~CanReserve(r)
    /\ Refuse(r, "InsufficientStock")

FindsNothingToPay(r) ==
    /\ pc[r] = "reserve" /\ OneCurrency(r) /\ BodyOf[r] \notin UnknownBuyer
    /\ CanReserve(r) /\ TotalIsZero(r)
    /\ Refuse(r, "IntegrityError")

\* Insert the order, reserve every line, pending -> reserved, insert the
\* pending payment, commit: the claim of the key becomes visible with them.
Reserve(r) ==
    /\ pc[r] = "reserve" /\ OneCurrency(r) /\ BodyOf[r] \notin UnknownBuyer
    /\ CanReserve(r) /\ ~TotalIsZero(r)
    /\ LET k == KeyOf[r]
           w == chosen[r]
       IN  /\ orders' = [orders EXCEPT ![r] = Moved(NewOrder(w), "pending", "reserved")]
           /\ holds' = [holds EXCEPT ![r] =
                  [p \in Products |-> IF p \in Lines(r) THEN "active" ELSE "none"]]
           /\ reserved' = [reserved EXCEPT ![w] =
                  [p \in Products |-> reserved[w][p] + Qty(r, p)]]
           /\ payments' = [payments EXCEPT ![r] = [status |-> "pending", noted |-> FALSE]]
           /\ keys' = [keys EXCEPT ![k] = ClaimedKey(keys[k], r)]
           /\ holder' = Released(r)
    /\ GoTo(r, "charge")
    /\ UNCHANGED <<chosen, heard, outbox, worldVars>>

-----------------------------------------------------------------------------
(* The charge, between the transactions *)

\* The provider's own idempotency key is the order id: asked again about an
\* order it answers what it answered before.
Charge(r) ==
    /\ pc[r] = "charge"
    /\ \E outcome \in Outcome :
           /\ provider[r] \in {None, outcome}
           /\ provider' = [provider EXCEPT ![r] = outcome]
           /\ heard' = [heard EXCEPT ![r] = outcome]
    /\ GoTo(r, "settle")
    /\ UNCHANGED <<chosen, dbVars, holder, lapsed, reported>>

-----------------------------------------------------------------------------
(* tx2: its UPDATE of the key row waits for an uncommitted claim of it *)

\* tx2 has committed.  The client has its answer, or a 500 if the connection
\* broke before COMMIT was acknowledged.
Ends(r, kind, body) == Reply(r, kind, body) \/ Reply(r, "ServerError", None)

BugUnknownIsDeclined(r, outcome) ==
    /\ pc[r] = "settle"
    /\ heard[r] = outcome \/ (outcome = "declined" /\ heard[r] = "unknown")
Settling(r, outcome) ==
    pc[r] = "settle" /\ heard[r] = outcome

\* settle_for_order touches the rows still active, however few they are.
Complete(r) ==
    /\ Settling(r, "succeeded") /\ holder[KeyOf[r]] = None
    /\ CanMove(orders[r], "reserved", "paid")
    /\ LET paid == Moved(orders[r], "reserved", "paid")
           confirmed == Moved(paid, "paid", "confirmed")
           body == Rendered(r, confirmed)
       IN  /\ payments' = [payments EXCEPT ![r].status = "succeeded"]
           /\ orders' = [orders EXCEPT ![r] = confirmed]
           /\ holds' = Marked(ActiveRows(r), "committed")
           /\ outbox' = [outbox EXCEPT ![r] = @ + 1]
           /\ keys' = [keys EXCEPT ![KeyOf[r]] = CompletedKey(@, r, body)]
           /\ Ends(r, "created", body)
    /\ UNCHANGED <<chosen, heard, reserved, holder, worldVars>>

Compensate(r) ==
    /\ Settling(r, "declined") /\ holder[KeyOf[r]] = None
    /\ CanMove(orders[r], "reserved", "payment_failed")
    /\ CanGiveBack(ActiveRows(r))
    /\ payments' = [payments EXCEPT ![r].status = "failed"]
    /\ holds' = Marked(ActiveRows(r), "released")
    /\ reserved' = GivenBack(ActiveRows(r))
    /\ orders' = [orders EXCEPT ![r] = Moved(@, "reserved", "payment_failed")]
    /\ keys' = [keys EXCEPT ![KeyOf[r]] = FailedKey(@, r)]
    /\ Ends(r, "PaymentDeclined", None)
    /\ UNCHANGED <<chosen, heard, outbox, holder, worldVars>>

LeaveUnresolved(r) ==
    /\ Settling(r, "unknown")
    /\ payments' = [payments EXCEPT ![r].noted = TRUE]
    /\ Ends(r, "PaymentUnresolved", None)
    /\ UNCHANGED <<chosen, heard, keys, orders, holds, reserved, outbox, holder, worldVars>>

-----------------------------------------------------------------------------
(* What may end a request anywhere: the open transaction rolls back, and    *)
(* what earlier transactions committed stays.                               *)

\* A worker dies, a client disconnects: there is no answer.
Crash(r) ==
    /\ pc[r] \notin {"answered", "crashed"}
    /\ GoTo(r, "crashed")
    /\ holder' = Released(r)
    /\ UNCHANGED <<chosen, heard, dbVars, worldVars>>

\* An exception that nothing maps: a statement is broken off (a deadlock, a
\* lost connection), the pool has no connection, charge() raises.  Before
\* "settle" nothing was charged; at "settle" it is also a charge() that raised
\* after the provider had decided.
Raises(r) ==
    /\ pc[r] \notin {"answered", "crashed"}
    /\ Refuse(r, "ServerError")

-----------------------------------------------------------------------------
(* The jobs, the clock and the provider *)

\* expires_at passes; every row of an order has the same one.
HoldLapses(r) ==
    /\ \E p \in Products : holds[r][p] = "active"
    /\ \A i \in DOMAIN lapsed : lapsed[i] # r
    /\ lapsed' = Append(lapsed, r)
    /\ UNCHANGED <<requestVars, dbVars, holder, provider, reported>>

\* sweep_once: one batch, one transaction; orders.status is left alone.
Sweep ==
    \E S \in (SUBSET Expired) \ {{}} :
        /\ IsBatch(S) /\ CanGiveBack(S)
        /\ holds' = Marked(S, "expired")
        /\ reserved' = GivenBack(S)
        /\ UNCHANGED <<requestVars, keys, orders, payments, outbox, holder, worldVars>>

\* "A timeout means the provider may still settle it."
ProviderSettles(r) ==
    /\ provider[r] = "unknown"
    /\ \E outcome \in {"succeeded", "declined"} :
           provider' = [provider EXCEPT ![r] = outcome]
    /\ UNCHANGED <<requestVars, dbVars, holder, lapsed, reported>>

\* reconcile_once: asks about the payments that have been pending for longer
\* than GRACE_SECONDS and counts the answers.  It writes nothing; reported only
\* lets each order be counted once.
Reconcile(r) ==
    /\ r \in LongPending /\ payments[r].status = "pending" /\ r \notin reported
    /\ provider[r] \in {"succeeded", "declined"}
    /\ reported' = reported \cup {r}
    /\ UNCHANGED <<requestVars, dbVars, holder, provider, lapsed>>

-----------------------------------------------------------------------------
ClaimKey(r) ==
    \/ Claim(r) \/ FindsOtherBody(r) \/ FindsCompleted(r) \/ FindsInProgress(r)
    \/ FindsFailed(r) \/ Reclaim(r) \/ LosesReclaim(r)

CreateOrder(r) ==
    \/ SelectWarehouse(r) \/ FindsUnknownProduct(r) \/ FindsNoWarehouse(r)
    \/ FindsTwoCurrencies(r) \/ FindsNoCustomer(r) \/ LosesStock(r)
    \/ FindsNothingToPay(r) \/ Reserve(r)

Step(r) ==
    \/ Geocode(r) \/ GeocodingFails(r)
    \/ ClaimKey(r) \/ CreateOrder(r) \/ Charge(r)
    \/ Complete(r) \/ Compensate(r) \/ LeaveUnresolved(r)

\* Every request has its answer: the service may stay idle.
Idle == (\A r \in Requests : pc[r] \in {"answered", "crashed"}) /\ UNCHANGED vars

Next ==
    \/ \E r \in Requests :
           Step(r) \/ Crash(r) \/ Raises(r) \/ HoldLapses(r) \/ ProviderSettles(r) \/ Reconcile(r)
    \/ Sweep
    \/ Idle

Spec == Init /\ [][Next]_vars

\* The event loop keeps running a request until it answers; the sweeper is
\* scheduled again and again, as the README asks of whoever deploys it.
FairSpec ==
    /\ Spec
    /\ \A r \in Requests : WF_vars(Step(r))
    /\ WF_vars(Sweep)

-----------------------------------------------------------------------------
(* Properties *)

TypeOK ==
    /\ pc \in [Requests -> PC]
    /\ answer \in [Requests -> Answer \cup {None}]
    /\ chosen \in [Requests -> Warehouses \cup {None}]
    /\ heard \in [Requests -> Outcome \cup {None}]
    /\ keys \in [Keys -> KeyRow]
    /\ orders \in [Requests -> OrderRow]
    /\ payments \in [Requests -> PaymentRow]
    /\ holds \in [Requests -> [Products -> HoldStatus]]
    /\ reserved \in [Warehouses -> [Products -> Nat]]
    /\ outbox \in [Requests -> Nat]
    /\ holder \in [Keys -> Requests \cup {None}]
    /\ provider \in [Requests -> Outcome \cup {None}]
    /\ lapsed \in Seq(Requests)
    /\ reported \in SUBSET Requests

OrdersUnder(k) == {r \in Requests : KeyOf[r] = k /\ orders[r].status # "none"}

\* At most one order under k is still reserved or was paid, and it has the
\* given status; every other one was declined.
OneLive(k, status) ==
    \E r \in OrdersUnder(k) :
        /\ orders[r].status = status
        /\ \A q \in OrdersUnder(k) \ {r} : orders[q].status = "payment_failed"

\* A key row says exactly how its orders stand: no row, no order; in_progress,
\* one undecided order and the rest declined; completed, one confirmed order
\* and the rest declined; failed, all declined.  A key never exists for an
\* order that was rolled back and an order never exists without its key
\* (repositories/idempotency.py), over claims that wait, retries that race for
\* a failed key, and crashes between the transactions.
KeyTellsItsOrders ==
    \A k \in Keys :
        /\ keys[k].status = "absent" => OrdersUnder(k) = {}
        /\ keys[k].status = "in_progress" => OneLive(k, "reserved")
        /\ keys[k].status = "completed" =>
               /\ OneLive(k, "confirmed")
               /\ keys[k].order \in OrdersUnder(k)
               /\ orders[keys[k].order].status = "confirmed"
        /\ keys[k].status = "failed" =>
               /\ OrdersUnder(k) # {}
               /\ \A r \in OrdersUnder(k) : orders[r].status = "payment_failed"
        /\ \A r \in OrdersUnder(k) : keys[k].hash = BodyOf[r]

\* The point of the key: of all the requests that carry it, retries with
\* another card included, one at most has a charge that took the money or may
\* yet take it.
MayHavePaid(r) == provider[r] \in {"succeeded", "unknown"}
OneChargePerKey ==
    \A r, q \in Requests :
        KeyOf[r] = KeyOf[q] /\ MayHavePaid(r) /\ MayHavePaid(q) => r = q

\* "The state can never contradict the money" (domain/order_state.py): an
\* order, its payment row, its event and the provider agree on whether it was
\* paid, and only the orders nobody has decided yet are open on both sides.
StateAgreesWithMoney ==
    \A r \in Requests :
        /\ orders[r].status = "confirmed" <=> payments[r].status = "succeeded"
        /\ orders[r].status = "confirmed" => provider[r] = "succeeded"
        /\ orders[r].status = "payment_failed" <=> payments[r].status = "failed"
        /\ orders[r].status = "payment_failed" => provider[r] = "declined"
        /\ orders[r].status = "reserved" <=> payments[r].status = "pending"
        /\ outbox[r] = IF orders[r].status = "confirmed" THEN 1 ELSE 0
        /\ provider[r] # None => orders[r].status # "none"

\* inventory.reserved and stock_reservations never diverge: what is reserved
\* beyond the seed is what the rows still holding stock or sold add up to.
Holding == {row \in Rows : holds[row[1]][row[2]] \in {"active", "committed"}}
StockLedger ==
    \A w \in Warehouses, p \in Products :
        reserved[w][p] = SeedReserved[w][p] + Quantity(Holding, w, p)

\* No warehouse promises more than it has, although selection reads without
\* locks and two requests may be shown the same last unit.
NoOversell ==
    \A w \in Warehouses, p \in Products : reserved[w][p] <= OnHand[w][p]

\* Stock leaves an order for a reason: released only when the provider
\* declined for certain, expired only after the hold lapsed, committed only by
\* a sale.  A crash or an unknown outcome gives nothing back by itself.
HoldsEndForAReason ==
    \A r \in Requests, p \in Products :
        /\ holds[r][p] = "none" <=> orders[r].status = "none" \/ p \notin Lines(r)
        /\ holds[r][p] = "released" =>
               orders[r].status = "payment_failed" /\ provider[r] = "declined"
        /\ holds[r][p] = "expired" => \E i \in DOMAIN lapsed : lapsed[i] = r
        /\ holds[r][p] = "committed" => orders[r].status = "confirmed"
        /\ holds[r][p] = "active" => orders[r].status = "reserved"

\* Until its hold lapses an order has all of its stock or none: every line
\* active while it is reserved, sold when it is confirmed, released when its
\* payment failed.  So it is only an order that was too slow which the sweeper
\* can leave with a part of its hold, or paid without one.
WholeUntilLapsed ==
    \A r \in Requests : (\A i \in DOMAIN lapsed : lapsed[i] # r) =>
        \A p \in Lines(r) :
            holds[r][p] = CASE orders[r].status = "none" -> "none"
                            [] orders[r].status = "confirmed" -> "committed"
                            [] orders[r].status = "payment_failed" -> "released"
                            [] OTHER -> "active"

\* The sweeper always gets on: while a lapsed row is active there is a batch
\* for it, and no batch it can pick makes _settle raise and roll back, which
\* it would do again with the same rows on every later run.
SweepAlwaysWorks ==
    /\ \A S \in SUBSET Expired : CanGiveBack(S)
    /\ Expired # {} => \E S \in (SUBSET Expired) \ {{}} : IsBatch(S)

\* order_status_history tells the whole story of an order and never disagrees
\* with orders.status: it starts at creation, each row starts where the last
\* one ended, along edges of ALLOWED, and the last row is the status.
HistoryTells(order) ==
    LET h == order.history
    IN  IF order.status = "none" THEN h = <<>>
        ELSE /\ h # <<>> /\ h[1] = <<None, "pending">>
             /\ \A i \in 1..(Len(h) - 1) :
                    h[i][2] = h[i + 1][1] /\ h[i + 1] \in ALLOWED
             /\ h[Len(h)][2] = order.status
HistoryAgrees == \A r \in Requests : HistoryTells(orders[r])

\* What a client was told stays true however the other requests, the sweeper
\* and the provider go on: 201 names its confirmed order, 402 means no money
\* will move, 502 leaves the payment open, and a refusal created no order.  A
\* 500 promises nothing of the order, which may not exist, be open or decided.
AnswerIsTrue(r) ==
    LET kind == answer[r].kind
    IN  /\ kind = "created" =>
               /\ answer[r].body = [order |-> r, status |-> "confirmed"]
               /\ orders[r].status = "confirmed"
        /\ kind = "PaymentDeclined" =>
               orders[r].status = "payment_failed" /\ provider[r] = "declined"
        /\ kind = "PaymentUnresolved" =>
               orders[r].status = "reserved" /\ payments[r].noted
        /\ kind \in Refusals \cup {"replayed"} => orders[r].status = "none"
AnswerStaysTrue == \A r \in Requests : pc[r] = "answered" => AnswerIsTrue(r)

\* A replay cannot differ from the original response: it names the one
\* confirmed order of the key, and every 201 under the key has the same body.
ReplayIsOriginal ==
    \A r \in Requests :
        pc[r] = "answered" /\ answer[r].kind = "replayed" =>
            /\ answer[r].body # None
            /\ orders[answer[r].body.order].status = answer[r].body.status
            /\ KeyOf[answer[r].body.order] = KeyOf[r]
            /\ BodyOf[answer[r].body.order] = BodyOf[r]
            /\ \A q \in Requests :
                   /\ KeyOf[q] = KeyOf[r] /\ pc[q] = "answered"
                   /\ answer[q].kind \in {"created", "replayed"}
                   => answer[q].body = answer[r].body

\* Whoever settles an order in tx2 never waits for the key row: nobody holds
\* an uncommitted claim of a key whose order is still in flight.  Its UPDATE
\* of the key comes after its locks on the order and the stock, the reverse of
\* tx1's order, and would deadlock with a claim that holds the key.
SettlingNeverWaitsForKey ==
    \A r \in Requests :
        pc[r] \in {"charge", "settle"} =>
            /\ holder[KeyOf[r]] = None
            /\ keys[KeyOf[r]].status = "in_progress"

\* A key is left in progress only in doubt: once the request of its undecided
\* order is over, it crashed, answered 500, or said that the payment is
\* unresolved.  Whoever was told of a success or a decline, or refused with an
\* error that is mapped, leaves no key behind.
InDoubt(r) ==
    \/ pc[r] = "crashed"
    \/ pc[r] = "answered" /\ answer[r].kind \in {"PaymentUnresolved", "ServerError"}
KeyLeftOnlyInDoubt ==
    \A k \in Keys : keys[k].status = "in_progress" =>
        \E r \in OrdersUnder(k) :
            /\ orders[r].status = "reserved" /\ payments[r].status = "pending"
            /\ pc[r] \in {"charge", "settle"} \/ InDoubt(r)

\* What a request can go on with: its statement waits for no one, selection
\* finds a nearest warehouse or refuses, and tx2 finds its order still
\* reserved (no InvalidTransition) and its units still there (no RuntimeError).
CanGoOn(r) ==
    \/ pc[r] \in {"geocode", "reserve", "charge"}
    \/ pc[r] = "claim" /\ (Existing(r) \/ holder[KeyOf[r]] = None)
    \/ pc[r] = "reclaim" /\ holder[KeyOf[r]] = None
    \/ /\ pc[r] = "select"
       /\ \/ ~(Lines(r) \subseteq Catalog) \/ Lines(r) = {} \/ Eligible(r) = {}
          \/ \E w \in Eligible(r) : IsNearest(r, w)
    \/ Settling(r, "unknown")
    \/ /\ Settling(r, "succeeded") /\ holder[KeyOf[r]] = None
       /\ CanMove(orders[r], "reserved", "paid")
    \/ /\ Settling(r, "declined") /\ holder[KeyOf[r]] = None
       /\ CanMove(orders[r], "reserved", "payment_failed")
       /\ CanGiveBack(ActiveRows(r))

\* A request that is not over can go on, or waits for one other that can: the
\* claim it waits for belongs to a request inside tx1, never to one that has
\* crashed or was refused, and never to one that waits itself.
NobodyIsStuck ==
    \A r \in Requests : pc[r] \notin {"answered", "crashed"} =>
        \/ CanGoOn(r)
        \/ holder[KeyOf[r]] \in Requests \ {r} /\ CanGoOn(holder[KeyOf[r]])

\* A decided order, its key and an ended hold are never touched again.
DecidedStays ==
    /\ \A r \in Requests : orders[r].status \in TERMINAL => orders'[r] = orders[r]
    /\ \A k \in Keys : keys[k].status = "completed" => keys'[k] = keys[k]
    /\ \A r \in Requests, p \in Products :
           holds[r][p] \notin {"none", "active"} => holds'[r][p] = holds[r][p]
DecidedIsFinal == [][DecidedStays]_vars

\* What is reserved, held, given back and sold are steps of the abstract stock
\* (all lines of an order at one warehouse or nothing, units that go back to
\* where they came from), through selections that read stale stock, crashes,
\* compensations and sweeps.
Promise == INSTANCE StockPromise WITH
    Orders <- Requests,
    Need <- [r \in Requests |-> Basket[BodyOf[r]]],
    onHand <- OnHand,
    place <- [r \in Requests |-> orders[r].warehouse]
KeepsStockPromise == Promise!Spec

\* The whole saga, seen from outside, is OncePerKey: its claims, waits,
\* transactions and crashes show nothing but an order opened, charged, decided
\* and told of, one at a time under a key.
Stage(order) ==
    CASE order.status = "none" -> "none"
      [] order.status = "confirmed" -> "sold"
      [] order.status = "payment_failed" -> "declined"
      [] OTHER -> "open"
Telling(reply) ==
    CASE reply.kind \in {"created", "replayed"} ->
             [kind |-> "order", order |-> reply.body.order]
      [] reply.kind = "PaymentDeclined" -> [kind |-> "declined", order |-> None]
      [] reply.kind = "PaymentUnresolved" -> [kind |-> "unresolved", order |-> None]
      [] reply.kind \in InternalErrors -> [kind |-> "failed", order |-> None]
      [] OTHER -> [kind |-> "refused", order |-> None]
Once == INSTANCE OncePerKey WITH
    bound <- [k \in Keys |-> keys[k].hash],
    stage <- [r \in Requests |-> Stage(orders[r])],
    money <- provider,
    told <- [r \in Requests |->
                IF pc[r] = "answered" THEN Telling(answer[r]) ELSE None]
KeepsKeyPromise == Once!Spec

\* Everyone who is told of an order under a key, replays long after included,
\* is told of the same one, and the provider has its money; whoever is told of
\* a decline was not charged.
OneStoryPerKey == Once!OneStoryAKey

\* Whatever the interleaving, a request that does not crash is answered:
\* waiting for another request's claim of the key always ends.
EveryRequestAnswered ==
    \A r \in Requests : <>(pc[r] \in {"answered", "crashed"})

\* Stock whose hold has lapsed comes back, or was sold, as long as the
\* sweeper is run: also for the orders of crashed and unresolved requests.
LapsedStockComesBack ==
    \A r \in Requests, p \in Products :
        (\E i \in DOMAIN lapsed : lapsed[i] = r) ~> (holds[r][p] # "active")

-----------------------------------------------------------------------------
(* What comments of the code promise and the code does not do *)

\* jobs/sweep_reservations.py:13-14: an order whose hold expired mid-charge is
\* resolved, so a confirmed order has all of its stock.
ConfirmedOrderHasItsStock ==
    \A r \in Requests : orders[r].status = "confirmed" =>
        \A p \in Lines(r) : holds[r][p] = "committed"

\* repositories/reservation.py:8: "An order can never hold some of its
\* items."
HoldsAllOrNothing ==
    \A r \in Requests :
        (\E p \in Lines(r) : holds[r][p] = "active") =>
            \A p \in Lines(r) : holds[r][p] = "active"

\* models/customer.py:3-4: an unknown customer_id is a 404, not a server error.
UnknownBuyerIsTold ==
    \A r \in Requests :
        pc[r] = "answered" /\ BodyOf[r] \in UnknownBuyer => answer[r].kind # "IntegrityError"

\* models/idempotency.py:16, domain/errors.py:131: "Reconciliation
\* resolves it."
ReconciliationResolvesKey ==
    \A k \in Keys, r \in Requests :
        KeyOf[r] = k /\ r \in reported ~> keys[k].status # "in_progress"
=============================================================================
