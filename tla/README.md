# Formal model of the order service

TLA+ modules, TLC configurations and TLAPS proofs for the order service under
`src/app`: `POST /orders` takes an order, reserves stock in one warehouse,
charges a card and confirms, once per `Idempotency-Key`, against PostgreSQL at
READ COMMITTED and an unreliable payment provider.

Paths below are relative to `src/`. `PROJECT.json` maps each definition to the
lines it models and lists the runs, mutants, findings, hazards and theorems.

## 1. The system

| Component | Code | State it keeps | Operations |
|---|---|---|---|
| order state machine | `app/domain/order_state.py`, `app/repositories/order.py` | `orders.status`, `order_status_history` | `create`, `add_items`, `transition` (compare-and-swap plus history row) |
| checkout saga | `app/services/order_checkout.py`, `order_creation.py`, `app/api/routes/orders.py`, `app/api/errors.py` | where a request stands between its two transactions | tx1, the charge, tx2 with three ends, the errors |
| idempotency keys | `app/repositories/idempotency.py` | `idempotency_keys` | `claim`, `get`, `reclaim_failed`, `settle_completed`, `mark_failed` |
| stock reservation | `app/repositories/reservation.py` | `inventory.reserved`, `stock_reservations` | `reserve_stock`, `release_reservation`, `settle_for_order`, `sweep_expired` |
| reservation sweeper | `app/jobs/sweep_reservations.py` | none | `sweep_once` |
| payments, provider | `app/repositories/payment.py`, `app/ports/payment.py`, `app/adapters/payment_mock.py` | `payments`; the provider's record of a charge | `create_pending`, three marks; `charge`, `get_by_idempotency_key` |
| reconciliation | `app/jobs/reconcile_payments.py` | none | `reconcile_once` |
| warehouse selection | `app/services/warehouse_selection.py`, `app/repositories/warehouse.py` | none (reads) | `select` |
| outbox relay | `app/repositories/outbox.py`, `app/jobs/publish_outbox.py` | `outbox_events` | `add`, `claim_batch`, `mark_processed` |
| seed data | `app/seeds.py` | none | upserts of products, warehouses, `inventory` |
| request validation | `app/schemas/order.py` | none | checks of one request |
| geocoding, schema, wiring | the rest | configuration and DDL | see section 8 |

How they interact. A request runs in one coroutine with one database session;
it shares nothing with other requests but the database and the provider. The
sweeper, the reconciliation and the relay are processes of their own that meet
the requests only in the database. tx1 claims the key, creates the order,
reserves stock and inserts the pending payment; the charge runs with no
transaction open and with the order id as the provider's idempotency key; tx2
records the outcome and settles the key.

What is hard here:

- *Claims that wait.* `INSERT ... ON CONFLICT DO NOTHING` waits for another
  request's uncommitted insert of the same key and takes the key if that one
  rolls back; `reclaim_failed` waits for another retry's uncommitted reclaim.
- *Stale reads.* `get` reads a `failed` key before the reclaim; selection reads
  stock without locks before the reservation.
- *Two transactions around a network call.* A crash, an exception, a decline, an
  unknown outcome or the sweeper may come between tx1 and tx2.
- *One answer for many ends.* A 500 may follow a tx1 that rolled back, an order
  left reserved and perhaps charged, or a tx2 that committed.
- *Three writers of a hold* (confirmation, decline, sweeper), of which two also
  give units back to inventory.
- *Answers that must stay true*: replays, and what 201, 402 and 502 told.
- *Statements that wait for rows.* A blocked UPDATE looks at the row again when
  it gets it; whether that is right depends on where its predicate stands. Loops
  of UPDATEs must take rows in one order, or they deadlock.
- *A queue without an order of its own*: events commit in another order than
  they are created in, relays overlap and die after publishing.
- *Checks far from what they protect*: the query of selection is right only for
  baskets that the request schema lets through.

What makes each component correct: the key, at most one charge and one live
order (`OneChargePerKey`, `KeyTellsItsOrders`), replays equal to the original
(`ReplayIsOriginal`); the stock, a ledger that balances and is never oversold
(`StockLedger`, `NoOversell`) and holds that end for a reason
(`HoldsEndForAReason`); the order, payment and event, agreement with the
provider (`StateAgreesWithMoney`) and a complete history (`HistoryAgrees`); the
saga, answers that stay true (`AnswerStaysTrue`), decisions that are final
(`DecidedIsFinal`), no deadlock between tx1 and tx2
(`SettlingNeverWaitsForKey`), a key left in progress only in doubt
(`KeyLeftOnlyInDoubt`), nobody waiting for ever (`NobodyIsStuck`) and every
request answered (`EveryRequestAnswered`); the sweeper, that it touches no
order in time (`WholeUntilLapsed`), always gets on (`SweepAlwaysWorks`) and
brings lapsed stock back (`LapsedStockComesBack`). The statements of the
reservation: that every commit is a step of the abstract stock
(`KeepsPromise`), that no hold ends twice (`HoldsEndOnce`), that `_settle`
never raises (`NeverRaises`), that sorted loops never deadlock
(`InventoryNeverDeadlocks`) and which deadlocks remain (`OnlyClaimsDeadlock`).
The relay: batches apart (`BatchesAreApart`), every event delivered
(`EveryEventDelivered`), repeated only by a failure (`PublishedOnceOrLost`) and
only if it happened (`DeliversAtLeastOnce`). Selection: the nearest warehouse
that supplies the whole basket (`ChoosesNearestSupplier`), none refused that
could (`RefusesOnlyUnsuppliable`), and a refusal that its count explains
(`CountTellsWhy`).

## 2. The modules

| Module | What it is |
|---|---|
| `OrderState` | the status table of `domain/order_state.py` |
| `Checkout` | the saga: concurrent requests, keys, orders, payments, stock, sweeper, reconciliation, provider; properties and mutants |
| `OncePerKey` | abstract: what an `Idempotency-Key` promises; `Checkout` implements it |
| `AtLeastOnce` | abstract: what the outbox promises; `OutboxRelay` implements it |
| `StockPromise` | abstract: what stock reservation promises; `Checkout` and `Reservation` implement it |
| `Reservation` | `repositories/reservation.py` and the re-seed, statement by statement under row locks |
| `OutboxRelay` | `repositories/outbox.py` and `jobs/publish_outbox.py` |
| `WarehouseSelection` | the basket's checks, `services/warehouse_selection.py`, `repositories/warehouse.py` |
| `MCCheckout`, `MCReservation`, `MCSelection` | the instances TLC checks |
| `CheckoutProofs` | types and the idempotency key, proved for all values of the constants |
| `CheckoutStockProofs` | stock: the ledger, no oversell, why holds end, what the sweeper can do |
| `CheckoutMoneyProofs` | orders against payments, events and the provider; histories; what is final; what clients are told; keys left behind |
| `CheckoutRefinementProofs` | the saga implements `StockPromise` and `OncePerKey`; nobody is stuck |
| `OncePerKeyProofs` | what `OncePerKey` alone guarantees a client |
| `ReservationProofs` | the statements implement `StockPromise`, never raise, and deadlock only where they claim |
| `OutboxRelayProofs` | the relay's safety; it implements `AtLeastOnce` |
| `WarehouseSelectionProofs` | the query against its definition |

How they fit together. `StockPromise` is the interface: `Reservation` shows that
the statements keep it whatever transactions do to each other, `Checkout` that a
saga whose every transaction is one step keeps it too, so the atomic steps of
`Checkout` are the right abstraction of the statements of `Reservation`.
`OncePerKey` is what a client sees of `Checkout`, `AtLeastOnce` what a consumer
sees of `OutboxRelay`. `OutboxRelay` starts where
`Checkout` ends, at the event of a confirmed order, and `WarehouseSelection` is
the inside of `Checkout`'s `SelectWarehouse` and of the checks before it.

### How `Checkout` corresponds to the code

A member of `Requests` is one HTTP call; a client's retry is another member
with the same key. An order is named by the request that created it (a request
creates at most one). Variables:

| Variable | Code |
|---|---|
| `pc`, `answer`, `chosen`, `heard` | the coroutine: its next statement, the response, `candidate.id`, `result.outcome` |
| `keys` | `idempotency_keys`: status (`"absent"` for no row), hash, `order_id`, `response_body` |
| `holder` | the request whose open tx1 has written the key row |
| `orders` | `orders` with the `order_status_history` of each |
| `payments` | `payments`; `noted` says `mark_unknown` wrote its reason |
| `holds` | `stock_reservations.status` of each order line |
| `reserved` | `inventory.reserved` |
| `outbox` | number of `OrderConfirmed` rows of an order |
| `provider` | what the provider did with the charge of an order |
| `lapsed` | orders whose `expires_at` has passed, oldest first |
| `reported` | orders `reconcile_once` has counted |

Actions follow the statements that can wait or be interleaved:

| Code | Actions |
|---|---|
| geocode before tx1 | `Geocode`, `GeocodingFails` |
| `_claim_key` | `Claim`, `FindsOtherBody`, `FindsCompleted`, `FindsInProgress`, `FindsFailed`, then `Reclaim` or `LosesReclaim` |
| `create_in_transaction`, `create_pending`, commit | `SelectWarehouse`, `FindsUnknownProduct`, `FindsNoWarehouse`; then `Reserve` or one of `FindsTwoCurrencies`, `FindsNoCustomer`, `LosesStock`, `FindsNothingToPay` |
| `provider.charge` | `Charge` |
| tx2 | `Complete`, `Compensate`, `LeaveUnresolved` |
| tx2 commits, and the client has its answer or, if the COMMIT was not acknowledged, a 500 | `Ends`, in the three of them |
| a worker dies, a client disconnects | `Crash`, from any point: no answer |
| an exception that `_MAPPING` does not list (`charge` raises, a deadlock victim, no connection in the pool), answered 500 `internal_error` | `Raises`, from any point |
| the clock | `HoldLapses` |
| `sweep_once` | `Sweep` |
| the provider decides a charge it left unknown | `ProviderSettles` |
| `reconcile_once` | `Reconcile` |

Transactions. What tx1 writes becomes visible when it commits, so its writes
are one step, `Reserve`; a refusal, an exception or a crash before it drops them. One
uncommitted write others can wait for *before* that step is the claim of the
key, hence `holder`: `Claim`, `Reclaim` and tx2's update of the key wait for it,
`get` does not. The other row locks (inventory, reservations, the order) are
taken by the statements of a single step and kept to its commit, so no other
writer comes between them. The response is rendered after both transitions of
tx2, with the order id and the status; the other fields of the response are
functions of the order.

Abstractions. A body is what `request_hash` tells apart, so the card is not
part of it: a retry may carry another card, and `Charge` answers anything. A
quantity is at most `MaxQuantity`. `Units` counts the units of a set of rows as
the size of a set, so that the ledger can be reasoned about without recursion.
Distances are a given order of the warehouses, ties broken by the code. The
second geocoding inside tx1 is left out: with the same deterministic geocoder
it succeeds whenever the first did. An empty basket keeps its guard although
the request schema rejects it. `reported` lets each order be counted once,
where the job would count it again on every run; `LongPending` bounds whose
payments get old enough to be asked about.

What a 500 says. `api/errors.py` answers every exception it does not map with the
same 500. The model tells two apart: `IntegrityError`, a constraint that refuses
an INSERT of tx1, after which everything is rolled back, and `ServerError`, which
comes from `Raises` or from a COMMIT that was not acknowledged. A `ServerError`
may find no order, an order left `reserved`, charged or not, with its key
`in_progress`, or one that was confirmed or declined. So `AnswerStaysTrue`
promises nothing of it, `OncePerKey` has an action of its own for it (`Fail`) and
`KeyLeftOnlyInDoubt` counts it among the doubts. A `charge` that raises after the
provider decided is `Charge` followed by `Raises`; a COMMIT of tx1 that was not
acknowledged is `Reserve` followed by `Raises`.

Below the model's steps is the waiting of one UPDATE for another's row locks: a
sweep whose UPDATE waited for a settling order may come back with fewer rows
than its batch, where the model's `Sweep` takes a full batch of the rows it
sees. `Reservation` has these steps.

### How `Reservation` corresponds to the code

A transaction is named by the order, the sweeper run or the seeder run it
belongs to. `onHand`, `reserved`, `holds` and `place` (`orders.warehouse_id`)
are committed; what a transaction has written is kept in `claimed` (reservation
rows), `applied` (inventory rows of an order or of what is given back) and
`listed` (how far a seeder is in its list) until it commits. The rows a
transaction has written are the rows it has locked.

| Code | Actions |
|---|---|
| `reserve_stock` | `Begin`, one `ReserveItem` for each conditional UPDATE of the sorted loop, `InsufficientStock`, `CommitHold` |
| the claim UPDATE of `release_reservation`, `settle_for_order`, `sweep_expired` | `Settle` or `Sweep` (the snapshot), then `Visit` for each row: wait, look again, write or skip |
| the sorted loop of `_settle` | `ReturnItem`; its RuntimeError is a `ReturnItem` without `Covers`, which `NeverRaises` says cannot be |
| the commit | `CommitSettle` |
| `seed_inventory` run again | `StartSeed`, `UpsertRow` in the order of `INVENTORY`, `BreaksCheck`, `CommitSeed` |
| the clock; a failure, or the victim of a deadlock | `HoldLapses`; `Crash` |

A claim visits the rows of its snapshot in any order, because the plan of the
statement decides it and nothing in the code does. A row that no longer matches
is freed at once in the model; PostgreSQL may keep a lock on a row it waited
for, which makes waiting longer and never shorter, so it does not touch what is
committed; `InventoryNeverDeadlocks` speaks of rows that were written, and one
whose predicate failed ends its transaction (`InsufficientStock`, or the
RuntimeError that is never raised). A seeder's upserts of products and
warehouses change no key column and do not meet the foreign-key locks of the
orders, so only its inventory statement is modelled, and only with the same
list of rows: `INVENTORY` changes its counts from one release to the next.

### How `OutboxRelay` corresponds to the code

An event is a row of `outbox`; `writing` is the transaction (tx2 of its
checkout) that inserts it and `born` its `created_at`. A relay's `Poll` takes
the snapshot of `claim_batch`; `VisitRow` is the SELECT coming to the next
oldest row, which it locks, or skips when another relay has it or has processed
it; then `HasBatch` or `NothingLeft`; `Publish` hands one event to the broker;
`Finish` is `mark_processed` and the commit; `Fail` rolls everything back except
what the broker already has. The loop that publishes uses the broker only, so a
connection that breaks under it (`LoseConnection`) is noticed late: the server
rolls back and frees the rows at once, while the relay, now in `cut`, publishes
the rest of its batch until `mark_processed` fails (`FindsConnectionLost`).
`published` and `lost` are history: how often the broker was given an event, and
how often that was in vain.

### How `WarehouseSelection` corresponds to the code

One basket goes through the statements: `Validate`, `FindsProducts`, `Geocode`,
`SelectBest` or `FindsNone`, `CountStocked`, or one of the refusals, while
`StockMoves` lets any other transaction change any inventory row in between.
`Joined`, `HasAll`, `Candidates`, `Before` are the join with VALUES, the GROUP
BY with its HAVING, the WHERE, and the ORDER BY of `select_best`; the property
compares them with a definition that counts units and knows none of these. A
quantity above `MaxInt` fails the statement in the driver: that is the
`ServerError` of `OutOfRange`. `Checkout` bounds quantities by `MaxQuantity` and
leaves this case to this module.

Definitions that start with `Bug` are slips the code could have made. No action
uses them; each is put in place of the definition after it to show that a
property notices.

## 3. The runs

| Run | Instance | Question |
|---|---|---|
| `retries` | 4 requests, one key, 2 bodies, 1 warehouse with 2 units | is the checkout made at most once, and do key, order, money, history and answers agree? |
| `stock` | 3 requests, 2 keys, 2 warehouses, 2 products, quantities to 2, batches of 3 | is stock never oversold, returned twice or returned without a reason? |
| `refused` | 5 requests, 4 keys, bodies with every refusal of tx1 | does a refused order leave nothing behind? |
| `live` | 3 requests, one key, fairness | does every request end, does lapsed stock come back? |
| `statements` | 2 orders of the same 2 products, 2 sweepers, a re-seed that lists them the other way round with a smaller count | do the statements implement `StockPromise`, end each hold once, never raise, never deadlock on inventory, and only with a seeder or while claiming at all? |
| `outbox` | 3 events, 2 relays, batches of 2, 1 failure or lost connection, fairness | is every event delivered, none invented, none repeated but by a failure? |
| `selection` | every basket of up to 2 lines of 3 products and quantities 0 to 3, 4 warehouses, any stock to 2 units | is the nearest supplier chosen, nothing refused that could be supplied, and a refusal explained by its count? |
| `swept_mid_charge`, `stale_key`, `partial_hold`, `unknown_buyer` | 1 request (5 in the last) | violations, section 4 |
| `sweep_deadlock` | 1 order, 1 sweeper | violation, section 4 |

`retries` also checks that `Checkout` implements `OncePerKey` (`KeepsKeyPromise`),
that it tells one story per key, that a key is left in progress only in doubt and
that nobody is stuck; `stock`
that it implements `StockPromise` (`KeepsStockPromise`), that an order is whole
until its hold lapses and that the sweeper always gets on; `outbox` that the relay
implements `AtLeastOnce` (`DeliversAtLeastOnce`).

Why the bounds are enough. Under one key the cases are: the owner, a retry that
waits or races for the failed key, a second retry that loses that race, and a
call with another body; that is four requests. With three, one declined order,
one retry that owns the key and one that raced are together present, which is
all that the liveness of waiting needs. Stock needs two orders that compete for
a last unit and a retry of one of them; two products in two warehouses make an
order that fits only one of them, and a batch of three rows takes one order of
two lines whole and cuts the other when both have expired. The seed reserves a unit in one
warehouse, as `seeds.py` does. `stock` lets no payment be reconciled (`LongPending` is empty):
reconciling changes `reported` only, which none of its properties looks at. In
`retries` the three calls with the same key and body may be swapped
(`RetriesSymmetry`): the instance tells them apart in nothing, and the run checks
no liveness. In `refused` the fifth call uses the key of a
refused one, which must have been given back.

In `statements` the two orders of two products, in one warehouse, have every
pair of locks in both loops; a batch of three rows takes one order whole and
cuts the other; the new count of the second product is below what both orders
hold together, so that the re-seed fits or not depending on who came first. Two
warehouses would add no lock that two orders fight for: a transaction of an
order is in one, and a sweep over two is ordered by the same positions, which
the proof covers. In `outbox` three events let one commit after two younger
ones are gone, and a batch of two leaves one for the other relay. In `selection`
the quantity 3 is above the instance's INTEGER and above every stock, 0 and a
repeated product are refused by the schema, two warehouses tie in distance and
one is closed.

A run of `Checkout`, `Reservation` or `WarehouseSelection` stops at the bound of
its finite sets only; no counter is cut. In `OutboxRelay`, `MaxFaults` bounds the
failures and lost connections together. Each order
has one payment, one row per line and at most four history rows, and every
request ends, so the state space is finite without a state constraint.
Deadlock is checked in every run: in `Checkout`, `Idle` is enabled only when every request has its answer
or has crashed, so a request that waits for ever is a deadlock as soon as
nothing else can happen. In `Reservation` a `Crash` is always possible, as it is
for the victim of a real deadlock, so waiting in a circle is stated by
properties of its own, as a set of transactions each of which waits for another
of the set.

Fairness (`FairSpec`). Weak fairness of `Step(r)`: the event loop resumes a
coroutine whose statement has returned, and a database wait ends when the
transaction waited for does. A request may still crash or raise. Weak fairness of
`Sweep`: the README of the repository (6, Background jobs) makes running
`make sweep` again and again the operator's part. Nothing is assumed of the
provider, the clock or the reconciliation. `EveryRequestAnswered` needs the
first only, `LapsedStockComesBack` both. In `OutboxRelay`, weak fairness of the
relay's steps, for the same reasons, and of starting it again: the same section
of the README makes `make outbox` an entrypoint that the operator runs. Nothing
makes a checkout commit, and failures of relays are finitely many: a broker that
refuses an event for ever blocks its batch for ever, as
`app/jobs/publish_outbox.py:12-15` says itself. `Reservation` and
`WarehouseSelection` need no fairness.

## 4. What the runs show

All properties of the seven passing runs hold. Five sentences of the repository
do not describe what the code does; each has a run whose counterexample is the
story:

- `swept_mid_charge`. A hold lapses during the charge and the sweeper returns
  the stock; the charge succeeds; `settle_for_order` matches no row and does
  not notice; the order is confirmed and announced with none of its stock.
  `app/jobs/sweep_reservations.py:13-14` says the saga resolves this.
- `stale_key`. A charge was unknown, the provider decides it, `reconcile_once`
  counts it and writes nothing: the key stays `in_progress` for good, although
  `app/models/idempotency.py:16` and `app/domain/errors.py:131` say
  "Reconciliation resolves it."
- `partial_hold`. The sweeper's LIMIT counts rows, so a batch can end inside an
  order, which then holds some of its items
  (`app/repositories/reservation.py:8` says it never does). `StockLedger` shows
  that no unit is lost by it.
- `unknown_buyer`. An unknown `customer_id` breaks a foreign key and ends in an
  unmapped 500; `app/models/customer.py:3-4` says 404.
- `sweep_deadlock`. The hold of an order of two lines lapses; a sweep and the
  order's own tx2 each write one of its two reservation rows and wait for the
  other. `app/repositories/reservation.py:45-46` says that consistent ordering
  makes a deadlock unreachable; the inventory rows are ordered, the reservation
  rows are not. One of the two is rolled back: `KeepsPromise` shows that no
  stock is lost by it, and `stale_key` what happens to a paid order whose tx2
  was the victim and whose client was answered 500.

The instance of `sweep_deadlock` has no seeder, so that its counterexample is
about the service itself. With one, TLC finds a shorter circle: a seeder and a
`reserve_stock` that take two inventory rows in opposite orders, since
`seed_inventory` goes by its list and not by `(warehouse_id, product_id)`.
`InventoryNeverDeadlocks` says that without a seeder there is none.

How far these reach is stated, checked and proved too:

- An order sold without stock, or with a part of its hold, is always one whose
  hold lapsed: until then it has every line or none (`WholeUntilLapsed`). Nothing
  a batch leaves can stop the sweeper (`SweepAlwaysWorks`).
- A key that stays `in_progress` belongs to an undecided order whose request
  crashed, or was answered 500 or 502 (`KeyLeftOnlyInDoubt`). A 201, a 402 and
  every error that `_MAPPING` lists, other than that 502, leave the key settled or
  untouched.
- There are two kinds of deadlock and no third (`OnlyClaimsDeadlock`): with a
  seeder whose list is not in lock order, and between claims of reservation
  rows, a sweeper's among them, where nobody has an inventory row yet.
  The first kind would go away if `INVENTORY` were listed by
  `(warehouse_id, product_id)` (`SeedInOrder`).

`StateAgreesWithMoney` deliberately does not say that a paid order is
confirmed: a charge that succeeded before a crash, or was unknown and settled
later, leaves the order `reserved` with its payment `pending` until somebody
reconciles it. It does say that nothing is ever decided against the provider.

## 5. What is proved

Every safety property the passing runs check is proved, the refinements
included, for all values of the constants that satisfy the assumptions of the
modules:

| Module | Theorem | Statement |
|---|---|---|
| `CheckoutProofs` | `TypeCorrect` | `Spec => []TypeOK` |
| | `KeysTellTheirOrders` | `Spec => []KeyTellsItsOrders` |
| | `KeyChargesOnce` | `Spec => []OneChargePerKey` |
| | `SettlingIsFree` | `Spec => []SettlingNeverWaitsForKey` |
| `CheckoutStockProofs` | `LedgerBalances` | `Spec => []StockLedger` |
| | `NeverOversold` | `Spec => []NoOversell` |
| | `HoldsEndRightly` | `Spec => []HoldsEndForAReason` |
| | `WholeTillItLapses` | `Spec => []WholeUntilLapsed` |
| | `SweeperGetsOn` | `Spec => []SweepAlwaysWorks` |
| `CheckoutMoneyProofs` | `MoneyAgrees` | `Spec => []StateAgreesWithMoney` |
| | `HistoriesTell` | `Spec => []HistoryAgrees` |
| | `DecisionsAreFinal` | `Spec => DecidedIsFinal` |
| | `AnswersStayTrue` | `Spec => []AnswerStaysTrue` |
| | `ReplaysAreOriginal` | `Spec => []ReplayIsOriginal` |
| | `KeysAreLeftInDoubt` | `Spec => []KeyLeftOnlyInDoubt` |
| `CheckoutRefinementProofs` | `SagaKeepsStockPromise` | `Spec => KeepsStockPromise` (`StockPromise!Spec`) |
| | `SagaKeepsKeyPromise` | `Spec => KeepsKeyPromise` (`OncePerKey!Spec`) |
| | `NobodyGetsStuck` | `Spec => []NobodyIsStuck` |
| | `OneStoryForAll` | `Spec => []OneStoryPerKey` |
| `OncePerKeyProofs` | `KeyPromiseOneCharge` | `Spec => []OneChargeAKey`, given `OnceConstants` |
| | `KeyPromiseOneStory` | `Spec => []OneStoryAKey`, given `OnceConstants` |
| `ReservationProofs` | `ReservationTypes` | `Spec => []TypeOK` |
| | `StatementsKeepPromise` | `Spec => KeepsPromise` (`StockPromise!Spec`) |
| | `StatementsBalance` | `Spec => []LedgerBalances` |
| | `StatementsNeverOversell` | `Spec => []NeverOversold` |
| | `SettleNeverRaises` | `Spec => []NeverRaises` |
| | `HoldEndsOnce` | `Spec => HoldsEndOnce` |
| | `SortedLocksNeverDeadlock` | `Spec => []InventoryNeverDeadlocks` |
| | `ClaimsAreTheOnlyDeadlock` | `Spec => []OnlyClaimsDeadlock` |
| `OutboxRelayProofs` | `RelayTypes` | `Spec => []TypeOK` |
| | `RelaysKeepApart` | `Spec => []BatchesAreApart` |
| | `PublishedOnce` | `Spec => []PublishedOnceOrLost` |
| | `AttemptsCountNoFailure` | `Spec => []AttemptsForgetFailures` |
| | `RelayDeliversAtLeastOnce` | `Spec => DeliversAtLeastOnce` (`AtLeastOnce!Spec`) |
| `WarehouseSelectionProofs` | `SelectionTypes` | `Spec => []TypeOK` |
| | `NearestSupplierChosen` | `Spec => ChoosesNearestSupplier` |
| | `EmptyOnlyIfUnsuppliable` | `Spec => RefusesOnlyUnsuppliable` |
| | `CountExplainsRefusal` | `Spec => CountTellsWhy` |

`CheckoutAssumption` is the schema's: quantities and prices are not negative,
reserved stock starts at most at what is on hand, no two warehouses tie, `None`
is no value of anything else. `Requests` is finite so that `Quantity` is a
number.

The invariants are built one on the other, each inductive with the ones before
it: `TypeOK`, `KeyInv`, `StockInv`, `RecordInv`, `AnswerInv`.

`KeyInv`. In `TypeOK` the one interesting conjunct is that `reserved` stays a
natural number, because whatever gives units back first checked that they are
there (`CanGiveBack`). `KeyTellsItsOrders` is not inductive: it must know who is
about to write the key. `KeyParts` adds

- `OrderFollowsRequest`: a request that has not committed tx1 has no order, and
  one that charges or settles has a reserved order;
- `RequestOwnsKey`: a request in tx1 after its claim is the holder of its key,
  so no two are, and one about to reclaim the key has compared the body;
- `OwnerMayClaim`: a key with a holder is absent, or failed with the holder's
  body, so all its orders are declined and the holder's will be the only live
  one;
- `MoneyFollowsOrder`: the provider has an opinion only about orders that
  exist, has declined the ones that are `payment_failed`, and a request told a
  definite outcome was told the provider's.

From them, `Reserve` makes the only live order of the key, `Complete` and
`Compensate` decide the only live one, and nothing else moves an order.
`OneChargePerKey` follows: two requests that may have paid would both be live
under one key. `SettlingNeverWaitsForKey` follows from `OwnerMayClaim`: while an
order is in flight its key is `in_progress`, which nobody can claim.

`StockInv` adds the three stock properties and that `reserve_stock` has a
warehouse. A row is worth a finite set of units (`Units`), so `Quantity` is
additive over disjoint rows: `StockReserve` adds the units of the new rows to
both sides of the ledger, and the check inside the same statements (`InStock`)
keeps them within `on_hand`; `GiveBack`, shared by compensation and sweeping,
subtracts from both sides the units of rows that were active; a sale moves rows
from active to committed, which hold alike. `CanGiveBack` is never needed here:
the ledger implies it (`ActiveCovered`), which is why no batch makes `_settle`
raise. That there is a batch at all is a choice: the oldest lapsed hold that has
an active row begins one (`OldestLeft`, `BatchExists`). `WholeUntilLapsed` is
kept because the only step that splits an order, `Sweep`, takes rows of lapsed
orders, and the lapsed stay lapsed.

`RecordInv` adds `StateAgreesWithMoney` and `HistoryAgrees`. The provider can
still change its mind only about an order that is reserved on both sides
(`RecordProvider`); an order and its payment are decided in one step
(`RecordOrder`); a legal move appends the row that carries the history on
(`MovedHistory`). `DecidedIsFinal` needs no further invariant: every writer of
orders and keys finds its own undecided (`FinalReserve`, `FinalDecide`), and
only active rows are ever marked.

`AnswerInv` adds `AnswerStaysTrue`, that a completed key stores the response of
its order, and that every 201 is the response the key stores for its body
(`AnswerIsStored`); `DecidedIsFinal` carries both over every later step, and
`ReplayIsOriginal` follows. `KeyLeftOnlyInDoubt` needs `AnswerKind` of every
answer besides: of the ways a request ends, only `LeaveUnresolved`, `Crash` and
`Raises` end one whose order is undecided, and the answer of the last is a 500.

`RefineInv` adds that an order that is not there has no warehouse, and
`PromiseInv` that a key that is not there stands for no body and that whoever
settles has asked the provider. With them each step of `Checkout` is shown to be one step of the abstract
specification or to change nothing it sees: only `Reserve`, `Complete`,
`Compensate` and `Sweep` move stock; `Reserve` opens an order in `OncePerKey`
because `OwnerMayClaim` makes all its rivals declined, and a replay is told of
the sold order by `AnswerIsStored`.

`NobodyIsStuck` is the safety half of `EveryRequestAnswered`, as
`SweepAlwaysWorks` is of `LapsedStockComesBack`: what remains for TLC is the step
from "can always go on" to "goes on". A request waits only for the holder of its
key, which by `RequestOwnsKey` is inside tx1 after its claim and so can go on
(`OwnerGoesOn`); one in tx2 has a free key by `SettlingNeverWaitsForKey`, its
order still reserved, and its active rows covered by the ledger
(`SettlingGoesOn`).

`OnceInv`, the invariant of `OncePerKey`, says that two orders of a key are never
open or sold together and that what was told was so. From it and
`SagaKeepsKeyPromise` follows `OneStoryForAll`: `CheckoutRefinementProofs`
instances the theorems of `OncePerKeyProofs`, shows `OnceConstants` from
`CheckoutAssumption`, and looks at nothing else of `Checkout`. So eight small
actions say enough to reason from.

`ReservationAssumption` is that of the schema and the seeds: reserved stock
starts at most at what is on hand, the inventory rows have distinct positions,
the seeder's list has each row once. `RowInv`, its invariant, has four parts:

- `TypeOK`;
- `Shape`: where a transaction stands goes with what it has written, and an
  order's rows go with its warehouse;
- `Locks`: a reservation row is written by one transaction and still active
  (`Claims`), an inventory row by one (`CellsApart`); what a statement tested in
  a row it then locked is still true (`TestsHold`), since nobody else may commit
  a change of it; and the loops go up the positions (`Sorted`);
- `Books`: the ledger balances and nothing is oversold.

`Locks` is what a statement-by-statement model needs and an atomic one does not.
`KeepsPromise` follows because at its commit an order finds all its tests still
true together (`HoldStep`), a settling transaction has written only rows that
are active (`SettleStepKeeps`), and a seeder's count still covers what is
reserved (`SeedKeeps`). `NeverRaises` follows from `Books`: the rows still to be
given back are active, so the ledger contains their units, and those already
applied are disjoint from them (`ClaimedIsCovered`). `InventoryNeverDeadlocks`:
of a set of transactions that all wait for each other, take the one that wants
the row of the highest position (`LastPosition`). Whoever holds that row wants
one that is not lower (`Sorted`), hence that same row, which nobody else can
hold (`CellsApart`). The circle may have any length. With a seeder whose list is
sorted the same argument covers it (`NoCellCircle`). `OnlyClaimsDeadlock` then
needs one fact more, that a transaction which still claims rows has written no
inventory (`ClaimingHoldsNoCell`): so those that wait for inventory wait for each
other, which they cannot, and all of the circle is claiming
(`NobodyWaitsForCells`); two orders never claim the same row (`OwnRows`), so a
sweeper is among them.

`RelayInv` adds that a relay's rows go with where it stands and that only
events of committed transactions are processed or lost. What a relay in `cut`
holds counts for nothing in it. The step that matters in `DeliversAtLeastOnce`
is `Finish`: all of its batch is sent, by a relay whose transaction lives, so
all of it is committed, unprocessed and published. Selection needs no invariant
beyond its types and that a basket past `Validate` is valid; the argument is
that of a basket without duplicates a line is all that is wanted of its product
(`WantedOfLine`), so that a warehouse supplies the basket exactly if every line
joins (`HasAllLines`, `CandidatesSupply`). `CountTellsWhy` needs that the
products stocked somewhere are a subset of those asked for: it is all of them
exactly if it has their number, and a product that no warehouse stocks keeps
every one of them from supplying the basket.

Only model-checked: the three liveness properties (`EveryRequestAnswered`,
`LapsedStockComesBack`, `EveryEventDelivered`), because fairness and ENABLED are
outside this prover's reach. TLC also checks all of the above on the
instances of section 3, where each property has a mutant that violates it; the
two facts about `OncePerKey` it checks as `OneChargePerKey` and `OneStoryPerKey`
of `Checkout`.

## 6. Reading order

`OrderState`, then `OncePerKey`, `StockPromise` and `AtLeastOnce`, which say what
all the rest is for; `Checkout` from its header to `Next`, then its properties, then a
configuration next to `MCCheckout`; `Reservation`, `OutboxRelay` and
`WarehouseSelection`, each by itself. Then the proof modules, each from its
theorems upwards: `CheckoutProofs`, `CheckoutStockProofs`, `CheckoutMoneyProofs`,
`CheckoutRefinementProofs`, which build on each other; `OncePerKeyProofs`,
`ReservationProofs`, `OutboxRelayProofs`, `WarehouseSelectionProofs`, which do
not.

## 7. Plan

Done, in this order: `OrderState` and `Checkout` with the proofs of its safety
properties; `StockPromise` and `Reservation`; `OutboxRelay`;
`WarehouseSelection`; `OncePerKey`; `AtLeastOnce`; the proofs of all of them;
then the reach of each divergence of section 4 and the safety halves of the
liveness properties.

Open: the safety half of `EveryEventDelivered`, that an event which is pending
and in no live batch is found by the next relay that polls, whatever the others
hold.

Worth doing when the code gets there: the body of `reconcile_once` (today a
TODO), which has to end orders the way `_complete` and `_compensate` do and race
with the sweeper; and a broker that can refuse an event, with attempts that are
committed apart and a dead-letter threshold, as `publish_outbox.py` announces.

## 8. Not modelled

- Of request validation (`app/schemas`), the checksum of the card and the
  lengths and formats of fields: pure checks of one request.
- Of the schema and migrations, everything but the constraints that decide an
  outcome or say which rows there can be: columns, types, indexes, extensions,
  the migration environment and the downgrade paths have no behaviour while the
  service runs.
- Of the seed, products, warehouses, the customer and addresses: data that no
  property looks at.
- Wiring, logging, middleware, health route: no state of the system.
- The mock geocoder's table and the geometry: only whether it answers, and an
  order of the warehouses.
- Card brand, last four digits, failure reasons, the payment reference, prices
  on order lines beyond "same currency" and "costs something", timestamps
  beyond the order in which holds lapse.
- Row locks of `orders`, `payments` and `idempotency_keys` inside one
  transaction beyond the one that others wait for, the key's.
