----------------------------- MODULE Reservation -----------------------------
(***************************************************************************)
(* app/repositories/reservation.py statement by statement, and the re-seed *)
(* of app/seeds.py next to it, under PostgreSQL's row locks at READ        *)
(* COMMITTED.                                                              *)
(*                                                                         *)
(* A transaction belongs to an order (its tx1 reserves, its tx2 releases   *)
(* or sells), to a sweeper or to a seeder.  pc[t] names where t stands:    *)
(*   "start"    an order before tx1                                        *)
(*   "reserve"  tx1: conditional UPDATEs of inventory, in lock order       *)
(*   "held"     an order between its transactions                          *)
(*   "settle"   claim reservation rows, then give them back to inventory   *)
(*   "upsert"   the seeder's INSERT ... ON CONFLICT DO UPDATE              *)
(*   "idle"     a sweeper or seeder between transactions                   *)
(*   "ended", "failed"   nothing more to do; rolled back for good          *)
(*                                                                         *)
(* An UPDATE locks the rows it writes to the end of its transaction.  One  *)
(* that meets a locked row waits, then looks at the row's new version and  *)
(* skips it if its WHERE clause no longer matches.  What a transaction     *)
(* wrote is kept apart, in claimed, applied and listed, and reaches the    *)
(* committed tables onHand, reserved, holds and place at its commit; until *)
(* then the rows it wrote are the rows it has locked.                      *)
(*                                                                         *)
(* An inventory row that does not exist is one with on_hand = 0: the       *)
(* conditional UPDATE matches neither.                                     *)
(*                                                                         *)
(* A definition whose name starts with Bug is a slip the code could have   *)
(* made in the definition that follows it.  No action uses it.             *)
(***************************************************************************)
EXTENDS Integers, FiniteSets, Sequences

CONSTANTS
    Orders,
    Sweepers,       \* runs of jobs/sweep_reservations.py
    Seeders,        \* runs of seeds.py
    Warehouses,
    Products,
    None,           \* NULL
    MaxQuantity,    \* bound on the quantity of an order line
    Need,           \* what an order asks for: quantity of each product
    SeedOnHand,     \* inventory.on_hand as the first seed leaves it
    SeedReserved,   \* inventory.reserved as the first seed leaves it
    Position,       \* of (warehouse_id, product_id) in their sort order
    MaxPosition,
    SeedList,       \* the inventory rows in the order INVENTORY lists them
    Count,          \* the on_hand column of the INVENTORY a seeder runs with
    SweepBatch      \* batch_size of sweep_expired

Txs == Orders \cup Sweepers \cup Seeders
Cells == Warehouses \X Products

ASSUME ReservationAssumption ==
    /\ IsFiniteSet(Orders) /\ None \notin Warehouses
    /\ Orders \cap Sweepers = {} /\ Orders \cap Seeders = {}
    /\ Sweepers \cap Seeders = {}
    /\ MaxQuantity \in Nat
    /\ Need \in [Orders -> [Products -> 0..MaxQuantity]]
    /\ SeedOnHand \in [Warehouses -> [Products -> Nat]]
    /\ Count \in [Seeders -> [Warehouses -> [Products -> Nat]]]
    /\ SeedReserved \in [Warehouses -> [Products -> Nat]]
    /\ \A w \in Warehouses, p \in Products : SeedReserved[w][p] <= SeedOnHand[w][p]
    /\ MaxPosition \in Nat
    /\ Position \in [Cells -> 1..MaxPosition]
    /\ \A c, d \in Cells : Position[c] = Position[d] => c = d
    /\ SeedList \in Seq(Cells)
    /\ \A c \in Cells : \E i \in 1..Len(SeedList) : SeedList[i] = c
    /\ \A i, j \in 1..Len(SeedList) : SeedList[i] = SeedList[j] => i = j
    /\ SweepBatch \in Nat \ {0}

VARIABLES
    \* committed
    onHand,     \* inventory.on_hand
    reserved,   \* inventory.reserved
    holds,      \* stock_reservations.status, one row per order line
    place,      \* orders.warehouse_id
    lapsed,     \* orders whose expires_at has passed, oldest first
    \* transactions
    pc,         \* where a transaction stands
    target,     \* the warehouse selection advised an order
    goal,       \* the status a settling transaction writes
    plan,       \* rows its claim has still to visit
    claimed,    \* reservation rows it has written
    applied,    \* rows whose inventory UPDATE it has done
    listed      \* how many rows of its list a seeder has written

tableVars == <<onHand, reserved, holds, place>>
txVars == <<pc, target, goal, plan, claimed, applied, listed>>
vars == <<tableVars, lapsed, txVars>>

PC == {"start", "reserve", "held", "settle", "upsert", "idle", "ended", "failed"}
Rows == Orders \X Products
HoldStatus == {"none", "active", "committed", "released", "expired"}
Lines(o) == {p \in Products : Need[o][p] > 0}
LineRows(o) == {row \in Rows : row[1] = o /\ row[2] \in Lines(o)}
Qty(row) == Need[row[1]][row[2]]

\* The inventory row that a reservation row counts in.
Cell(row) == <<target[row[1]], row[2]>>

-----------------------------------------------------------------------------
(* Row locks *)

HoldsCell(t, c) ==
    \/ \E row \in applied[t] : Cell(row) = c
    \/ t \in Seeders /\ \E i \in 1..listed[t] : SeedList[i] = c
CellFree(t, c) == \A u \in Txs \ {t} : ~HoldsCell(u, c)
RowFree(t, row) == \A u \in Txs \ {t} : row \notin claimed[u]

\* The next inventory UPDATE of a loop sorted by (warehouse_id, product_id).
BugUnsorted(t, S) == S \ applied[t]
NextRows(t, S) ==
    {row \in S \ applied[t] :
        \A other \in S \ applied[t] : Position[Cell(row)] <= Position[Cell(other)]}

\* inventory.reserved as t sees it in a row it has locked or nobody has.
Units(S, c) ==
    {unit \in Orders \X (1..MaxQuantity) :
        \E p \in Products :
            /\ <<unit[1], p>> \in S /\ Cell(<<unit[1], p>>) = c
            /\ unit[2] <= Qty(<<unit[1], p>>)}
Quantity(S, c) == Cardinality(Units(S, c))

Available(c) == onHand[c[1]][c[2]] - reserved[c[1]][c[2]]

-----------------------------------------------------------------------------
Init ==
    /\ onHand = SeedOnHand
    /\ reserved = SeedReserved
    /\ holds = [o \in Orders |-> [p \in Products |-> "none"]]
    /\ place = [o \in Orders |-> None]
    /\ lapsed = <<>>
    /\ pc = [t \in Txs |-> IF t \in Orders THEN "start" ELSE "idle"]
    /\ target = [o \in Orders |-> None]
    /\ goal = [t \in Txs |-> "none"]
    /\ plan = [t \in Txs |-> {}]
    /\ claimed = [t \in Txs |-> {}]
    /\ applied = [t \in Txs |-> {}]
    /\ listed = [t \in Txs |-> 0]

\* The transaction of t ends, by commit or rollback, and its locks go.
End(t, step) ==
    /\ pc' = [pc EXCEPT ![t] = step]
    /\ plan' = [plan EXCEPT ![t] = {}]
    /\ claimed' = [claimed EXCEPT ![t] = {}]
    /\ applied' = [applied EXCEPT ![t] = {}]
    /\ listed' = [listed EXCEPT ![t] = 0]
    /\ goal' = [goal EXCEPT ![t] = "none"]

\* An exception, a crash, or the server picking t as a deadlock's victim.  The
\* order of a rolled back tx2 keeps its hold; a job is started again later.
Rollback(t) ==
    /\ End(t, IF t \in Orders THEN "failed" ELSE "idle")
    /\ UNCHANGED <<tableVars, lapsed, target>>

-----------------------------------------------------------------------------
(* tx1: reserve_stock *)

Begin(o) ==
    /\ pc[o] = "start"
    /\ \E w \in Warehouses : target' = [target EXCEPT ![o] = w]
    /\ pc' = [pc EXCEPT ![o] = "reserve"]
    /\ UNCHANGED <<tableVars, lapsed, goal, plan, claimed, applied, listed>>

\* UPDATE ... WHERE on_hand - reserved >= quantity: the test and the write are
\* one statement on the row's latest version.
BugNoTest(row) == TRUE
HasEnough(row) == Available(Cell(row)) >= Qty(row)

ReserveItem(o) ==
    /\ pc[o] = "reserve"
    /\ \E row \in NextRows(o, LineRows(o)) :
           /\ CellFree(o, Cell(row)) /\ HasEnough(row)
           /\ applied' = [applied EXCEPT ![o] = @ \cup {row}]
    /\ UNCHANGED <<tableVars, lapsed, pc, target, goal, plan, claimed, listed>>

InsufficientStock(o) ==
    /\ pc[o] = "reserve"
    /\ \E row \in NextRows(o, LineRows(o)) : CellFree(o, Cell(row)) /\ ~HasEnough(row)
    /\ Rollback(o)

\* flush() inserts the reservation rows; the commit shows them with the order.
CommitHold(o) ==
    /\ pc[o] = "reserve" /\ applied[o] = LineRows(o)
    /\ place' = [place EXCEPT ![o] = target[o]]
    /\ holds' = [holds EXCEPT ![o] =
           [p \in Products |-> IF p \in Lines(o) THEN "active" ELSE "none"]]
    /\ reserved' = [reserved EXCEPT ![target[o]] =
           [p \in Products |-> reserved[target[o]][p] + Need[o][p]]]
    /\ End(o, "held")
    /\ UNCHANGED <<onHand, lapsed, target>>

-----------------------------------------------------------------------------
(* release_reservation, settle_for_order, sweep_expired *)

\* A claim UPDATE starts: the rows its snapshot shows, to be visited in the
\* order of the plan, which nothing fixes.
Claim(t, status, S) ==
    /\ pc' = [pc EXCEPT ![t] = "settle"]
    /\ goal' = [goal EXCEPT ![t] = status]
    /\ plan' = [plan EXCEPT ![t] = S]
    /\ UNCHANGED <<tableVars, lapsed, target, claimed, applied, listed>>

ActiveRows(o) == {row \in Rows : row[1] = o /\ holds[o][row[2]] = "active"}

\* tx2: the provider declined, or the charge succeeded.
Settle(o) ==
    /\ pc[o] = "held"
    /\ \E status \in {"released", "committed"} : Claim(o, status, ActiveRows(o))

Expired == {row \in Rows : /\ holds[row[1]][row[2]] = "active"
                           /\ \E i \in DOMAIN lapsed : lapsed[i] = row[1]}
Age(o) == CHOOSE i \in DOMAIN lapsed : lapsed[i] = o
IsBatch(S) ==
    /\ S \subseteq Expired
    /\ Cardinality(S) <= SweepBatch
    /\ S = Expired \/ Cardinality(S) = SweepBatch
    /\ \A s \in S, r \in Expired \ S : Age(s[1]) <= Age(r[1])

\* sweep_once: the subquery picks a batch of what is active and expired.
Sweep(s) ==
    /\ pc[s] = "idle" /\ Expired # {}
    /\ \E S \in SUBSET Expired : IsBatch(S) /\ Claim(s, "expired", S)

\* The predicate of the outer statement, on the row's latest version.
BugInSubqueryOnly(row) == TRUE
StillActive(row) == holds[row[1]][row[2]] = "active"

Visit(t) ==
    /\ pc[t] = "settle"
    /\ \E row \in plan[t] :
           /\ RowFree(t, row)
           /\ plan' = [plan EXCEPT ![t] = @ \ {row}]
           /\ claimed' = [claimed EXCEPT ![t] =
                  IF StillActive(row) THEN @ \cup {row} ELSE @]
    /\ UNCHANGED <<tableVars, lapsed, pc, target, goal, applied, listed>>

BugReturnsAsItClaims(t) ==
    IF pc[t] = "settle" /\ goal[t] # "committed" THEN claimed[t] ELSE {}

\* Once its claim UPDATE is through; settle_for_order writes no inventory.
GivesBack(t) ==
    IF pc[t] = "settle" /\ plan[t] = {} /\ goal[t] # "committed" THEN claimed[t] ELSE {}

\* UPDATE ... WHERE reserved >= quantity.
Covers(t, row) ==
    reserved[Cell(row)[1]][Cell(row)[2]] - Quantity(applied[t], Cell(row)) >= Qty(row)

\* The inventory rows t is in the middle of writing.
ToUpdate(t) == IF pc[t] = "reserve" THEN LineRows(t) ELSE GivesBack(t)

ReturnItem(t) ==
    /\ \E row \in NextRows(t, GivesBack(t)) :
           /\ CellFree(t, Cell(row)) /\ Covers(t, row)
           /\ applied' = [applied EXCEPT ![t] = @ \cup {row}]
    /\ UNCHANGED <<tableVars, lapsed, pc, target, goal, plan, claimed, listed>>

Marked(S, status) ==
    [o \in Orders |-> [p \in Products |->
        IF <<o, p>> \in S THEN status ELSE holds[o][p]]]
BugForgetsToReturn(S) == reserved
BugReturnsEveryLine(S) ==
    [w \in Warehouses |-> [p \in Products |-> reserved[w][p] - Cardinality(S)]]
GivenBack(S) ==
    [w \in Warehouses |-> [p \in Products |-> reserved[w][p] - Quantity(S, <<w, p>>)]]

CommitSettle(t) ==
    /\ pc[t] = "settle" /\ plan[t] = {} /\ applied[t] = GivesBack(t)
    /\ holds' = Marked(claimed[t], goal[t])
    /\ reserved' = GivenBack(applied[t])
    /\ End(t, IF t \in Orders THEN "ended" ELSE "idle")
    /\ UNCHANGED <<onHand, place, lapsed, target>>

-----------------------------------------------------------------------------
(* seeds.py run again *)

StartSeed(s) ==
    /\ pc[s] = "idle"
    /\ pc' = [pc EXCEPT ![s] = "upsert"]
    /\ UNCHANGED <<tableVars, lapsed, target, goal, plan, claimed, applied, listed>>

\* CHECK (on_hand >= reserved) on the row's latest version.
BugNoCheck(s, c) == TRUE
Fits(s, c) == reserved[c[1]][c[2]] <= Count[s][c[1]][c[2]]

\* DO UPDATE SET on_hand, row by row in the order of the list.
NextListed(s) == SeedList[listed[s] + 1]
UpsertRow(s) ==
    /\ pc[s] = "upsert" /\ listed[s] < Len(SeedList)
    /\ CellFree(s, NextListed(s)) /\ Fits(s, NextListed(s))
    /\ listed' = [listed EXCEPT ![s] = @ + 1]
    /\ UNCHANGED <<tableVars, lapsed, pc, target, goal, plan, claimed, applied>>

BreaksCheck(s) ==
    /\ pc[s] = "upsert" /\ listed[s] < Len(SeedList)
    /\ CellFree(s, NextListed(s)) /\ ~Fits(s, NextListed(s))
    /\ Rollback(s)

CommitSeed(s) ==
    /\ pc[s] = "upsert" /\ listed[s] = Len(SeedList)
    /\ onHand' = Count[s]
    /\ End(s, "ended")
    /\ UNCHANGED <<reserved, holds, place, lapsed, target>>

-----------------------------------------------------------------------------
\* expires_at passes; every row of an order has the same one.
HoldLapses(o) ==
    /\ \E p \in Products : holds[o][p] = "active"
    /\ \A i \in DOMAIN lapsed : lapsed[i] # o
    /\ lapsed' = Append(lapsed, o)
    /\ UNCHANGED <<tableVars, txVars>>

Crash(t) == pc[t] \in {"reserve", "settle", "upsert"} /\ Rollback(t)

OrderStep(o) ==
    \/ Begin(o) \/ ReserveItem(o) \/ InsufficientStock(o) \/ CommitHold(o) \/ Settle(o)
SettleStep(t) == Visit(t) \/ ReturnItem(t) \/ CommitSettle(t)
SeedStep(s) == StartSeed(s) \/ UpsertRow(s) \/ BreaksCheck(s) \/ CommitSeed(s)

\* No order is under way; the jobs need not run.
Idle == (\A o \in Orders : pc[o] \in {"held", "ended", "failed"}) /\ UNCHANGED vars

Next ==
    \/ \E o \in Orders : OrderStep(o) \/ HoldLapses(o)
    \/ \E s \in Sweepers : Sweep(s)
    \/ \E t \in Orders \cup Sweepers : SettleStep(t)
    \/ \E s \in Seeders : SeedStep(s)
    \/ \E t \in Txs : Crash(t)
    \/ Idle

Spec == Init /\ [][Next]_vars

-----------------------------------------------------------------------------
(* Properties *)

TypeOK ==
    /\ onHand \in [Warehouses -> [Products -> Nat]]
    /\ reserved \in [Warehouses -> [Products -> Nat]]
    /\ holds \in [Orders -> [Products -> HoldStatus]]
    /\ place \in [Orders -> Warehouses \cup {None}]
    /\ lapsed \in Seq(Orders)
    /\ pc \in [Txs -> PC]
    /\ target \in [Orders -> Warehouses \cup {None}]
    /\ goal \in [Txs -> HoldStatus]
    /\ plan \in [Txs -> SUBSET Rows]
    /\ claimed \in [Txs -> SUBSET Rows]
    /\ applied \in [Txs -> SUBSET Rows]
    /\ listed \in [Txs -> 0..Len(SeedList)]

\* The module's promise, kept by its statements however transactions wait for
\* each other, roll back, and find a row changed when they get its lock: every
\* commit is one step of StockPromise and nothing else shows.
Promise == INSTANCE StockPromise
KeepsPromise == Promise!Spec

\* inventory and stock_reservations never diverge, re-seeding included, and no
\* unit is promised twice.
LedgerBalances == Promise!LedgerBalances
NeverOversold == Promise!NeverOversold

\* RuntimeError("inventory invariant violated ...") is never raised: whoever
\* comes to give a claimed row back finds at least its quantity reserved, with
\* what the same batch has already taken off, and other orders' transactions
\* under way.
NeverRaises ==
    \A t \in Orders \cup Sweepers : \A row \in NextRows(t, GivesBack(t)) :
        CellFree(t, Cell(row)) => Covers(t, row)

\* A hold ends once: two sweepers, or a sweeper and the end of a checkout,
\* that visit the same row do not both write it.
HoldsEndOnce ==
    [][\A o \in Orders, p \in Products :
           holds[o][p] \notin {"none", "active"} => holds'[o][p] = holds[o][p]]_holds

\* Who waits for whom: t cannot go on before a transaction in D ends.
NextUpdates(t) == NextRows(t, ToUpdate(t))
WaitsForInventory(t, D) ==
    /\ NextUpdates(t) # {}
    /\ \A row \in NextUpdates(t) : \E u \in D \ {t} : HoldsCell(u, Cell(row))
WaitsForHold(t, D) ==
    /\ plan[t] # {}
    /\ \A row \in plan[t] : \E u \in D \ {t} : row \in claimed[u]
WaitsToSeed(s, D) ==
    /\ s \in Seeders /\ pc[s] = "upsert" /\ listed[s] < Len(SeedList)
    /\ \E u \in D \ {s} : HoldsCell(u, NextListed(s))

\* "A total order on lock acquisition makes the cycle impossible"
\* (reservation.py:38): reserve, release and sweep never wait for each other's
\* inventory rows in a circle, of any length, whatever their baskets.
InventoryNeverDeadlocks ==
    \A D \in (SUBSET (Orders \cup Sweepers)) \ {{}} :
        \E t \in D : ~WaitsForInventory(t, D)

\* Every transaction of D waits until another one of D ends.
Deadlocked(D) ==
    \A t \in D : WaitsForInventory(t, D) \/ WaitsForHold(t, D) \/ WaitsToSeed(t, D)

\* INVENTORY lists its rows in the order reserve_stock locks them.
SeedInOrder ==
    \A i, j \in 1..Len(SeedList) : i < j => Position[SeedList[i]] < Position[SeedList[j]]

\* The two deadlocks there are: a re-seed whose list is not in lock order, and
\* claim UPDATEs that visit the rows of a sweep in different orders.  Whoever
\* is in one of the second kind is still claiming, a sweeper among them, and
\* has no inventory row: the sorted loops play no part in it and no checkout
\* outside it waits for its victim's inventory rows.
OnlyClaimsDeadlock ==
    \A D \in (SUBSET Txs) \ {{}} : Deadlocked(D) =>
        \/ D \cap Seeders # {} /\ ~SeedInOrder
        \/ /\ D \cap Sweepers # {}
           /\ \A t \in D : plan[t] # {} /\ applied[t] = {}

-----------------------------------------------------------------------------
(* What comments of the code promise and the code does not do *)

\* reservation.py:45-46: "Consistent ordering makes it unreachable from our own
\* paths", it being a deadlock.
NoDeadlock == \A D \in (SUBSET Txs) \ {{}} : ~Deadlocked(D)
=============================================================================
