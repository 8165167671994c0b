----------------------------- MODULE MCCheckout -----------------------------
(***************************************************************************)
(* Instances of Checkout for TLC.  Each names its requests, what they      *)
(* carry, and the stock they compete for.                                  *)
(***************************************************************************)
EXTENDS Checkout, TLC

CONSTANTS r1, r2, r3, r4, r5, k1, k2, k3, k4, b1, b2, b3, b4, b5, w1, w2, p1, p2, p3

\* Quantities of p1 and p2; every other product is not ordered.
Line(q1, q2) ==
    [p \in Products |-> IF p = p1 THEN q1 ELSE IF p = p2 THEN q2 ELSE 0]
AtBoth(q1, q2) == [w \in Warehouses |-> Line(q1, q2)]
W1First == [b \in Bodies |-> [w \in Warehouses |-> IF w = w1 THEN 1 ELSE 2]]
Unit == [p \in Catalog |-> 1]
Euro == [p \in Catalog |-> "EUR"]

\* One key: three requests of one body, one of another; two units of p1.
RetriesKeyOf == [r \in Requests |-> k1]
RetriesBodyOf == [r \in Requests |-> IF r = r4 THEN b2 ELSE b1]
RetriesBasket == [b \in Bodies |-> Line(1, 0)]
RetriesOnHand == AtBoth(2, 0)
RetriesSeed == AtBoth(0, 0)
\* r1, r2 and r3 carry the same key and the same body.
RetriesSymmetry == Permutations({r1, r2, r3})

\* Two keys and two warehouses: r1 and its retry r2 against r3.  The nearer w1
\* has one p1 to spare (the seed reserved another); w2 cannot serve r3 at all.
StockKeyOf == [r \in Requests |-> IF r = r3 THEN k2 ELSE k1]
StockBodyOf == [r \in Requests |-> IF r = r3 THEN b2 ELSE b1]
StockBasket == b1 :> Line(1, 1) @@ b2 :> Line(1, 2)
StockOnHand == w1 :> Line(2, 2) @@ w2 :> Line(1, 1)
StockSeed == w1 :> Line(1, 0) @@ w2 :> Line(0, 0)

\* Bodies that create_in_transaction refuses: b1 names p3, which is no
\* product, b2 mixes the currencies of p1 and p2, b3 has no customer, b4 is
\* free of charge.  b5 is a proper order, under the key of the mixed one.
RefusedKeyOf == r1 :> k1 @@ r2 :> k2 @@ r3 :> k3 @@ r4 :> k4 @@ r5 :> k2
RefusedBodyOf == r1 :> b1 @@ r2 :> b2 @@ r3 :> b3 @@ r4 :> b4 @@ r5 :> b5
RefusedBasket ==
    b1 :> [p \in Products |-> IF p = p2 THEN 0 ELSE 1] @@ b2 :> Line(1, 1)
    @@ b3 :> Line(0, 1) @@ b4 :> Line(1, 0) @@ b5 :> Line(0, 1)
RefusedOnHand == AtBoth(2, 2)
RefusedSeed == AtBoth(0, 0)
RefusedPriceOf == p1 :> 0 @@ p2 :> 1
RefusedCurrencyOf == p1 :> "EUR" @@ p2 :> "USD"
=============================================================================
