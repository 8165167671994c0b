-------------------------- MODULE OncePerKeyProofs --------------------------
(***************************************************************************)
(* Proofs about OncePerKey, for any requests, keys and bodies: its actions *)
(* are enough for one charge and one story per key.  What Checkout does is *)
(* a behaviour of OncePerKey, so a client may reason from its few actions  *)
(* alone.                                                                  *)
(***************************************************************************)
EXTENDS OncePerKey, TLAPS

\* The charge goes with the stage of its order.
MoneyFollowsStage ==
    \A r \in Requests :
        /\ money[r] # None => stage[r] # "none"
        /\ stage[r] = "sold" => money[r] = "succeeded"
        /\ stage[r] = "declined" => money[r] = "declined"

\* Two orders of a key are never open or sold together.
OneLiveAKey ==
    \A r, q \in Requests :
        /\ KeyOf[r] = KeyOf[q]
        /\ stage[r] \in {"open", "sold"} /\ stage[q] \in {"open", "sold"}
        => r = q

\* What was told was so, and stays so.
ToldIsTrue ==
    \A r \in Requests :
        /\ TellsOf(r, "order") =>
               /\ told[r].order \in Requests /\ KeyOf[told[r].order] = KeyOf[r]
               /\ stage[told[r].order] = "sold"
        /\ TellsOf(r, "declined") => stage[r] = "declined"

OnceInv == TypeOK /\ MoneyFollowsStage /\ OneLiveAKey /\ ToldIsTrue

-----------------------------------------------------------------------------
LEMMA OnceInit == OnceConstants /\ Init => OnceInv
BY DEF OnceConstants, Init, OnceInv, TypeOK, MoneyFollowsStage, OneLiveAKey, ToldIsTrue, TellsOf, Stage

\* Whoever is told is told once, and the others hear nothing.
LEMMA ToldEffect ==
    ASSUME TypeOK, NEW r \in Requests, NEW kind, NEW order, Told(r, kind, order)
    PROVE  /\ told'[r] = [kind |-> kind, order |-> order]
           /\ \A q \in Requests \ {r} : told'[q] = told[q]
           /\ DOMAIN told' = Requests
BY DEF Told, TypeOK

\* A step that tells r of its order, and moves no order back.
LEMMA ToldFrame ==
    ASSUME TypeOK, ToldIsTrue, NEW r \in Requests, NEW kind, NEW order,
           Told(r, kind, order),
           kind = "order" =>
               /\ order \in Requests /\ KeyOf[order] = KeyOf[r]
               /\ stage'[order] = "sold",
           kind = "declined" => stage'[r] = "declined",
           \A q \in Requests : stage[q] \in {"sold", "declined"} => stage'[q] = stage[q]
    PROVE  ToldIsTrue'
<1>1. /\ told'[r] = [kind |-> kind, order |-> order]
      /\ \A q \in Requests \ {r} : told'[q] = told[q]
    BY ToldEffect
<1> SUFFICES ASSUME NEW q \in Requests
             PROVE  /\ TellsOf(q, "order")' =>
                           /\ told'[q].order \in Requests
                           /\ KeyOf[told'[q].order] = KeyOf[q]
                           /\ stage'[told'[q].order] = "sold"
                    /\ TellsOf(q, "declined")' => stage'[q] = "declined"
    BY DEF ToldIsTrue
<1>2. CASE q = r
    BY <1>1, <1>2 DEF TellsOf
<1>3. CASE q # r
    BY <1>1, <1>3 DEF TellsOf, ToldIsTrue
<1> QED  BY <1>2, <1>3

LEMMA OnceNext == OnceConstants /\ OnceInv /\ [Next]_vars => OnceInv'
<1> SUFFICES ASSUME OnceConstants, OnceInv, [Next]_vars PROVE OnceInv'
    OBVIOUS
<1> USE DEF OnceConstants, OnceInv
<1>1. ASSUME NEW r \in Requests, Open(r) PROVE OnceInv'
    <2>1. /\ stage[r] = "none" /\ stage' = [stage EXCEPT ![r] = "open"]
          /\ UNCHANGED <<money, told>>
          /\ \A q \in Requests \ {r} :
                 KeyOf[q] = KeyOf[r] => stage[q] \in {"none", "declined"}
        BY <1>1 DEF Open, Blocking, Rivals
    <2>2. TypeOK'
        BY <1>1 DEF Open, TypeOK, Stage
    <2>3. MoneyFollowsStage'
        BY <2>1 DEF MoneyFollowsStage, TypeOK
    <2>4. OneLiveAKey'
        BY <2>1 DEF OneLiveAKey, TypeOK
    <2>5. ToldIsTrue'
        BY <2>1 DEF ToldIsTrue, TellsOf, TypeOK
    <2> QED  BY <2>2, <2>3, <2>4, <2>5
<1>2. ASSUME NEW r \in Requests, NEW outcome \in {"succeeded", "declined", "unknown"},
             Charge(r, outcome)
      PROVE  OnceInv'
    <2>1. /\ stage[r] = "open" /\ money' = [money EXCEPT ![r] = outcome]
          /\ UNCHANGED <<bound, stage, told>>
        BY <1>2 DEF Charge
    <2> QED  BY <2>1 DEF TypeOK, MoneyFollowsStage, OneLiveAKey, ToldIsTrue, TellsOf
<1>3. ASSUME NEW r \in Requests, Sell(r) \/ Decline(r) PROVE OnceInv'
    <2>1. PICK decision \in {"sold", "declined"} :
              /\ stage[r] = "open" /\ stage' = [stage EXCEPT ![r] = decision]
              /\ money[r] = IF decision = "sold" THEN "succeeded" ELSE "declined"
              /\ \E kind, order :
                     /\ Told(r, kind, order)
                     /\ kind = "order" => decision = "sold" /\ order = r
                     /\ kind = "declined" => decision = "declined"
              /\ UNCHANGED <<bound, money>>
        BY <1>3 DEF Sell, Decline, Hears
    <2>2. TypeOK'
        BY <2>1, ToldEffect DEF TypeOK, Stage
    <2>3. MoneyFollowsStage' /\ OneLiveAKey'
        BY <2>1 DEF MoneyFollowsStage, OneLiveAKey, TypeOK
    <2>4. stage'[r] = decision /\ \A q \in Requests \ {r} : stage'[q] = stage[q]
        BY <2>1 DEF TypeOK
    <2>5. ToldIsTrue'
        BY <2>1, <2>4, ToldFrame
    <2> QED  BY <2>2, <2>3, <2>5
<1>4. ASSUME NEW r \in Requests, LeaveOpen(r) \/ Replay(r) \/ Refuse(r) \/ Fail(r)
      PROVE  OnceInv'
    <2>1. /\ UNCHANGED <<bound, stage, money>>
          /\ \E kind, order :
                 /\ Told(r, kind, order)
                 /\ kind = "order" =>
                        /\ order \in Requests /\ KeyOf[order] = KeyOf[r]
                        /\ stage[order] = "sold"
                 /\ kind # "declined"
        BY <1>4 DEF LeaveOpen, Replay, Refuse, Fail, Sold, Rivals
    <2>2. TypeOK'
        BY <2>1, ToldEffect DEF TypeOK
    <2>3. MoneyFollowsStage' /\ OneLiveAKey'
        BY <2>1 DEF MoneyFollowsStage, OneLiveAKey
    <2>4. ToldIsTrue'
        BY <2>1, ToldFrame
    <2> QED  BY <2>2, <2>3, <2>4
<1>5. ASSUME UNCHANGED vars PROVE OnceInv'
    BY <1>5 DEF vars, TypeOK, MoneyFollowsStage, OneLiveAKey, ToldIsTrue, TellsOf
<1> QED  BY <1>1, <1>2, <1>3, <1>4, <1>5 DEF Next

LEMMA OnceAlways == ASSUME OnceConstants PROVE Spec => []OnceInv
<1> QED  BY OnceInit, OnceNext, PTL DEF Spec

-----------------------------------------------------------------------------
(* What it gives *)

\* A key is charged once, although declined attempts make room for others.
THEOREM KeyPromiseOneCharge == ASSUME OnceConstants PROVE Spec => []OneChargeAKey
<1>1. OnceInv => OneChargeAKey
    BY DEF OnceConstants, OnceInv, TypeOK, Stage, MoneyFollowsStage, OneLiveAKey, OneChargeAKey
<1> QED  BY <1>1, OnceAlways, PTL

\* All who are told of an order under a key are told of the one that was paid,
\* and whoever is told of a decline keeps the money.
THEOREM KeyPromiseOneStory == ASSUME OnceConstants PROVE Spec => []OneStoryAKey
<1>1. ASSUME OnceInv PROVE OneStoryAKey
    <2>1. \A q \in Requests : TellsOf(q, "order") =>
              /\ told[q].order \in Requests /\ KeyOf[told[q].order] = KeyOf[q]
              /\ stage[told[q].order] = "sold"
        BY <1>1 DEF OnceInv, ToldIsTrue
    <2>2. ASSUME NEW r \in Requests, TellsOf(r, "order"),
                 NEW q \in Requests, KeyOf[q] = KeyOf[r], TellsOf(q, "order")
          PROVE  told[q].order = told[r].order
        BY <1>1, <2>1, <2>2 DEF OnceInv, OneLiveAKey
    <2>3. \A r \in Requests : TellsOf(r, "order") => money[told[r].order] = "succeeded"
        BY <1>1, <2>1 DEF OnceInv, MoneyFollowsStage
    <2>4. \A r \in Requests : TellsOf(r, "declined") => money[r] = "declined"
        BY <1>1 DEF OnceInv, ToldIsTrue, MoneyFollowsStage
    <2> QED  BY <2>1, <2>2, <2>3, <2>4, Zenon DEF OneStoryAKey
<1> QED  BY <1>1, OnceAlways, PTL
=============================================================================
