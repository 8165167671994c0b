----------------------------- MODULE OncePerKey -----------------------------
(***************************************************************************)
(* What an Idempotency-Key promises, with no transaction, stock, payment   *)
(* row or crash in sight:                                                  *)
(*                                                                         *)
(*   - a key stands for one body and for one order at a time; only a       *)
(*     certain decline frees it for another attempt;                       *)
(*   - an order is sold only if its charge took the money, and declined    *)
(*     only if it certainly did not;                                       *)
(*   - once an order is sold, whoever repeats the request is told of that  *)
(*     same order.                                                         *)
(*                                                                         *)
(* Checkout implements it; see its instance of this module.                *)
(***************************************************************************)
CONSTANTS Requests, Keys, Bodies, KeyOf, BodyOf, None

\* What a module that instances this one must show of its constants.
OnceConstants ==
    /\ KeyOf \in [Requests -> Keys] /\ BodyOf \in [Requests -> Bodies]
    /\ None \notin {"succeeded", "declined", "unknown"}

VARIABLES
    bound,      \* the body a key stands for
    stage,      \* of the order a request created
    money,      \* what the provider did with that order's charge
    told        \* what the client of a request was told

vars == <<bound, stage, money, told>>

Stage == {"none", "open", "sold", "declined"}
Rivals(r) == {q \in Requests \ {r} : KeyOf[q] = KeyOf[r]}

\* Told of an order, or of none.
Told(r, kind, order) ==
    told[r] = None /\ told' = [told EXCEPT ![r] = [kind |-> kind, order |-> order]]

\* ... or of a failure, which says nothing.
Hears(r, kind, order) == Told(r, kind, order) \/ Told(r, "failed", None)

Init ==
    /\ bound = [k \in Keys |-> None]
    /\ stage = [r \in Requests |-> "none"]
    /\ money = [r \in Requests |-> None]
    /\ told = [r \in Requests |-> None]

Blocking(r) == {q \in Rivals(r) : stage[q] \notin {"none", "declined"}}
Open(r) ==
    /\ told[r] = None /\ stage[r] = "none"
    /\ bound[KeyOf[r]] \in {None, BodyOf[r]}
    /\ Blocking(r) = {}
    /\ bound' = [bound EXCEPT ![KeyOf[r]] = BodyOf[r]]
    /\ stage' = [stage EXCEPT ![r] = "open"]
    /\ UNCHANGED <<money, told>>

\* A charge is asked for; one left unknown may be decided later.
Charge(r, outcome) ==
    /\ stage[r] = "open" /\ money[r] \in {None, "unknown"}
    /\ money' = [money EXCEPT ![r] = outcome]
    /\ UNCHANGED <<bound, stage, told>>

Sell(r) ==
    /\ stage[r] = "open" /\ money[r] = "succeeded"
    /\ stage' = [stage EXCEPT ![r] = "sold"]
    /\ Hears(r, "order", r)
    /\ UNCHANGED <<bound, money>>

Decline(r) ==
    /\ stage[r] = "open" /\ money[r] = "declined"
    /\ stage' = [stage EXCEPT ![r] = "declined"]
    /\ Hears(r, "declined", None)
    /\ UNCHANGED <<bound, money>>

LeaveOpen(r) ==
    /\ stage[r] = "open" /\ money[r] # None
    /\ Told(r, "unresolved", None)
    /\ UNCHANGED <<bound, stage, money>>

Sold(r) == {q \in Rivals(r) : stage[q] = "sold"}
Replay(r) ==
    /\ stage[r] = "none" /\ bound[KeyOf[r]] = BodyOf[r]
    /\ \E q \in Sold(r) : Told(r, "order", q)
    /\ UNCHANGED <<bound, stage, money>>

Refuse(r) ==
    /\ stage[r] = "none"
    /\ Told(r, "refused", None)
    /\ UNCHANGED <<bound, stage, money>>

\* Something broke: whether there is an order, and what became of its charge,
\* is left open.
Fail(r) ==
    /\ stage[r] \in {"none", "open"}
    /\ Told(r, "failed", None)
    /\ UNCHANGED <<bound, stage, money>>

Next ==
    \E r \in Requests :
        \/ Open(r) \/ Sell(r) \/ Decline(r) \/ LeaveOpen(r) \/ Replay(r) \/ Refuse(r)
        \/ Fail(r)
        \/ \E outcome \in {"succeeded", "declined", "unknown"} : Charge(r, outcome)

Spec == Init /\ [][Next]_vars

-----------------------------------------------------------------------------
(* Properties *)

TypeOK ==
    /\ bound \in [Keys -> Bodies \cup {None}]
    /\ stage \in [Requests -> Stage]
    /\ money \in [Requests -> {"succeeded", "declined", "unknown", None}]
    /\ DOMAIN told = Requests

\* Of all the requests under a key one at most took the money or may yet take
\* it, also when a declined attempt made room for another.
OneChargeAKey ==
    \A r, q \in Requests :
        /\ KeyOf[r] = KeyOf[q]
        /\ money[r] \in {"succeeded", "unknown"} /\ money[q] \in {"succeeded", "unknown"}
        => r = q

\* Everyone who is told of an order under a key is told of the same one, which
\* was paid; and nobody whose charge was taken is told that it was declined.
TellsOf(r, kind) == told[r] # None /\ told[r].kind = kind
OneStoryAKey ==
    \A r \in Requests :
        /\ TellsOf(r, "order") =>
               /\ told[r].order \in Requests /\ KeyOf[told[r].order] = KeyOf[r]
               /\ money[told[r].order] = "succeeded"
               /\ \A q \in Requests :
                      KeyOf[q] = KeyOf[r] /\ TellsOf(q, "order") =>
                          told[q].order = told[r].order
        /\ TellsOf(r, "declined") => money[r] = "declined"
=============================================================================
