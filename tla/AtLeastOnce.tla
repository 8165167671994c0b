---------------------------- MODULE AtLeastOnce ----------------------------
(***************************************************************************)
(* What the outbox promises, with no relay, batch, lock or rollback in     *)
(* sight: of everything that happened copies are delivered, one at least   *)
(* before it is retired, and of nothing else.                              *)
(*                                                                         *)
(* OutboxRelay implements it; see its instance of this module.             *)
(***************************************************************************)
EXTENDS Naturals

CONSTANT Events

VARIABLES
    happened,   \* events whose state change has committed
    copies,     \* how often the broker was given an event
    retired     \* events that need no delivery any more

vars == <<happened, copies, retired>>

Init ==
    /\ happened = {}
    /\ copies = [e \in Events |-> 0]
    /\ retired = {}

Happen(e) ==
    /\ e \notin happened
    /\ happened' = happened \cup {e}
    /\ UNCHANGED <<copies, retired>>

Deliver(e) ==
    /\ e \in happened
    /\ copies' = [copies EXCEPT ![e] = @ + 1]
    /\ UNCHANGED <<happened, retired>>

Retire(S) ==
    /\ \A e \in S : e \in happened \ retired /\ copies[e] > 0
    /\ retired' = retired \cup S
    /\ UNCHANGED <<happened, copies>>

Next ==
    \/ \E e \in Events : Happen(e) \/ Deliver(e)
    \/ \E S \in SUBSET Events : Retire(S)

Spec == Init /\ [][Next]_vars
=============================================================================
