----------------------------- MODULE OrderState -----------------------------
(***************************************************************************)
(* The order state machine of app/domain/order_state.py: which changes of  *)
(* orders.status are legal.  Every change in the code goes through         *)
(* OrderRepository.transition, which consults this table.                  *)
(***************************************************************************)

OrderStatus ==
    {"pending", "reserved", "paid", "confirmed", "payment_failed", "cancelled"}

ALLOWED ==
    { <<"pending", "reserved">>,
      <<"pending", "cancelled">>,
      <<"reserved", "paid">>,
      <<"reserved", "payment_failed">>,
      <<"reserved", "cancelled">>,
      <<"paid", "confirmed">> }

TERMINAL == {"confirmed", "payment_failed", "cancelled"}

is_allowed(from_status, to_status) == <<from_status, to_status>> \in ALLOWED
=============================================================================
