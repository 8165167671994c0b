---------------------------- MODULE MCSelection ----------------------------
(***************************************************************************)
(* An instance of WarehouseSelection for TLC, after the seed: the nearest  *)
(* warehouse does not stock everything, two that do are equally far, and   *)
(* the one at the door is closed.  One product is no row of products, and  *)
(* a quantity may be one above what the INTEGER of the instance holds.     *)
(***************************************************************************)
EXTENDS WarehouseSelection, TLC

CONSTANTS near, far, twin, closed, p1, p2, ghost

Metres == near :> 1 @@ far :> 2 @@ twin :> 2 @@ closed :> 0
Codes == near :> 4 @@ far :> 1 @@ twin :> 2 @@ closed :> 3
Rows == {<<near, p1>>, <<far, p1>>, <<far, p2>>, <<twin, p1>>, <<twin, p2>>, <<closed, p1>>}
=============================================================================
