--------------------------- MODULE MCReservation ---------------------------
(***************************************************************************)
(* Instances of Reservation for TLC: two orders of the same two products,  *)
(* which are listed in INVENTORY the other way round than they sort.       *)
(***************************************************************************)
EXTENDS Reservation, TLC

CONSTANTS o1, o2, s1, s2, seed, w1, p1, p2

AtW1(q1, q2) == w1 :> (p1 :> q1 @@ p2 :> q2)

\* o1 takes one of each, o2 one p1 and two p2: there is stock for both, with
\* one unit of p1 that the seed reserved.
TwoNeed == o1 :> (p1 :> 1 @@ p2 :> 1) @@ o2 :> (p1 :> 1 @@ p2 :> 2)
OneNeed == o1 :> (p1 :> 1 @@ p2 :> 1)
OnHandFirst == AtW1(3, 3)
ReservedFirst == AtW1(1, 0)
\* The list deployed later has one p2 less, which may not fit any more.
CountLater == [s \in Seeders |-> AtW1(3, 2)]

ById == <<w1, p1>> :> 1 @@ <<w1, p2>> :> 2
BySku == <<<<w1, p2>>, <<w1, p1>>>>
=============================================================================
