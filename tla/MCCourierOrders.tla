--------------------------- MODULE MCCourierOrders ---------------------------
(***************************************************************************)
(* TLC instances of CourierOrders.  Requests and couriers are              *)
(* interchangeable in every action and safety property.                    *)
(***************************************************************************)
EXTENDS CourierOrders, TLC

Symmetry == Permutations(Request) \cup Permutations(Courier)
=============================================================================
