---------------------------- MODULE MCTaxiOrders ----------------------------
(***************************************************************************)
(* TLC instances of TaxiOrders.  Requests and drivers are interchangeable  *)
(* in every action and property, so permuting them is a sound reduction    *)
(* for the runs that check no liveness.                                    *)
(***************************************************************************)
EXTENDS TaxiOrders, TLC

RequestSymmetry == Permutations(Request)
Symmetry == RequestSymmetry \cup Permutations(Driver)
=============================================================================
