------------------------------ MODULE MCInvoices ------------------------------
(***************************************************************************)
(* TLC instances of Invoices.  Callbacks are interchangeable, and so are   *)
(* invoices and the targets.                                               *)
(***************************************************************************)
EXTENDS Invoices, TLC

Symmetry ==
  Permutations(Delivery) \cup Permutations(Invoice) \cup Permutations(Target)
=============================================================================
