------------------------- MODULE MCSupplierExchange -------------------------
(***************************************************************************)
(* SupplierExchange with a supplier that sells the product and one that    *)
(* does not.                                                               *)
(***************************************************************************)
EXTENDS SupplierExchange

CONSTANTS s1, s2
=============================================================================
