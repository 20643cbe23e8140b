--------------------------- MODULE MCAnchorLedger ---------------------------
(***************************************************************************)
(* AnchorLedger on two processes, one of them with two coroutines.         *)
(***************************************************************************)
EXTENDS AnchorLedger, TLC

CONSTANTS p1, p2, w1, w2, w3

MCHome == (w1 :> p1) @@ (w2 :> p1) @@ (w3 :> p2)

\* Deals, payloads and the two writers of p1 are interchangeable.
MCSymmetry ==
  Permutations(Deals) \cup Permutations(Payloads) \cup Permutations({w1, w2})
=============================================================================
