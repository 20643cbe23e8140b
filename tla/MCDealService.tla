--------------------------- MODULE MCDealService ---------------------------
(***************************************************************************)
(* DealService with small sets of requests.                                *)
(***************************************************************************)
EXTENDS DealService, TLC

FullRequest ==
  [operations |-> Operations, allowed |-> Suppliers, inScope |-> TRUE,
   currencyMatches |-> TRUE]

\* Everything permitted.
GoodRequests == {FullRequest}

\* Mandates that stop a deal at each of its gates: the need is out of scope;
\* only one supplier is allowed; no purchase may be made; the payment may not
\* be signed.
GatedRequests ==
  {FullRequest,
   [FullRequest EXCEPT !.inScope = FALSE],
   [FullRequest EXCEPT !.currencyMatches = FALSE],
   [FullRequest EXCEPT !.operations = @ \ {"edo_action"}]}
  \cup {[FullRequest EXCEPT !.allowed = {s}] : s \in Suppliers}

Symmetry == Permutations(Callers) \cup Permutations(Suppliers)
============================================================================
