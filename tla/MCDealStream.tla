---------------------------- MODULE MCDealStream ----------------------------
(***************************************************************************)
(* DealStream with a request that permits everything.  TLC evaluates the   *)
(* assumptions of MCRanking with it: Ranking has no steps of its own.      *)
(***************************************************************************)
EXTENDS DealStream, MCRanking

FullRequest ==
  [operations |-> Operations, allowed |-> Suppliers, inScope |-> TRUE,
   currencyMatches |-> TRUE]

GoodRequests == {FullRequest}
=============================================================================
