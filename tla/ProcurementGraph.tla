-------------------------- MODULE ProcurementGraph --------------------------
(***************************************************************************)
(* The nodes and edges of the procurement workflow (workflow/graph.py) as  *)
(* operators on the graph state, which is a deal record: its row and its   *)
(* events.  Each node returns the next state; each router the next node.   *)
(* Choices that come from outside (which suppliers answer, which quotes    *)
(* pass the hard constraints, which of them scores best) are parameters.   *)
(***************************************************************************)
EXTENDS DealStore, FiniteSets

CONSTANT MinimumQuotes

ASSUME GraphAssumption == MinimumQuotes \in Nat

\* The nodes in the order of the graph.
Nodes == {"validate", "discover", "request_quotes", "rank", "explain", "finalize"}

\* Each node returns its updates and appends its events.
After(state, event, row) == [row |-> row, events |-> Append(state.events, event)]

ValidateMandate(state, live) ==
  LET r == state.row.request
      valid == live /\ "send_rfq" \in r.operations /\ r.inScope
  IN After(state, "mandate_validated", [state.row EXCEPT !.errors = @ \/ ~valid])

\* registry.discover: the registered suppliers of the category the mandate allows.
DiscoverSuppliers(state) ==
  LET found == state.row.request.allowed
  IN After(state, "suppliers_discovered",
       [state.row EXCEPT !.supplier_ids = found,
                         !.errors = @ \/ Cardinality(found) < MinimumQuotes])

\* gather(create_quote ...): the suppliers in `answered' sent a quote, the
\* others declined or raised.
RequestQuotes(state, answered, life) ==
  After(state, "quotes_collected",
    [state.row EXCEPT !.quotes = [supplier : answered, life : {life}],
                      !.errors = @ \/ Cardinality(answered) < MinimumQuotes])

\* compare_quotes: the best of the eligible quotes is recommended, if any.
Rank(state, eligible, best) ==
  After(state, "quotes_ranked",
    [state.row EXCEPT !.comparison = [eligible |-> eligible, recommended |-> best],
                      !.errors = @ \/ best = None])

\* The quotes compare_quotes may recommend.
Recommendable(eligible) == IF eligible = {} THEN {None} ELSE eligible

Explain(state) == After(state, "comparison_explained", state.row)

\* Bug: the workflow creates the order by itself.
FinalizeWithOrder(state) ==
  After(state, "workflow_completed",
    [state.row EXCEPT !.status = IF state.row.errors THEN "failed" ELSE "order_created"])

Finalize(state) ==
  LET successful ==
        /\ ~state.row.errors
        /\ state.row.comparison # None
        /\ state.row.comparison.recommended # None
  IN After(state, "workflow_completed",
       [state.row EXCEPT !.status = IF successful THEN "awaiting_approval" ELSE "failed"])

RouteAfterValidation(state) == IF state.row.errors THEN "finalize" ELSE "discover"

RouteAfterDiscovery(state) == IF state.row.errors THEN "finalize" ELSE "request_quotes"

RouteAfterQuotes(state) ==
  IF state.row.errors \/ state.row.quotes = {} THEN "finalize" ELSE "rank"

RouteAfterRanking(state) ==
  IF state.row.comparison # None /\ state.row.comparison.recommended # None
  THEN "explain" ELSE "finalize"
=============================================================================
