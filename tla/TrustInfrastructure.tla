------------------------ MODULE TrustInfrastructure ------------------------
(***************************************************************************)
(* TrustedInfrastructureService: the controls an approved purchase passes  *)
(* (mandate policies, anchor, oracle, kill switch, payment draft).  The    *)
(* anchors are in the database; the two result caches, keyed by the deal   *)
(* alone, are in the memory of the A1 process.                             *)
(***************************************************************************)
EXTENDS DealStore, HashChain

VARIABLES
  ledger,      \* per deal: its rows of ledger_anchors
  purchases,   \* _purchase_results: per deal, the artifacts of its purchase
  payments,    \* _payment_results: per deal, its payment draft
  killSwitch   \* security.financial_kill_switch of the running process

trustVars == <<ledger, purchases, payments, killSwitch>>

Artifacts == [intent : Quote, anchor : Nat, draft : PaymentDraft]

ASSUME TrustAssumption == None \notin Artifacts

TrustTypeOK ==
  /\ ledger \in [Deals -> Seq(AnchorRow(Deals, Quote))]
  /\ purchases \in [Deals -> Artifacts \cup {None}]
  /\ payments \in [Deals -> PaymentDraft \cup {None}]
  /\ killSwitch \in BOOLEAN

NoResults == [d \in Deals |-> None]

TrustInit ==
  /\ ledger = [d \in Deals |-> << >>]
  /\ purchases = NoResults
  /\ payments = NoResults

\* check_mandate for each of the four purchase operations; `live': the
\* mandate has not expired.
PoliciesAllow(request, live) ==
  /\ live
  /\ PurchaseOperations \subseteq request.operations
  /\ request.currencyMatches
  /\ request.inScope

\* anchor.append: the purchase intent for quote q is hashed into the chain.
\* AnchorLedger shows the append of one process to be atomic.
AppendAnchor(d, q) ==
  /\ ledger' = [ledger EXCEPT ![d] = Append(@, NextAnchor(d, @, q))]
  /\ UNCHANGED <<purchases, payments, killSwitch>>

\* The checks of the oracle that can fail: the amount, the currency and the
\* recipient were established by the ranking and the static registry.
OracleVerified(d, q, number) ==
  /\ Verifies(d, ledger[d])
  /\ ledger[d][number].payload_hash = q

\* The draft created or found in the cache, and the result remembered.
DraftFor(d, q, life) ==
  IF payments[d] # None THEN payments[d] ELSE [id |-> life, quote |-> q, signed |-> FALSE]

\* Bug: the draft itself is not remembered.
CreateUncachedDraft(d, q, number, life) ==
  /\ purchases' = [purchases EXCEPT ![d] =
       [intent |-> q, anchor |-> number, draft |-> DraftFor(d, q, life)]]
  /\ UNCHANGED <<ledger, payments, killSwitch>>

CreatePaymentDraft(d, q, number, life) ==
  LET draft == DraftFor(d, q, life)
  IN /\ payments' = [payments EXCEPT ![d] = draft]
     /\ purchases' = [purchases EXCEPT ![d] =
          [intent |-> q, anchor |-> number, draft |-> draft]]
     /\ UNCHANGED <<ledger, killSwitch>>
============================================================================
