----------------------------- MODULE DealStore -----------------------------
(***************************************************************************)
(* The SQL deal store: the tables deals, deal_events and outbox_messages,  *)
(* and the records they hold.  Every operation below is one transaction.   *)
(*                                                                         *)
(* A quote is named by the supplier that sent it and the life (the run of  *)
(* the A1 process) in which it was collected, since every run of the       *)
(* workflow collects new quotes with new ids.  An approval snapshot is     *)
(* modelled by the quote its SHA-256 hash binds, and so is everything else *)
(* that copies the terms of one quote.                                     *)
(***************************************************************************)
EXTENDS Naturals, Sequences

CONSTANTS
  Deals,
  Suppliers,
  Requests,   \* the create requests clients send: need and mandate
  MaxLives,   \* bound: runs of the A1 process
  None        \* an empty optional field

Lives == 1 .. MaxLives

Quote == [supplier : Suppliers, life : Lives]

\* The mandate actions the program asks for.
PurchaseOperations ==
  {"create_purchase_intent", "anchor_intent", "oracle_process", "create_payment_draft"}

Operations == {"send_rfq", "final_offer_acceptance", "edo_action"} \cup PurchaseOperations

Request ==
  [operations      : SUBSET Operations,  \* allowed_actions less forbidden_actions
   allowed         : SUBSET Suppliers,   \* allowed_supplier_ids
   inScope         : BOOLEAN,            \* category and limits within the mandate
   currencyMatches : BOOLEAN]            \* need and mandate in one currency

ASSUME StoreAssumption ==
  /\ Requests \subseteq Request
  /\ MaxLives \in Nat \ {0}

-----------------------------------------------------------------------------
(* The records.                                                            *)

HumanDecision == {"approve", "reject", "request_changes"}

Status ==
  {"absent", "draft", "awaiting_approval", "failed", "rejected",
   "changes_requested", "payment_signature_required", "completed"}

\* eligible: the quotes that passed the hard constraints of the ranking.
Comparison == [eligible : SUBSET Quote, recommended : Quote \cup {None}]

\* A payment draft is one per process life, so the life names its id and the
\* id of the order created with it.
PaymentDraft == [id : Lives, quote : Quote, signed : BOOLEAN]

Decision == [decision : HumanDecision, snapshot : Quote]

Row ==
  [status            : Status,
   request           : Requests \cup {None},
   supplier_ids      : SUBSET Suppliers,
   quotes            : SUBSET Quote,
   comparison        : Comparison \cup {None},
   errors            : BOOLEAN,             \* the list of errors is not empty
   approval_snapshot : Quote \cup {None},
   selected_quote    : Quote \cup {None},
   payment_draft     : PaymentDraft \cup {None},
   purchase_intent   : Quote \cup {None},
   ledger_anchor     : Nat,                 \* its sequence number, or 0
   human_decision    : Decision \cup {None}]

\* The events a workflow node records are one; so are those of one kind that
\* a handler records in a row (a rejection per supplier, an update per stage
\* of the delivery, a document each).
Event ==
  {"deal_created", "mandate_validated", "suppliers_discovered", "quotes_collected",
   "quotes_ranked", "comparison_explained", "workflow_completed", "workflow_failed",
   "quote_approved", "purchase_intent_anchored", "oracle_verified",
   "payment_draft_created", "human_reject", "human_request_changes",
   "payment_draft_signed", "approval_snapshot_created", "award_sent",
   "supplier_rejected", "order_confirmed", "fulfillment_updated",
   "document_registered", "deal_completed"}

ASSUME NoneAssumption ==
  None \notin Deals \cup Suppliers \cup Requests \cup Quote \cup Comparison
                \cup PaymentDraft \cup Decision

DealRecord == [row : Row, events : Seq(Event)]

EmptyRow(status, request) ==
  [status |-> status, request |-> request, supplier_ids |-> {}, quotes |-> {},
   comparison |-> None, errors |-> FALSE, approval_snapshot |-> None,
   selected_quote |-> None, payment_draft |-> None, purchase_intent |-> None,
   ledger_anchor |-> 0, human_decision |-> None]

NoRecord == [row |-> EmptyRow("absent", None), events |-> << >>]

\* Outbox messages: their idempotency keys name the deal, the type and the
\* recipient.  Documents are registered with the EDO system.
Message ==
  [type : {"award", "rejection", "payment_draft", "document_ref"},
   to   : Suppliers \cup {"payment-adapter", "mock-edo"}]

Delivery == {"absent", "pending", "published"}

-----------------------------------------------------------------------------
VARIABLES
  deals,      \* per deal: its row, status "absent" before it is inserted
  log,        \* per deal: its rows of deal_events by sequence number
  outbox,     \* per deal: what became of each possible message
  published,  \* history: per deal, the snapshots any of its rows ever showed
  issued      \* history: per deal, the payment draft ids its rows ever showed

storeVars == <<deals, log, outbox, published, issued>>

StoreTypeOK ==
  /\ deals \in [Deals -> Row]
  /\ log \in [Deals -> Seq(Event)]
  /\ outbox \in [Deals -> [Message -> Delivery]]
  /\ published \in [Deals -> SUBSET Quote]
  /\ issued \in [Deals -> SUBSET Lives]

StoreInit ==
  /\ deals = [d \in Deals |-> NoRecord.row]
  /\ log = [d \in Deals |-> << >>]
  /\ outbox = [d \in Deals |-> [m \in Message |-> "absent"]]
  /\ published = [d \in Deals |-> {}]
  /\ issued = [d \in Deals |-> {}]

\* get: the row, with the events of the journal.
Get(d) == [row |-> deals[d], events |-> log[d]]

\* The events of a record that put adds to the journal: those at positions
\* the journal has not reached.
NewEvents(stored, events) == SubSeq(events, Len(stored) + 1, Len(events))

\* put: the row is overwritten whatever it holds by now.
Put(d, record) ==
  /\ deals' = [deals EXCEPT ![d] = record.row]
  /\ log' = [log EXCEPT ![d] = @ \o NewEvents(@, record.events)]
  /\ published' = [published EXCEPT ![d] =
       @ \cup ({record.row.approval_snapshot} \ {None})]
  /\ issued' = [issued EXCEPT ![d] =
       @ \cup (IF record.row.payment_draft = None THEN {} ELSE {record.row.payment_draft.id})]
  /\ UNCHANGED outbox

\* append_outbox: a message whose idempotency key is stored already is skipped.
AppendOutbox(d, messages) ==
  /\ outbox' = [outbox EXCEPT ![d] = [m \in Message |->
       IF m \in messages /\ @[m] = "absent" THEN "pending" ELSE @[m]]]
  /\ UNCHANGED <<deals, log, published, issued>>

\* mark_outbox_published: every pending message of the deal.
MarkOutboxPublished(d) ==
  /\ outbox' = [outbox EXCEPT ![d] = [m \in Message |->
       IF @[m] = "pending" THEN "published" ELSE @[m]]]
  /\ UNCHANGED <<deals, log, published, issued>>
============================================================================
