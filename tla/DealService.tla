----------------------------- MODULE DealService -----------------------------
(***************************************************************************)
(* The A1 buyer agent: DealService (services/deals.py) with the workflow,  *)
(* the store and the trust controls it drives.                             *)
(*                                                                         *)
(* Three kinds of actor interleave at every await:                         *)
(*   - per deal a background task, `_process', which walks the workflow    *)
(*     graph and overwrites the deal's row after every node;               *)
(*   - callers of approve, decide and sign_payment, serialised by          *)
(*     _approval_lock, which read the row, act on it and overwrite it;     *)
(*   - the operating environment: the process crashes and restarts, one    *)
(*     database transaction fails, a mandate or the quotes expire.         *)
(* The background task does not take the lock.  A step of the model is     *)
(* the code between two database transactions, together with the second    *)
(* transaction.  A request the code answers with an error changes nothing  *)
(* and is no step; in particular the guards below speak of requests from   *)
(* the approver the mandate names.                                         *)
(***************************************************************************)
EXTENDS ProcurementGraph, TrustInfrastructure

CONSTANTS
  Callers,       \* concurrent requests to approve, decide and sign
  Synchronous,   \* TRUE: clients await `create'; FALSE: they call `submit'
  HashKnowledge, \* what clients know: "shown" or "computed" snapshot hashes
  ResumeLimit,   \* drafts queued again at startup (200)
  KillSwitches,  \* the values the kill switch may have in a life
  Lapses,        \* what may expire: "mandate", "quotes"
  MaxAnchors,    \* bound: purchase intents anchored per deal
  MaxFaults      \* bound: failed database transactions

ASSUME ServiceAssumption ==
  /\ Synchronous \in BOOLEAN
  /\ HashKnowledge \in {"shown", "computed"}
  /\ ResumeLimit \in Nat
  /\ KillSwitches \subseteq BOOLEAN /\ KillSwitches # {}
  /\ Lapses \subseteq {"mandate", "quotes"}
  /\ MaxAnchors \in Nat
  /\ MaxFaults \in Nat
  /\ None \notin Callers

VARIABLES
  task,     \* per deal: its background task, pc "none" when there is none
  call,     \* per caller: the call in progress, op "none" when there is none
  lock,     \* _approval_lock: the caller that holds it, or None
  up,       \* the A1 process runs
  life,     \* the number of its current run
  faults,   \* failed transactions so far
  lapsed    \* per deal: what has expired

serviceVars == <<task, call, lock, up, life, faults, lapsed>>

vars == <<storeVars, trustVars, serviceVars>>

\* A task: the node to run next, the draft it read at its start, the graph state.
TaskPC == {"none", "scheduled", "final_put", "failed"} \cup Nodes

Task == [pc : TaskPC, draft : DealRecord, state : DealRecord]

NoTask == [pc |-> "none", draft |-> NoRecord, state |-> NoRecord]

ScheduledTask == [NoTask EXCEPT !.pc = "scheduled"]

\* A call: the deal as read under the lock, the quote the human decided on,
\* the results of the trust controls.
CallPC == {"idle", "anchor", "gatekeep", "put", "append_outbox", "mark_published"}

Call ==
  [op : HumanDecision \cup {"none", "sign"}, pc : CallPC, deal : Deals \cup {None},
   record : DealRecord, quote : Quote \cup {None}, anchor : Nat,
   artifacts : Artifacts \cup {None}]

NoCall ==
  [op |-> "none", pc |-> "idle", deal |-> None, record |-> NoRecord,
   quote |-> None, anchor |-> 0, artifacts |-> None]

TypeOK ==
  /\ StoreTypeOK
  /\ TrustTypeOK
  /\ task \in [Deals -> Task]
  /\ call \in [Callers -> Call]
  /\ lock \in Callers \cup {None}
  /\ up \in BOOLEAN
  /\ life \in Lives
  /\ faults \in 0 .. MaxFaults
  /\ lapsed \in [Deals -> SUBSET Lapses]

Init ==
  /\ StoreInit
  /\ TrustInit
  /\ killSwitch \in KillSwitches
  /\ task = [d \in Deals |-> NoTask]
  /\ call = [c \in Callers |-> NoCall]
  /\ lock = None
  /\ up = TRUE
  /\ life = 1
  /\ faults = 0
  /\ lapsed = [d \in Deals |-> {}]

Live(d) == "mandate" \notin lapsed[d]

-----------------------------------------------------------------------------
(* The background task.                                                    *)

\* submit, and the first half of create: insert the draft, schedule the task.
Submit(d, request) ==
  /\ up
  /\ deals[d].status = "absent"
  /\ Put(d, [row |-> EmptyRow("draft", request), events |-> <<"deal_created">>])
  /\ task' = [task EXCEPT ![d] = ScheduledTask]
  /\ UNCHANGED <<trustVars, call, lock, up, life, faults, lapsed>>

\* _record_from_state: a fresh record of the graph state's fields.  A snapshot
\* the draft already has is kept, else the recommended quote is previewed.
RecordFromState(draft, state) ==
  LET comparison == state.row.comparison
      preview ==
        IF draft.row.approval_snapshot # None THEN draft.row.approval_snapshot
        ELSE IF comparison # None THEN comparison.recommended ELSE None
  IN [row |-> [EmptyRow(state.row.status, draft.row.request) EXCEPT
                 !.supplier_ids = state.row.supplier_ids,
                 !.quotes = state.row.quotes,
                 !.comparison = comparison,
                 !.errors = state.row.errors,
                 !.approval_snapshot = preview],
      events |-> state.events]

\* The graph emits a state: the task stores it and goes on to `next'.
Emit(d, draft, state, next) ==
  /\ task' = [task EXCEPT ![d] = [pc |-> next, draft |-> draft, state |-> state]]
  /\ Put(d, RecordFromState(draft, state))
  /\ UNCHANGED <<trustVars, call, lock, up, life, faults>>

\* _process reads the draft; the graph emits its input first.
StartProcess(d) ==
  /\ task[d].pc = "scheduled"
  /\ Emit(d, Get(d), Get(d), "validate")
  /\ UNCHANGED lapsed

NodeStep(d, node, state, next) ==
  /\ task[d].pc = node
  /\ Emit(d, task[d].draft, state, next)
  /\ UNCHANGED lapsed

Validate(d) ==
  LET state == ValidateMandate(task[d].state, Live(d))
  IN NodeStep(d, "validate", state, RouteAfterValidation(state))

Discover(d) ==
  LET state == DiscoverSuppliers(task[d].state)
  IN NodeStep(d, "discover", state, RouteAfterDiscovery(state))

CollectQuotes(d) ==
  /\ task[d].pc = "request_quotes"
  /\ \E answered \in SUBSET task[d].state.row.supplier_ids :
       LET state == RequestQuotes(task[d].state, answered, life)
       IN Emit(d, task[d].draft, state, RouteAfterQuotes(state))
  /\ lapsed' = [lapsed EXCEPT ![d] = @ \ {"quotes"}]

\* The quotes that have not passed their date are ranked.
RankQuotes(d) ==
  \E eligible \in SUBSET (IF "quotes" \in lapsed[d] THEN {} ELSE task[d].state.row.quotes) :
    \E best \in Recommendable(eligible) :
      LET state == Rank(task[d].state, eligible, best)
      IN NodeStep(d, "rank", state, RouteAfterRanking(state))

ExplainComparison(d) == NodeStep(d, "explain", Explain(task[d].state), "finalize")

FinalizeWorkflow(d) == NodeStep(d, "finalize", Finalize(task[d].state), "final_put")

\* A quote may name a supplier the risk registry does not know, or an eligible
\* one may cost nothing and be divided by; the exception leaves the stream.
RankRaises(d) ==
  /\ task[d].pc = "rank"
  /\ task' = [task EXCEPT ![d].pc = "failed"]
  /\ UNCHANGED <<storeVars, trustVars, call, lock, up, life, faults, lapsed>>

\* After the stream the task stores its last record once more, and ends.
FinalPut(d) ==
  /\ task[d].pc = "final_put"
  /\ Put(d, RecordFromState(task[d].draft, task[d].state))
  /\ task' = [task EXCEPT ![d] = NoTask]
  /\ UNCHANGED <<trustVars, call, lock, up, life, faults, lapsed>>

\* The record of a failure is made from the draft read at the start.
FailedRecord(draft) ==
  [row |-> [draft.row EXCEPT !.status = "failed", !.errors = TRUE],
   events |-> Append(draft.events, "workflow_failed")]

FailedPut(d) ==
  /\ task[d].pc = "failed"
  /\ Put(d, FailedRecord(task[d].draft))
  /\ task' = [task EXCEPT ![d] = NoTask]
  /\ UNCHANGED <<trustVars, call, lock, up, life, faults, lapsed>>

\* A database transaction of the task fails.  Inside the stream the exception
\* is turned into a failed deal; the first read and the last put are outside
\* the try block, and there the task dies.
TaskFault(d) ==
  /\ faults < MaxFaults
  /\ faults' = faults + 1
  /\ \/ /\ task[d].pc = "scheduled"
        /\ task' = [task EXCEPT ![d].pc = "failed", ![d].draft = Get(d)]
     \/ /\ task[d].pc \in Nodes
        /\ task' = [task EXCEPT ![d].pc = "failed"]
     \/ /\ task[d].pc \in {"scheduled", "final_put", "failed"}
        /\ task' = [task EXCEPT ![d] = NoTask]
  /\ UNCHANGED <<storeVars, trustVars, call, lock, up, life, lapsed>>

TaskStep(d) ==
  \/ StartProcess(d)
  \/ Validate(d)
  \/ Discover(d)
  \/ CollectQuotes(d)
  \/ RankQuotes(d)
  \/ RankRaises(d)
  \/ ExplainComparison(d)
  \/ FinalizeWorkflow(d)
  \/ FinalPut(d)
  \/ FailedPut(d)

-----------------------------------------------------------------------------
(* Approve, decide and sign_payment.                                       *)

\* A client of `create' acts on a deal when the call has returned; a client
\* of `submit' whenever it sees the deal.
ClientMayAct(d) == up /\ (Synchronous => task[d].pc = "none")

\* Bug: the lock is not taken.
EnterUnlocked(c, d) ==
  /\ ClientMayAct(d)
  /\ call[c] = NoCall
  /\ lock' = c

\* A caller enters the locked section and reads the deal.
Enter(c, d) ==
  /\ ClientMayAct(d)
  /\ lock = None
  /\ call[c] = NoCall
  /\ lock' = c

\* Bug: the lock is not released.
LeaveLocked(c) ==
  /\ call' = [call EXCEPT ![c] = NoCall]
  /\ UNCHANGED lock

\* The locked section ends, by return or by exception.
Leave(c) ==
  /\ lock' = None
  /\ call' = [call EXCEPT ![c] = NoCall]

NextPC(c, pc) == call' = [call EXCEPT ![c].pc = pc]

\* Bug: the status of the deal is not checked.
ApprovableInAnyStatus(d, q) ==
  LET row == deals[d]
  IN /\ "final_offer_acceptance" \in row.request.operations
     /\ Live(d)
     /\ row.comparison # None
     /\ q \in row.comparison.eligible
     /\ "quotes" \notin lapsed[d]

\* The checks of approve on the row it has read, for quote q.
Approvable(d, q) ==
  LET row == deals[d]
  IN /\ row.status = "awaiting_approval"
     /\ "final_offer_acceptance" \in row.request.operations
     /\ Live(d)
     /\ row.comparison # None
     /\ q \in row.comparison.eligible
     /\ "quotes" \notin lapsed[d]

\* Bug: the hash is not compared.
UncheckedHashes(d) == deals[d].quotes

\* The quotes a client can approve: the hash it sends must be that of the
\* snapshot rebuilt for the quote.  The frontend knows the hashes the deal has
\* shown; a client may also hash the terms of any quote of the deal itself.
ApprovableHashes(d) ==
  IF HashKnowledge = "shown" THEN published[d] ELSE deals[d].quotes

\* approve up to the first transaction of the trust controls.  A cached
\* purchase of the deal is returned before the policies are asked.
BeginApprove(c, d) ==
  \E q \in ApprovableHashes(d) :
    LET approval ==
          [NoCall EXCEPT !.op = "approve", !.deal = d, !.record = Get(d), !.quote = q]
    IN /\ Enter(c, d)
       /\ Approvable(d, q)
       /\ \/ /\ purchases[d] # None
             /\ call' = [call EXCEPT ![c] =
                  [approval EXCEPT !.pc = "put", !.artifacts = purchases[d]]]
          \/ /\ purchases[d] = None
             /\ PoliciesAllow(deals[d].request, Live(d))
             /\ Len(ledger[d]) < MaxAnchors
             /\ call' = [call EXCEPT ![c] = [approval EXCEPT !.pc = "anchor"]]
       /\ UNCHANGED <<storeVars, trustVars, task, up, life, faults, lapsed>>

AnchorIntent(c) ==
  LET d == call[c].deal
  IN /\ call[c].pc = "anchor"
     /\ AppendAnchor(d, call[c].quote)
     /\ call' = [call EXCEPT ![c].pc = "gatekeep", ![c].anchor = Len(ledger[d]) + 1]
     /\ UNCHANGED <<storeVars, task, lock, up, life, faults, lapsed>>

\* The oracle and the kill switch let the purchase pass: the payment draft.
CreateDraft(c) ==
  LET d == call[c].deal
      q == call[c].quote
      number == call[c].anchor
  IN /\ call[c].pc = "gatekeep"
     /\ OracleVerified(d, q, number)
     /\ ~killSwitch
     /\ CreatePaymentDraft(d, q, number, life)
     /\ call' = [call EXCEPT ![c].pc = "put", ![c].artifacts = purchases'[d]]
     /\ UNCHANGED <<storeVars, task, lock, up, life, faults, lapsed>>

\* TrustControlError: the anchor stays, the deal is as it was.
RefusePurchase(c) ==
  /\ call[c].pc = "gatekeep"
  /\ \/ ~OracleVerified(call[c].deal, call[c].quote, call[c].anchor)
     \/ killSwitch
  /\ Leave(c)
  /\ UNCHANGED <<storeVars, trustVars, task, up, life, faults, lapsed>>

ApprovalEvents ==
  <<"quote_approved", "purchase_intent_anchored", "oracle_verified",
    "payment_draft_created">>

ApprovedRecord(record, q, artifacts) ==
  [row |-> [record.row EXCEPT
              !.status = "payment_signature_required",
              !.approval_snapshot = q,
              !.selected_quote = q,
              !.payment_draft = artifacts.draft,
              !.purchase_intent = artifacts.intent,
              !.ledger_anchor = artifacts.anchor,
              !.human_decision = [decision |-> "approve", snapshot |-> q]],
   events |-> record.events \o ApprovalEvents]

PutApproval(c) ==
  LET this == call[c]
  IN /\ this.op = "approve" /\ this.pc = "put"
     /\ Put(this.deal, ApprovedRecord(this.record, this.quote, this.artifacts))
     /\ Leave(c)
     /\ UNCHANGED <<trustVars, task, up, life, faults, lapsed>>

\* decide, for a rejection or a request for changes of the stored snapshot.
BeginDecide(c, d, decision) ==
  /\ Enter(c, d)
  /\ deals[d].status = "awaiting_approval"
  /\ deals[d].approval_snapshot \in published[d]
  /\ call' = [call EXCEPT ![c] =
       [NoCall EXCEPT !.op = decision, !.pc = "put", !.deal = d, !.record = Get(d),
                      !.quote = deals[d].approval_snapshot]]
  /\ UNCHANGED <<storeVars, trustVars, task, up, life, faults, lapsed>>

\* Bug: the status is left as it was.
DecidedRecordStillOpen(record, decision, q) ==
  [row |-> [record.row EXCEPT !.human_decision = [decision |-> decision, snapshot |-> q]],
   events |-> Append(record.events,
                IF decision = "reject" THEN "human_reject" ELSE "human_request_changes")]

DecidedRecord(record, decision, q) ==
  [row |-> [record.row EXCEPT
              !.status = IF decision = "reject" THEN "rejected" ELSE "changes_requested",
              !.human_decision = [decision |-> decision, snapshot |-> q]],
   events |-> Append(record.events,
                IF decision = "reject" THEN "human_reject" ELSE "human_request_changes")]

PutDecision(c) ==
  LET this == call[c]
  IN /\ this.op \in {"reject", "request_changes"} /\ this.pc = "put"
     /\ Put(this.deal, DecidedRecord(this.record, this.op, this.quote))
     /\ Leave(c)
     /\ UNCHANGED <<trustVars, task, up, life, faults, lapsed>>

\* sign_payment up to its put; the client names the draft the deal shows.
BeginSign(c, d) ==
  LET row == deals[d]
  IN /\ Enter(c, d)
     /\ row.status = "payment_signature_required"
     /\ Live(d) /\ "edo_action" \in row.request.operations
     /\ row.payment_draft # None
     /\ row.payment_draft.id \in issued[d]
     /\ row.selected_quote \in row.quotes
     /\ row.approval_snapshot # None
     /\ call' = [call EXCEPT ![c] =
          [NoCall EXCEPT !.op = "sign", !.pc = "put", !.deal = d, !.record = Get(d),
                         !.quote = row.selected_quote]]
     /\ UNCHANGED <<storeVars, trustVars, task, up, life, faults, lapsed>>

\* The message log of the purchase, which signing the draft writes: it repeats
\* the approval and the draft as the messages sent about them.
LifecycleEvents(row) ==
  <<"approval_snapshot_created", "quote_approved", "award_sent">>
  \o (IF row.supplier_ids \ {row.selected_quote.supplier} = {} THEN << >>
      ELSE <<"supplier_rejected">>)
  \o <<"order_confirmed", "payment_draft_created", "fulfillment_updated",
       "document_registered", "deal_completed">>

SignedRecord(record) ==
  [row |-> [record.row EXCEPT !.status = "completed", !.payment_draft.signed = TRUE],
   events |-> record.events \o (<<"payment_draft_signed">> \o LifecycleEvents(record.row))]

PutSigned(c) ==
  LET this == call[c]
  IN /\ this.op = "sign" /\ this.pc = "put"
     /\ Put(this.deal, SignedRecord(this.record))
     /\ NextPC(c, "append_outbox")
     /\ UNCHANGED <<trustVars, task, lock, up, life, faults, lapsed>>

\* Bug: the winner is rejected with the others.
OutboxRejectingAll(record, q) ==
  {[type |-> "award", to |-> q.supplier],
   [type |-> "payment_draft", to |-> "payment-adapter"],
   [type |-> "document_ref", to |-> "mock-edo"]}
  \cup [type : {"rejection"}, to : record.row.supplier_ids]

\* The award, a rejection for every other supplier asked, the payment draft
\* and the documents.
OutboxMessages(record, q) ==
  {[type |-> "award", to |-> q.supplier],
   [type |-> "payment_draft", to |-> "payment-adapter"],
   [type |-> "document_ref", to |-> "mock-edo"]}
  \cup [type : {"rejection"}, to : record.row.supplier_ids \ {q.supplier}]

QueueMessages(c) ==
  LET this == call[c]
  IN /\ this.pc = "append_outbox"
     /\ AppendOutbox(this.deal, OutboxMessages(this.record, this.quote))
     /\ NextPC(c, "mark_published")
     /\ UNCHANGED <<trustVars, task, lock, up, life, faults, lapsed>>

MarkPublished(c) ==
  /\ call[c].pc = "mark_published"
  /\ MarkOutboxPublished(call[c].deal)
  /\ Leave(c)
  /\ UNCHANGED <<trustVars, task, up, life, faults, lapsed>>

\* A transaction of the call fails; the exception releases the lock.
CallFault(c) ==
  /\ call[c] # NoCall
  /\ faults < MaxFaults
  /\ faults' = faults + 1
  /\ Leave(c)
  /\ UNCHANGED <<storeVars, trustVars, task, up, life, lapsed>>

CallStep(c) ==
  \/ AnchorIntent(c)
  \/ CreateDraft(c)
  \/ RefusePurchase(c)
  \/ PutApproval(c)
  \/ PutDecision(c)
  \/ PutSigned(c)
  \/ QueueMessages(c)
  \/ MarkPublished(c)

-----------------------------------------------------------------------------
(* The environment.                                                        *)

\* The process ends: tasks, calls, the lock and both result caches are gone.
Crash ==
  /\ up
  /\ life < MaxLives
  /\ up' = FALSE
  /\ task' = [d \in Deals |-> NoTask]
  /\ call' = [c \in Callers |-> NoCall]
  /\ lock' = None
  /\ purchases' = NoResults
  /\ payments' = NoResults
  /\ UNCHANGED <<storeVars, ledger, killSwitch, life, faults, lapsed>>

\* Bugs: nothing is listed; deals that await approval are listed too.
NoDrafts == {}

UndecidedDeals == {d \in Deals : deals[d].status \in {"draft", "awaiting_approval"}}

Drafts == {d \in Deals : deals[d].status = "draft"}

\* The process starts; resume_incomplete schedules the drafts it lists, at
\* most ResumeLimit of them.
Restart ==
  /\ ~up
  /\ up' = TRUE
  /\ life' = life + 1
  /\ killSwitch' \in KillSwitches
  /\ \E listed \in SUBSET Drafts :
       /\ \/ listed = Drafts /\ Cardinality(listed) <= ResumeLimit
          \/ Cardinality(listed) = ResumeLimit
       /\ task' = [d \in Deals |-> IF d \in listed THEN ScheduledTask ELSE NoTask]
  /\ UNCHANGED <<storeVars, ledger, purchases, payments, call, lock, faults, lapsed>>

\* The mandate of a deal, or the quotes it has collected, pass their date.
Lapse(d, what) ==
  /\ deals[d].status # "absent"
  /\ what = "quotes" => deals[d].quotes # {}
  /\ what \notin lapsed[d]
  /\ lapsed' = [lapsed EXCEPT ![d] = @ \cup {what}]
  /\ UNCHANGED <<storeVars, trustVars, task, call, lock, up, life, faults>>

Next ==
  \/ \E d \in Deals :
       \/ \E request \in Requests : Submit(d, request)
       \/ TaskStep(d)
       \/ TaskFault(d)
       \/ \E what \in Lapses : Lapse(d, what)
  \/ \E c \in Callers :
       \/ \E d \in Deals :
            \/ BeginApprove(c, d)
            \/ \E decision \in {"reject", "request_changes"} : BeginDecide(c, d, decision)
            \/ BeginSign(c, d)
       \/ CallStep(c)
       \/ CallFault(c)
  \/ Crash
  \/ Restart

Spec == Init /\ [][Next]_vars

\* The event loop runs every task and every call to its end, and the
\* supervisor starts the process again.  Clients owe nothing.
Fairness ==
  /\ \A d \in Deals : WF_vars(TaskStep(d))
  /\ \A c \in Callers : WF_vars(CallStep(c))
  /\ WF_vars(Restart)

FairSpec == Spec /\ Fairness

-----------------------------------------------------------------------------
(* Safety that holds whatever clients, crashes and faults do.              *)

\* The payment draft a deal shows is for the quote a human approved: it, the
\* snapshot, the selected quote, the decision and the purchase intent are one
\* offer, and the intent is at the ledger position the deal names.  The result
\* cache is keyed by the deal alone, so after a failed put the next approval
\* gets the artifacts of the first: this holds for clients that approve what
\* the deal shows, and not for those that hash another quote themselves.
ApprovedTermsMatch ==
  \A d \in Deals :
    LET row == deals[d]
        q == row.selected_quote
    IN row.payment_draft # None =>
         /\ row.payment_draft.quote = q
         /\ row.approval_snapshot = q
         /\ row.purchase_intent = q
         /\ row.human_decision = [decision |-> "approve", snapshot |-> q]
         /\ row.ledger_anchor \in 1 .. Len(ledger[d])
         /\ ledger[d][row.ledger_anchor].payload_hash = q

\* The payment gatekeeper remembers no draft and no purchase whose intent is
\* not anchored first.
PaymentIsAnchored ==
  \A d \in Deals :
    /\ payments[d] # None =>
         \E i \in 1 .. Len(ledger[d]) : ledger[d][i].payload_hash = payments[d].quote
    /\ purchases[d] # None =>
         /\ purchases[d].draft = payments[d]
         /\ purchases[d].anchor \in 1 .. Len(ledger[d])
         /\ ledger[d][purchases[d].anchor].payload_hash = purchases[d].intent

\* The chain of every deal verifies at all times, so the oracle never refuses
\* a purchase on account of the ledger.
LedgerVerifies == \A d \in Deals : Verifies(d, ledger[d])

\* Once a process has completed the purchase of a deal it anchors no further
\* intent for it: concurrent and repeated approvals are one purchase.
PurchaseAnchoredOnce ==
  [][\A d \in Deals : purchases[d] # None => ledger'[d] = ledger[d]]_vars

\* Positions of an event in the journal of a deal.
Logged(d, events) == {i \in 1 .. Len(log[d]) : log[d][i] \in events}

\* An award goes to one supplier of a deal, who is not also rejected, and only
\* after the journal shows the approval and then the signature.
AwardIsFinal ==
  \A d \in Deals : \A s \in Suppliers :
    outbox[d][[type |-> "award", to |-> s]] # "absent" =>
      /\ outbox[d][[type |-> "rejection", to |-> s]] = "absent"
      /\ \A t \in Suppliers \ {s} : outbox[d][[type |-> "award", to |-> t]] = "absent"
      /\ \E i \in Logged(d, {"quote_approved"}) :
           \E j \in Logged(d, {"payment_draft_signed"}) : i < j

-----------------------------------------------------------------------------
(* Safety that depends on who else writes the row.                         *)

DecisionEvents == {"quote_approved", "human_reject", "human_request_changes"}

DecisionEvent ==
  [approve |-> "quote_approved", reject |-> "human_reject",
   request_changes |-> "human_request_changes"]

\* A human decision in the journal stands: the deal still shows it, and no
\* second one follows.  Only the signature of the payment draft, of which there
\* is one at most, repeats the approval in the messages it logs.
HumanDecisionStands ==
  \A d \in Deals :
    LET decided == Logged(d, DecisionEvents)
        signed == Logged(d, {"payment_draft_signed"})
    IN /\ \A i \in decided :
            /\ deals[d].human_decision # None
            /\ log[d][i] = DecisionEvent[deals[d].human_decision.decision]
       /\ \A i, j \in decided : i < j => \E k \in signed : i < k /\ k < j
       /\ \A k, l \in signed : k = l

\* A deal has one order and one payment draft, whatever is repeated, crashes
\* or fails on the way: no row ever shows a second payment draft id.
OnePaymentDraft == \A d \in Deals : Cardinality(issued[d]) <= 1

\* A deal that awaits approval can be approved on the snapshot it shows.
AwaitingIsApprovable ==
  \A d \in Deals :
    deals[d].status = "awaiting_approval" =>
      /\ deals[d].comparison # None
      /\ deals[d].approval_snapshot \in deals[d].comparison.eligible

\* The journal of a failed deal ends with the event that failed it.
FailureIsLogged ==
  \A d \in Deals :
    deals[d].status = "failed" =>
      log[d][Len(log[d])] \in {"workflow_completed", "workflow_failed"}

\* When no call works on a completed deal its messages are in the outbox.
CompletedIsQueued ==
  \A d \in Deals :
    (deals[d].status = "completed" /\ \A c \in Callers : call[c].deal # d) =>
      \A m \in OutboxMessages(Get(d), deals[d].selected_quote) :
        outbox[d][m] # "absent"

-----------------------------------------------------------------------------
(* Progress.                                                               *)

\* Every draft is taken to a result, across a crash and a restart.
DraftsAreProcessed == \A d \in Deals : deals[d].status = "draft" ~> deals[d].status # "draft"

\* The approval lock, which all deals share, is always released.
LockIsReleased == \A c \in Callers : lock = c ~> lock # c

-----------------------------------------------------------------------------
(* What the service promises, in the terms of DealLifecycle.               *)

OrderOf(row) ==
  IF row.payment_draft = None THEN None
  ELSE [draft |-> row.payment_draft.id, quote |-> row.payment_draft.quote]

Awarded(d) == {s \in Suppliers : outbox[d][[type |-> "award", to |-> s]] # "absent"}

Lifecycle ==
  INSTANCE DealLifecycle WITH
    Orders <- [draft : Lives, quote : Quote],
    status <- [d \in Deals |-> deals[d].status],
    order <- [d \in Deals |-> OrderOf(deals[d])],
    awarded <- [d \in Deals |-> Awarded(d)]

\* Seen from a client that waits for create, the service is the documented
\* state machine.
ImplementsLifecycle == Lifecycle!Spec
=============================================================================
