-------------------------- MODULE DealServiceProofs --------------------------
(***************************************************************************)
(* Proofs about DealService, for any sets of deals, suppliers, requests    *)
(* and callers, both kinds of clients, and any bounds.                     *)
(***************************************************************************)
EXTENDS DealService, HashChainProofs, SequenceTheorems

-----------------------------------------------------------------------------
(* Records.                                                                *)

LEMMA EmptyRowType ==
  ASSUME NEW status \in Status, NEW request \in Requests \cup {None}
  PROVE  EmptyRow(status, request) \in Row
BY StoreAssumption DEF EmptyRow, Row

LEMMA NoRecordType == NoRecord \in DealRecord
BY EmptyRowType DEF NoRecord, DealRecord, Status

LEMMA NoTaskType == NoTask \in Task /\ ScheduledTask \in Task
BY NoRecordType DEF NoTask, ScheduledTask, Task, TaskPC

LEMMA NoCallType == NoCall \in Call
BY NoRecordType DEF NoCall, Call, CallPC

LEMMA AfterType ==
  ASSUME NEW state \in DealRecord, NEW event \in Event, NEW row \in Row
  PROVE  After(state, event, row) \in DealRecord
BY DEF After, DealRecord

\* The record a task stores is a record, of the request of its draft.
LEMMA RecordFromStateType ==
  ASSUME NEW draft \in DealRecord, NEW state \in DealRecord
  PROVE  /\ RecordFromState(draft, state) \in DealRecord
         /\ RecordFromState(draft, state).row.request = draft.row.request
<1>. DEFINE comparison == state.row.comparison
            preview == IF draft.row.approval_snapshot # None THEN draft.row.approval_snapshot
                       ELSE IF comparison # None THEN comparison.recommended ELSE None
<1>1. draft.row \in Row /\ state.row \in Row /\ state.events \in Seq(Event)
  BY DEF DealRecord
<1>2. preview \in Quote \cup {None}
  BY <1>1 DEF Row, Comparison
<1>3. EmptyRow(state.row.status, draft.row.request) \in Row
  BY <1>1, EmptyRowType DEF Row
<1>4. RecordFromState(draft, state).row \in Row
  <2>. DEFINE base == EmptyRow(state.row.status, draft.row.request)
              row == [base EXCEPT !.supplier_ids = state.row.supplier_ids,
                                  !.quotes = state.row.quotes,
                                  !.comparison = comparison,
                                  !.errors = state.row.errors,
                                  !.approval_snapshot = preview]
  <2>1. RecordFromState(draft, state).row = row
    BY DEF RecordFromState
  <2>2. /\ state.row.supplier_ids \in SUBSET Suppliers
        /\ state.row.quotes \in SUBSET Quote
        /\ comparison \in Comparison \cup {None}
        /\ state.row.errors \in BOOLEAN
    BY <1>1 DEF Row
  <2>3. row \in Row
    <3>. HIDE DEF base, preview, comparison
    <3>. QED BY <1>2, <1>3, <2>2 DEF Row, base
  <2>. QED BY <2>1, <2>3
<1>5. RecordFromState(draft, state).row.request = draft.row.request
  BY <1>1 DEF RecordFromState, EmptyRow
<1>. QED BY <1>1, <1>4, <1>5 DEF RecordFromState, DealRecord

-----------------------------------------------------------------------------
(* The events a call logs, all at once.                                    *)

\* Where a journal tells of a decision or a signature.
Marks(journal) ==
  {i \in 1 .. Len(journal) : journal[i] \in DecisionEvents \cup {"payment_draft_signed"}}

SignatureEvents(row) == <<"payment_draft_signed">> \o LifecycleEvents(row)

\* A batch of events that joins a journal.
LEMMA Joined ==
  ASSUME NEW s \in Seq(Event), NEW b \in Seq(Event)
  PROVE  /\ s \o b \in Seq(Event)
         /\ Len(s \o b) = Len(s) + Len(b)
         /\ \A i \in 1 .. Len(s) : (s \o b)[i] = s[i]
         /\ \A i \in 1 .. Len(b) : (s \o b)[Len(s) + i] = b[i]
BY ConcatProperties

\* The marks of a journal that a batch joins.
LEMMA MarksJoined ==
  ASSUME NEW s \in Seq(Event), NEW b \in Seq(Event)
  PROVE  \A i : i \in Marks(s \o b) <=>
           i \in Marks(s) \/ \E k \in Marks(b) : i = Len(s) + k
<1>. DEFINE longer == s \o b
<1>1. /\ Len(longer) = Len(s) + Len(b)
      /\ \A i \in 1 .. Len(s) : longer[i] = s[i]
      /\ \A i \in 1 .. Len(b) : longer[Len(s) + i] = b[i]
  BY Joined
<1>2. Len(s) \in Nat /\ Len(b) \in Nat
  OBVIOUS
<1>. HIDE DEF longer
<1>3. \A i : i \in 1 .. Len(longer) <=>
        \/ i \in 1 .. Len(s)
        \/ \E k \in 1 .. Len(b) : i = Len(s) + k
  <2>1. ASSUME NEW i \in 1 .. Len(longer), i \notin 1 .. Len(s)
        PROVE  i - Len(s) \in 1 .. Len(b) /\ i = Len(s) + (i - Len(s))
    BY <1>1, <1>2, <2>1
  <2>2. ASSUME NEW i, i \in 1 .. Len(s) \/ \E k \in 1 .. Len(b) : i = Len(s) + k
        PROVE  i \in 1 .. Len(longer)
    BY <1>1, <1>2, <2>2
  <2>. QED BY <2>1, <2>2
<1>4. \A i : i \in Marks(longer) <=> i \in Marks(s) \/ \E k \in Marks(b) : i = Len(s) + k
  <2>1. ASSUME NEW i \in Marks(longer)
        PROVE  i \in Marks(s) \/ \E k \in Marks(b) : i = Len(s) + k
    <3>1. i \in 1 .. Len(longer) /\ longer[i] \in DecisionEvents \cup {"payment_draft_signed"}
      BY DEF Marks
    <3>2. CASE i \in 1 .. Len(s)
      BY <1>1, <3>1, <3>2 DEF Marks
    <3>3. CASE \E k \in 1 .. Len(b) : i = Len(s) + k
      BY <1>1, <3>1, <3>3 DEF Marks
    <3>. QED BY <1>3, <3>1, <3>2, <3>3
  <2>2. ASSUME NEW i, i \in Marks(s) \/ \E k \in Marks(b) : i = Len(s) + k
        PROVE  i \in Marks(longer)
    <3>1. CASE i \in Marks(s)
      BY <1>1, <1>3, <3>1 DEF Marks
    <3>2. CASE \E k \in Marks(b) : i = Len(s) + k
      <4>1. PICK k \in Marks(b) : i = Len(s) + k
        BY <3>2
      <4>2. k \in 1 .. Len(b) /\ longer[i] = b[k]
        BY <1>1, <4>1 DEF Marks
      <4>3. i \in 1 .. Len(longer)
        BY <1>3, <4>1, <4>2
      <4>. QED BY <4>1, <4>2, <4>3 DEF Marks
    <3>. QED BY <2>2, <3>1, <3>2
  <2>. QED BY <2>1, <2>2
<1>. QED BY <1>4 DEF longer

\* A batch of one event.
LEMMA SingleBatch ==
  ASSUME NEW e \in Event
  PROVE  /\ <<e>> \in Seq(Event) /\ Len(<<e>>) = 1 /\ <<e>>[1] = e
         /\ \A journal \in Seq(Event) : Append(journal, e) = journal \o <<e>>
OBVIOUS

\* What approve logs begins with the decision.
LEMMA ApprovalBatch ==
  /\ ApprovalEvents \in Seq(Event) /\ Len(ApprovalEvents) = 4
  /\ ApprovalEvents[1] = "quote_approved"
  /\ Marks(ApprovalEvents) = {1}
<1>1. /\ Len(ApprovalEvents) = 4 /\ ApprovalEvents[1] = "quote_approved"
      /\ ApprovalEvents[2] = "purchase_intent_anchored"
      /\ ApprovalEvents[3] = "oracle_verified"
      /\ ApprovalEvents[4] = "payment_draft_created"
  BY DEF ApprovalEvents
<1>2. ApprovalEvents \in Seq(Event)
  BY DEF ApprovalEvents, Event
<1>. QED BY <1>1, <1>2 DEF Marks, DecisionEvents

\* What sign_payment logs: the signature, and the approval again among the messages.
LEMMA SignatureBatch ==
  ASSUME NEW row
  PROVE  LET batch == SignatureEvents(row)
         IN /\ batch \in Seq(Event) /\ Marks(batch) = {1, 3}
            /\ Len(batch) \in Nat /\ 3 <= Len(batch)
            /\ batch[1] = "payment_draft_signed" /\ batch[3] = "quote_approved"
<1>. DEFINE signed == <<"payment_draft_signed">>
            head == <<"approval_snapshot_created", "quote_approved", "award_sent">>
            middle == IF row.supplier_ids \ {row.selected_quote.supplier} = {} THEN << >>
                      ELSE <<"supplier_rejected">>
            tail == <<"order_confirmed", "payment_draft_created", "fulfillment_updated",
                      "document_registered", "deal_completed">>
            messages == head \o middle \o tail
            batch == SignatureEvents(row)
<1>1. /\ signed \in Seq(Event) /\ Len(signed) = 1 /\ Marks(signed) = {1}
      /\ signed[1] = "payment_draft_signed"
  BY DEF Event, Marks
<1>2. head \in Seq(Event) /\ Len(head) = 3 /\ Marks(head) = {2} /\ head[2] = "quote_approved"
  BY DEF Event, Marks, DecisionEvents
<1>3. middle \in Seq(Event) /\ Marks(middle) = {}
  <2>1. << >> \in Seq(Event) /\ Marks(<< >>) = {}
    BY DEF Marks
  <2>2. <<"supplier_rejected">> \in Seq(Event) /\ Marks(<<"supplier_rejected">>) = {}
    BY DEF Event, Marks, DecisionEvents
  <2>3. middle = << >> \/ middle = <<"supplier_rejected">>
    OBVIOUS
  <2>. HIDE DEF middle
  <2>. QED BY <2>1, <2>2, <2>3
<1>4. tail \in Seq(Event) /\ Marks(tail) = {}
  BY DEF Event, Marks, DecisionEvents
<1>5. batch = signed \o messages
  BY DEF SignatureEvents, LifecycleEvents
<1>. HIDE DEF signed, head, middle, tail
<1>6. /\ head \o middle \in Seq(Event) /\ Marks(head \o middle) = {2}
      /\ (head \o middle)[2] = "quote_approved" /\ Len(head \o middle) = 3 + Len(middle)
  <2>1. \A i : i \in Marks(head \o middle) <=> i = 2
    BY <1>2, <1>3, MarksJoined
  <2>2. Marks(head \o middle) = {2}
    BY <2>1
  <2>3. head \o middle \in Seq(Event) /\ Len(head \o middle) = Len(head) + Len(middle)
    BY <1>2, <1>3, Joined
  <2>4. 2 \in 1 .. Len(head)
    BY <1>2
  <2>5. (head \o middle)[2] = "quote_approved"
    BY <1>2, <1>3, <2>4, Joined
  <2>. QED BY <1>2, <2>2, <2>3, <2>5
<1>7. /\ messages \in Seq(Event) /\ Marks(messages) = {2}
      /\ messages[2] = "quote_approved" /\ 2 <= Len(messages)
  <2>. DEFINE start == head \o middle
  <2>0. /\ start \in Seq(Event) /\ Marks(start) = {2} /\ start[2] = "quote_approved"
        /\ 2 \in 1 .. Len(start)
    BY <1>3, <1>6
  <2>. HIDE DEF start
  <2>1. \A i : i \in Marks(start \o tail) <=> i = 2
    BY <1>4, <2>0, MarksJoined
  <2>2. /\ start \o tail \in Seq(Event) /\ (start \o tail)[2] = "quote_approved"
        /\ 2 <= Len(start \o tail) /\ Marks(start \o tail) = {2}
    BY <1>4, <2>0, <2>1, Joined
  <2>. QED BY <2>2 DEF start
<1>. HIDE DEF messages
<1>8. Marks(signed \o messages) = {1, 3}
  <2>1. \A i : i \in Marks(signed \o messages) <=> i = 1 \/ i = 1 + 2
    BY <1>1, <1>7, MarksJoined
  <2>. QED BY <2>1
<1>9. /\ (signed \o messages)[1] = "payment_draft_signed"
      /\ (signed \o messages)[1 + 2] = "quote_approved"
      /\ signed \o messages \in Seq(Event) /\ Len(signed \o messages) = 1 + Len(messages)
  <2>1. 1 \in 1 .. Len(signed) /\ 2 \in 1 .. Len(messages)
    BY <1>1, <1>7
  <2>2. signed \o messages \in Seq(Event) /\ Len(signed \o messages) = Len(signed) + Len(messages)
    BY <1>1, <1>7, Joined
  <2>3. (signed \o messages)[1] = "payment_draft_signed"
    BY <1>1, <1>7, <2>1, Joined
  <2>4. (signed \o messages)[Len(signed) + 2] = "quote_approved"
    BY <1>1, <1>7, <2>1, Joined
  <2>. QED BY <1>1, <2>2, <2>3, <2>4
<1>10. Len(messages) \in Nat
  BY <1>7
<1>11. /\ batch \in Seq(Event) /\ Marks(batch) = {1, 3} /\ Len(batch) \in Nat /\ 3 <= Len(batch)
       /\ batch[1] = "payment_draft_signed" /\ batch[3] = "quote_approved"
  <2>. HIDE DEF batch
  <2>. QED BY <1>5, <1>7, <1>8, <1>9, <1>10
<1>. QED BY <1>11

-----------------------------------------------------------------------------
(* The nodes of the workflow.                                              *)

\* A node returns a record of the same request.
LEMMA ValidateType ==
  ASSUME NEW state \in DealRecord, NEW live
  PROVE  /\ ValidateMandate(state, live) \in DealRecord
         /\ ValidateMandate(state, live).row.request = state.row.request
         /\ RouteAfterValidation(ValidateMandate(state, live)) \in Nodes
<1>. DEFINE r == state.row.request
            valid == live /\ "send_rfq" \in r.operations /\ r.inScope
            row == [state.row EXCEPT !.errors = @ \/ ~valid]
<1>1. row \in Row /\ row.request = state.row.request
  BY DEF DealRecord, Row
<1>2. ValidateMandate(state, live) = After(state, "mandate_validated", row)
  BY DEF ValidateMandate
<1>3. After(state, "mandate_validated", row) \in DealRecord
  BY <1>1, AfterType DEF Event
<1>4. After(state, "mandate_validated", row).row = row
  BY DEF After
<1>. HIDE DEF row
<1>. QED BY <1>1, <1>2, <1>3, <1>4 DEF RouteAfterValidation, Nodes

LEMMA DiscoverType ==
  ASSUME NEW state \in DealRecord, state.row.request \in Requests
  PROVE  /\ DiscoverSuppliers(state) \in DealRecord
         /\ DiscoverSuppliers(state).row.request = state.row.request
         /\ RouteAfterDiscovery(DiscoverSuppliers(state)) \in Nodes
<1>. DEFINE found == state.row.request.allowed
            row == [state.row EXCEPT !.supplier_ids = found,
                                     !.errors = @ \/ Cardinality(found) < MinimumQuotes]
<1>1. found \in SUBSET Suppliers
  BY StoreAssumption DEF Request
<1>2. row \in Row /\ row.request = state.row.request
  BY <1>1 DEF DealRecord, Row
<1>3. After(state, "suppliers_discovered", row) \in DealRecord
  BY <1>2, AfterType DEF Event
<1>. QED BY <1>2, <1>3 DEF DiscoverSuppliers, After, RouteAfterDiscovery, Nodes

LEMMA RequestQuotesType ==
  ASSUME NEW state \in DealRecord, NEW answered \in SUBSET Suppliers, NEW n \in Lives
  PROVE  /\ RequestQuotes(state, answered, n) \in DealRecord
         /\ RequestQuotes(state, answered, n).row.request = state.row.request
         /\ RouteAfterQuotes(RequestQuotes(state, answered, n)) \in Nodes
<1>. DEFINE quotes == [supplier : answered, life : {n}]
            row == [state.row EXCEPT !.quotes = quotes,
                                     !.errors = @ \/ Cardinality(answered) < MinimumQuotes]
<1>1. quotes \in SUBSET Quote
  BY DEF Quote
<1>2. row \in Row /\ row.request = state.row.request
  BY <1>1 DEF DealRecord, Row
<1>3. After(state, "quotes_collected", row) \in DealRecord
  BY <1>2, AfterType DEF Event
<1>. QED BY <1>2, <1>3 DEF RequestQuotes, After, RouteAfterQuotes, Nodes

LEMMA RankType ==
  ASSUME NEW state \in DealRecord, NEW eligible \in SUBSET Quote,
         NEW best \in Recommendable(eligible)
  PROVE  /\ Rank(state, eligible, best) \in DealRecord
         /\ Rank(state, eligible, best).row.request = state.row.request
         /\ RouteAfterRanking(Rank(state, eligible, best)) \in Nodes
<1>. DEFINE comparison == [eligible |-> eligible, recommended |-> best]
            row == [state.row EXCEPT !.comparison = comparison, !.errors = @ \/ best = None]
<1>1. comparison \in Comparison
  BY DEF Comparison, Recommendable
<1>2. row \in Row /\ row.request = state.row.request
  BY <1>1 DEF DealRecord, Row
<1>3. After(state, "quotes_ranked", row) \in DealRecord
  BY <1>2, AfterType DEF Event
<1>. QED BY <1>2, <1>3 DEF Rank, After, RouteAfterRanking, Nodes

LEMMA ExplainType ==
  ASSUME NEW state \in DealRecord
  PROVE  /\ Explain(state) \in DealRecord
         /\ Explain(state).row.request = state.row.request
BY AfterType DEF Explain, After, DealRecord, Event

LEMMA FinalizeType ==
  ASSUME NEW state \in DealRecord
  PROVE  /\ Finalize(state) \in DealRecord
         /\ Finalize(state).row.request = state.row.request
<1>. DEFINE successful == /\ ~state.row.errors
                          /\ state.row.comparison # None
                          /\ state.row.comparison.recommended # None
            row == [state.row EXCEPT !.status =
                      IF successful THEN "awaiting_approval" ELSE "failed"]
<1>1. row \in Row /\ row.request = state.row.request
  BY DEF DealRecord, Row, Status
<1>2. Finalize(state) = After(state, "workflow_completed", row)
  BY DEF Finalize
<1>3. After(state, "workflow_completed", row) \in DealRecord
  BY <1>1, AfterType DEF Event
<1>4. After(state, "workflow_completed", row).row = row
  BY DEF After
<1>. HIDE DEF row
<1>. QED BY <1>1, <1>2, <1>3, <1>4

-----------------------------------------------------------------------------
(* The store.                                                              *)

LEMMA GetType ==
  ASSUME StoreTypeOK, NEW d \in Deals
  PROVE  Get(d) \in DealRecord /\ Get(d).row = deals[d]
BY DEF StoreTypeOK, Get, DealRecord

\* What put adds to a journal are events.
LEMMA NewEventsType ==
  ASSUME NEW stored \in Seq(Event), NEW events \in Seq(Event)
  PROVE  stored \o NewEvents(stored, events) \in Seq(Event)
<1>1. NewEvents(stored, events) \in Seq(Event)
  BY DEF NewEvents
<1>. QED BY <1>1

LEMMA PutType ==
  ASSUME StoreTypeOK, NEW d \in Deals, NEW record \in DealRecord, Put(d, record)
  PROVE  StoreTypeOK'
<1>1. record.row \in Row /\ record.events \in Seq(Event)
  BY DEF DealRecord
<1>2. deals' \in [Deals -> Row]
  BY <1>1 DEF Put, StoreTypeOK
<1>3. log' \in [Deals -> Seq(Event)]
  <2>1. log[d] \o NewEvents(log[d], record.events) \in Seq(Event)
    BY <1>1, NewEventsType DEF StoreTypeOK
  <2>. QED BY <2>1 DEF Put, StoreTypeOK
<1>4. published' \in [Deals -> SUBSET Quote]
  BY <1>1 DEF Put, StoreTypeOK, Row
<1>5. issued' \in [Deals -> SUBSET Lives]
  BY <1>1 DEF Put, StoreTypeOK, Row, PaymentDraft
<1>. QED BY <1>2, <1>3, <1>4, <1>5 DEF Put, StoreTypeOK

-----------------------------------------------------------------------------
(* The inductive invariant.                                                *)

\* A deal that exists was asked for, and so was whatever its task carries.
RequestsKnown ==
  \A d \in Deals :
    /\ deals[d].status # "absent" => deals[d].request \in Requests
    /\ task[d].pc = "scheduled" => deals[d].request \in Requests
    /\ task[d].pc \notin {"none", "scheduled"} => task[d].draft.row.request \in Requests
    /\ task[d].pc \in Nodes => task[d].state.row.request \in Requests

\* What the next step of a call needs.
CallReady(this) ==
  /\ this.deal \in Deals
  /\ this.quote \in Quote
  /\ this.record.row.request \in Requests
  /\ this.pc \in {"anchor", "gatekeep"} => this.op = "approve"
  /\ (this.op = "approve" /\ this.pc = "put") => this.artifacts \in Artifacts
  /\ this.op = "sign" => this.record.row.payment_draft \in PaymentDraft

\* A call under way holds the lock.
CallsHold == \A c \in Callers : call[c] # NoCall => lock = c /\ CallReady(call[c])

ServiceInv == TypeOK /\ RequestsKnown /\ CallsHold

\* The process is down only between two of its lives.
MayRestart == ~up => life < MaxLives

TypeInv == ServiceInv /\ MayRestart

-----------------------------------------------------------------------------
(* Steps of the background task.                                           *)

\* A put of a record of a known request.
LEMMA PutKeepsRequests ==
  ASSUME StoreTypeOK, RequestsKnown, NEW d \in Deals, NEW record \in DealRecord,
         record.row.request \in Requests, Put(d, record),
         NEW e \in Deals
  PROVE  /\ deals'[e].status # "absent" => deals'[e].request \in Requests
         /\ task[e].pc = "scheduled" => deals'[e].request \in Requests
         /\ e = d => deals'[e].request \in Requests
<1>1. deals'[d] = record.row /\ (e # d => deals'[e] = deals[e])
  BY DEF Put, StoreTypeOK
<1>. QED BY <1>1 DEF RequestsKnown

\* A task that stores a record and becomes `new'.
LEMMA TaskPut ==
  ASSUME ServiceInv, NEW d \in Deals, NEW record \in DealRecord, Put(d, record),
         record.row.request \in Requests,
         NEW new \in Task, task' = [task EXCEPT ![d] = new],
         new.pc \notin {"none", "scheduled"} => new.draft.row.request \in Requests,
         new.pc \in Nodes => new.state.row.request \in Requests,
         UNCHANGED <<trustVars, call, lock, up, life, faults>>,
         lapsed' \in [Deals -> SUBSET Lapses]
  PROVE  ServiceInv'
<1>1. StoreTypeOK'
  BY PutType DEF ServiceInv, TypeOK
<1>2. TrustTypeOK'
  BY DEF ServiceInv, TypeOK, TrustTypeOK, trustVars
<1>3. TypeOK'
  BY <1>1, <1>2 DEF ServiceInv, TypeOK
<1>4. ASSUME NEW e \in Deals
      PROVE  /\ deals'[e].status # "absent" => deals'[e].request \in Requests
             /\ task'[e].pc = "scheduled" => deals'[e].request \in Requests
             /\ task'[e].pc \notin {"none", "scheduled"} => task'[e].draft.row.request \in Requests
             /\ task'[e].pc \in Nodes => task'[e].state.row.request \in Requests
  <2>1. task'[d] = new /\ (e # d => task'[e] = task[e])
    BY DEF ServiceInv, TypeOK
  <2>. QED BY <1>4, <2>1, PutKeepsRequests DEF ServiceInv, TypeOK, RequestsKnown
<1>5. CallsHold'
  BY DEF ServiceInv, CallsHold
<1>. QED BY <1>3, <1>4, <1>5 DEF ServiceInv, RequestsKnown

LEMMA EmitStep ==
  ASSUME ServiceInv, NEW d \in Deals, NEW draft \in DealRecord, NEW state \in DealRecord,
         draft.row.request \in Requests, state.row.request \in Requests,
         NEW next \in Nodes \cup {"final_put"}, Emit(d, draft, state, next),
         lapsed' \in [Deals -> SUBSET Lapses]
  PROVE  ServiceInv'
<1>. DEFINE new == [pc |-> next, draft |-> draft, state |-> state]
<1>1. new \in Task
  BY DEF Task, TaskPC
<1>2. /\ RecordFromState(draft, state) \in DealRecord
      /\ RecordFromState(draft, state).row.request \in Requests
  BY RecordFromStateType
<1>. QED BY <1>1, <1>2, TaskPut DEF Emit

LEMMA LapsedType ==
  ASSUME ServiceInv, UNCHANGED lapsed
  PROVE  lapsed' \in [Deals -> SUBSET Lapses]
BY DEF ServiceInv, TypeOK

LEMMA TaskStepInv ==
  ASSUME ServiceInv, NEW d \in Deals, TaskStep(d)
  PROVE  ServiceInv'
<1>. DEFINE this == task[d]
<1>0. /\ this \in Task /\ this.draft \in DealRecord /\ this.state \in DealRecord
      /\ life \in Lives /\ StoreTypeOK
      /\ lapsed \in [Deals -> SUBSET Lapses]
      /\ task \in [Deals -> Task]
  BY DEF ServiceInv, TypeOK, Task
<1>1. CASE StartProcess(d)
  <2>1. Get(d) \in DealRecord /\ Get(d).row.request \in Requests
    BY <1>0, <1>1, GetType DEF StartProcess, ServiceInv, RequestsKnown
  <2>. QED BY <1>0, <1>1, <2>1, EmitStep DEF StartProcess, Nodes
<1>2. ASSUME this.pc \in Nodes
      PROVE  this.draft.row.request \in Requests /\ this.state.row.request \in Requests
  BY <1>2 DEF ServiceInv, RequestsKnown, Nodes
<1>3. ASSUME NEW node \in Nodes, NEW state \in DealRecord, NEW next \in Nodes \cup {"final_put"},
             state.row.request = this.state.row.request, NodeStep(d, node, state, next)
      PROVE  ServiceInv'
  <2>1. this.draft.row.request \in Requests /\ state.row.request \in Requests
    BY <1>2, <1>3 DEF NodeStep
  <2>. QED BY <1>0, <1>3, <2>1, EmitStep DEF NodeStep
<1>4. CASE Validate(d)
  <2>. DEFINE state == ValidateMandate(this.state, Live(d))
  <2>1. /\ state \in DealRecord /\ state.row.request = this.state.row.request
        /\ RouteAfterValidation(state) \in Nodes
    BY <1>0, ValidateType
  <2>2. NodeStep(d, "validate", state, RouteAfterValidation(state))
    BY <1>4 DEF Validate
  <2>. HIDE DEF state
  <2>. QED BY <1>3, <2>1, <2>2 DEF Nodes
<1>5. CASE Discover(d)
  <2>. DEFINE state == DiscoverSuppliers(this.state)
  <2>1. NodeStep(d, "discover", state, RouteAfterDiscovery(state))
    BY <1>5 DEF Discover
  <2>2. this.state.row.request \in Requests
    BY <1>2, <2>1 DEF NodeStep, Nodes
  <2>3. /\ state \in DealRecord /\ state.row.request = this.state.row.request
        /\ RouteAfterDiscovery(state) \in Nodes
    BY <1>0, <2>2, DiscoverType
  <2>. HIDE DEF state
  <2>. QED BY <1>3, <2>1, <2>3 DEF Nodes
<1>6. CASE CollectQuotes(d)
  <2>1. this.pc = "request_quotes" /\ lapsed' = [lapsed EXCEPT ![d] = @ \ {"quotes"}]
    BY <1>6 DEF CollectQuotes
  <2>2. PICK answered \in SUBSET this.state.row.supplier_ids :
          Emit(d, this.draft, RequestQuotes(this.state, answered, life),
               RouteAfterQuotes(RequestQuotes(this.state, answered, life)))
    BY <1>6 DEF CollectQuotes
  <2>3. answered \in SUBSET Suppliers
    BY <1>0, <2>2 DEF DealRecord, Row
  <2>4. this.draft.row.request \in Requests /\ this.state.row.request \in Requests
    BY <1>2, <2>1 DEF Nodes
  <2>. DEFINE state == RequestQuotes(this.state, answered, life)
  <2>5. /\ state \in DealRecord /\ state.row.request \in Requests
        /\ RouteAfterQuotes(state) \in Nodes
    BY <1>0, <2>3, <2>4, RequestQuotesType
  <2>6. lapsed' \in [Deals -> SUBSET Lapses]
    BY <1>0, <2>1
  <2>. HIDE DEF state
  <2>. QED BY <1>0, <2>2, <2>4, <2>5, <2>6, EmitStep DEF state
<1>7. CASE RankQuotes(d)
  <2>1. PICK eligible \in SUBSET this.state.row.quotes : \E best \in Recommendable(eligible) :
          NodeStep(d, "rank", Rank(this.state, eligible, best),
                   RouteAfterRanking(Rank(this.state, eligible, best)))
    BY <1>7 DEF RankQuotes
  <2>2. PICK best \in Recommendable(eligible) :
          NodeStep(d, "rank", Rank(this.state, eligible, best),
                   RouteAfterRanking(Rank(this.state, eligible, best)))
    BY <2>1
  <2>3. eligible \in SUBSET Quote
    BY <1>0, <2>1 DEF DealRecord, Row
  <2>. DEFINE state == Rank(this.state, eligible, best)
  <2>4. /\ state \in DealRecord /\ state.row.request = this.state.row.request
        /\ RouteAfterRanking(state) \in Nodes
    BY <1>0, <2>2, <2>3, RankType
  <2>. HIDE DEF state
  <2>. QED BY <1>3, <2>2, <2>4 DEF Nodes, state
<1>8. CASE RankRaises(d)
  <2>. DEFINE new == [this EXCEPT !.pc = "failed"]
  <2>1. new \in Task /\ new.draft = this.draft
    BY <1>0 DEF Task, TaskPC
  <2>2. task' = [task EXCEPT ![d] = new]
    BY <1>8 DEF RankRaises
  <2>3. this.draft.row.request \in Requests
    BY <1>2, <1>8 DEF RankRaises, Nodes
  <2>4. TypeOK'
    BY <1>8, <2>1, <2>2 DEF RankRaises, ServiceInv, TypeOK, StoreTypeOK, TrustTypeOK,
      storeVars, trustVars
  <2>5. RequestsKnown'
    BY <1>0, <1>8, <2>1, <2>2, <2>3 DEF RankRaises, ServiceInv, RequestsKnown, storeVars, Nodes
  <2>6. CallsHold'
    BY <1>8 DEF RankRaises, ServiceInv, CallsHold
  <2>. QED BY <2>4, <2>5, <2>6 DEF ServiceInv
<1>9. CASE ExplainComparison(d)
  <2>1. NodeStep(d, "explain", Explain(this.state), "finalize")
    BY <1>9 DEF ExplainComparison
  <2>. QED BY <1>0, <1>3, <2>1, ExplainType DEF Nodes
<1>10. CASE FinalizeWorkflow(d)
  <2>1. NodeStep(d, "finalize", Finalize(this.state), "final_put")
    BY <1>10 DEF FinalizeWorkflow
  <2>. QED BY <1>0, <1>3, <2>1, FinalizeType DEF Nodes
<1>11. CASE FinalPut(d)
  <2>. DEFINE record == RecordFromState(this.draft, this.state)
  <2>1. this.draft.row.request \in Requests
    BY <1>11 DEF FinalPut, ServiceInv, RequestsKnown
  <2>2. record \in DealRecord /\ record.row.request \in Requests
    BY <1>0, <2>1, RecordFromStateType
  <2>3. Put(d, record) /\ task' = [task EXCEPT ![d] = NoTask]
        /\ UNCHANGED <<trustVars, call, lock, up, life, faults, lapsed>>
    BY <1>11 DEF FinalPut
  <2>. HIDE DEF record
  <2>4. NoTask.pc = "none"
    BY DEF NoTask
  <2>. QED BY <1>0, <2>2, <2>3, <2>4, NoTaskType, TaskPut DEF Nodes
<1>12. CASE FailedPut(d)
  <2>. DEFINE record == FailedRecord(this.draft)
              row == [this.draft.row EXCEPT !.status = "failed", !.errors = TRUE]
  <2>1. this.draft.row.request \in Requests
    BY <1>12 DEF FailedPut, ServiceInv, RequestsKnown
  <2>2. row \in Row /\ row.request \in Requests
    BY <1>0, <2>1 DEF DealRecord, Row, Status
  <2>3. record \in DealRecord /\ record.row.request \in Requests
    <3>1. Append(this.draft.events, "workflow_failed") \in Seq(Event)
      BY <1>0 DEF DealRecord, Event
    <3>2. record = [row |-> row, events |-> Append(this.draft.events, "workflow_failed")]
      BY DEF FailedRecord
    <3>. HIDE DEF row, record
    <3>. QED BY <2>2, <3>1, <3>2 DEF DealRecord
  <2>4. Put(d, record) /\ task' = [task EXCEPT ![d] = NoTask]
        /\ UNCHANGED <<trustVars, call, lock, up, life, faults, lapsed>>
    BY <1>12 DEF FailedPut
  <2>. HIDE DEF record
  <2>5. NoTask.pc = "none"
    BY DEF NoTask
  <2>. QED BY <1>0, <2>3, <2>4, <2>5, NoTaskType, TaskPut DEF Nodes
<1>. QED BY <1>1, <1>4, <1>5, <1>6, <1>7, <1>8, <1>9, <1>10, <1>11, <1>12 DEF TaskStep

LEMMA TaskFaultInv ==
  ASSUME ServiceInv, NEW d \in Deals, TaskFault(d)
  PROVE  ServiceInv'
<1>1. /\ task \in [Deals -> Task] /\ task[d] \in Task /\ task[d].draft \in DealRecord
      /\ StoreTypeOK
  BY DEF ServiceInv, TypeOK, Task
<1>2. PICK new \in Task :
        /\ task' = [task EXCEPT ![d] = new]
        /\ new.pc \in {"none", "failed"}
        /\ new.pc = "failed" => new.draft.row.request \in Requests
  <2>1. CASE task[d].pc = "scheduled" /\ task' = [task EXCEPT ![d].pc = "failed", ![d].draft = Get(d)]
    <3>. DEFINE new == [task[d] EXCEPT !.pc = "failed", !.draft = Get(d)]
    <3>1. Get(d) \in DealRecord /\ Get(d).row.request \in Requests
      BY <1>1, <2>1, GetType DEF ServiceInv, RequestsKnown
    <3>2. new \in Task /\ new.pc = "failed" /\ new.draft = Get(d)
      BY <1>1, <3>1 DEF Task, TaskPC
    <3>3. task' = [task EXCEPT ![d] = new]
      BY <1>1, <2>1
    <3>. QED BY <3>1, <3>2, <3>3
  <2>2. CASE task[d].pc \in Nodes /\ task' = [task EXCEPT ![d].pc = "failed"]
    <3>. DEFINE new == [task[d] EXCEPT !.pc = "failed"]
    <3>1. new \in Task /\ new.pc = "failed" /\ new.draft = task[d].draft
      BY <1>1 DEF Task, TaskPC
    <3>2. task[d].draft.row.request \in Requests
      BY <2>2 DEF ServiceInv, RequestsKnown, Nodes
    <3>3. task' = [task EXCEPT ![d] = new]
      BY <2>2
    <3>. QED BY <3>1, <3>2, <3>3
  <2>3. CASE task' = [task EXCEPT ![d] = NoTask]
    BY <2>3, NoTaskType DEF NoTask
  <2>. QED BY <2>1, <2>2, <2>3 DEF TaskFault
<1>3. TypeOK'
  <2>1. task' \in [Deals -> Task]
    BY <1>1, <1>2
  <2>2. faults' \in 0 .. MaxFaults
    BY ServiceAssumption DEF TaskFault, ServiceInv, TypeOK
  <2>. QED BY <2>1, <2>2 DEF TaskFault, ServiceInv, TypeOK, StoreTypeOK, TrustTypeOK,
    storeVars, trustVars
<1>4. RequestsKnown'
  BY <1>1, <1>2 DEF TaskFault, ServiceInv, RequestsKnown, storeVars, Nodes
<1>5. CallsHold'
  BY DEF TaskFault, ServiceInv, CallsHold
<1>. QED BY <1>3, <1>4, <1>5 DEF ServiceInv

-----------------------------------------------------------------------------
(* Steps of the calls.                                                     *)

\* A caller that enters with a call that is ready.
LEMMA EnterInv ==
  ASSUME ServiceInv, NEW c \in Callers, NEW d \in Deals, Enter(c, d),
         NEW this \in Call, CallReady(this), call' = [call EXCEPT ![c] = this],
         UNCHANGED <<storeVars, trustVars, task, up, life, faults, lapsed>>
  PROVE  ServiceInv'
<1>1. TypeOK'
  BY DEF Enter, ServiceInv, TypeOK, StoreTypeOK, TrustTypeOK, storeVars, trustVars
<1>2. RequestsKnown'
  BY DEF ServiceInv, RequestsKnown, storeVars
<1>3. CallsHold'
  BY ServiceAssumption DEF Enter, ServiceInv, TypeOK, CallsHold
<1>. QED BY <1>1, <1>2, <1>3 DEF ServiceInv

\* A call that goes on.
LEMMA GoOnInv ==
  ASSUME ServiceInv, NEW c \in Callers, call[c] # NoCall,
         NEW this \in Call, CallReady(this), call' = [call EXCEPT ![c] = this],
         StoreTypeOK', TrustTypeOK', RequestsKnown',
         UNCHANGED <<task, lock, up, life, faults, lapsed>>
  PROVE  ServiceInv'
<1>1. TypeOK'
  BY DEF ServiceInv, TypeOK
<1>2. CallsHold'
  BY DEF ServiceInv, TypeOK, CallsHold
<1>. QED BY <1>1, <1>2 DEF ServiceInv

\* A call that leaves; nobody else was inside.
LEMMA LeaveInv ==
  ASSUME ServiceInv, NEW c \in Callers, call[c] # NoCall, Leave(c),
         StoreTypeOK', TrustTypeOK', RequestsKnown', faults' \in 0 .. MaxFaults,
         UNCHANGED <<task, up, life, lapsed>>
  PROVE  ServiceInv'
<1>1. TypeOK'
  BY NoCallType DEF Leave, ServiceInv, TypeOK
<1>2. CallsHold'
  BY DEF Leave, ServiceInv, TypeOK, CallsHold
<1>. QED BY <1>1, <1>2 DEF ServiceInv

\* A put of a call.
LEMMA CallPut ==
  ASSUME ServiceInv, NEW d \in Deals, NEW record \in DealRecord, Put(d, record),
         record.row.request \in Requests, UNCHANGED <<trustVars, task>>
  PROVE  StoreTypeOK' /\ TrustTypeOK' /\ RequestsKnown'
<1>1. StoreTypeOK'
  BY PutType DEF ServiceInv, TypeOK
<1>2. TrustTypeOK'
  BY DEF ServiceInv, TypeOK, TrustTypeOK, trustVars
<1>3. RequestsKnown'
  BY PutKeepsRequests DEF ServiceInv, TypeOK, RequestsKnown
<1>. QED BY <1>1, <1>2, <1>3

\* Steps that leave the store, the trust controls or both as they are.
LEMMA StoreUnchanged ==
  ASSUME ServiceInv, UNCHANGED <<storeVars, task>>
  PROVE  StoreTypeOK' /\ RequestsKnown'
BY DEF ServiceInv, TypeOK, StoreTypeOK, RequestsKnown, storeVars

LEMMA TrustUnchanged ==
  ASSUME ServiceInv, UNCHANGED trustVars
  PROVE  TrustTypeOK'
BY DEF ServiceInv, TypeOK, TrustTypeOK, trustVars

\* A deal with a status of its own has a request.
LEMMA DealRecordKnown ==
  ASSUME ServiceInv, NEW d \in Deals, deals[d].status # "absent"
  PROVE  Get(d) \in DealRecord /\ Get(d).row.request \in Requests /\ Get(d).row = deals[d]
BY GetType DEF ServiceInv, TypeOK, RequestsKnown

LEMMA BeginApproveInv ==
  ASSUME ServiceInv, NEW c \in Callers, NEW d \in Deals, BeginApprove(c, d)
  PROVE  ServiceInv'
<1>1. PICK q \in ApprovableHashes(d) :
        LET approval ==
              [NoCall EXCEPT !.op = "approve", !.deal = d, !.record = Get(d), !.quote = q]
        IN /\ Enter(c, d)
           /\ Approvable(d, q)
           /\ \/ /\ purchases[d] # None
                 /\ call' = [call EXCEPT ![c] =
                      [approval EXCEPT !.pc = "put", !.artifacts = purchases[d]]]
              \/ /\ purchases[d] = None
                 /\ PoliciesAllow(deals[d].request, Live(d))
                 /\ Len(ledger[d]) < MaxAnchors
                 /\ call' = [call EXCEPT ![c] = [approval EXCEPT !.pc = "anchor"]]
           /\ UNCHANGED <<storeVars, trustVars, task, up, life, faults, lapsed>>
  BY DEF BeginApprove
<1>2. q \in Quote
  BY <1>1 DEF ApprovableHashes, ServiceInv, TypeOK, StoreTypeOK, Row
<1>3. Get(d) \in DealRecord /\ Get(d).row.request \in Requests
  BY <1>1, DealRecordKnown DEF Approvable
<1>4. purchases[d] \in Artifacts \cup {None}
  BY DEF ServiceInv, TypeOK, TrustTypeOK
<1>. DEFINE approval ==
       [NoCall EXCEPT !.op = "approve", !.deal = d, !.record = Get(d), !.quote = q]
<1>5. ASSUME NEW this, \/ this = [approval EXCEPT !.pc = "anchor"]
                       \/ /\ purchases[d] # None
                          /\ this = [approval EXCEPT !.pc = "put", !.artifacts = purchases[d]]
      PROVE  this \in Call /\ CallReady(this)
  BY <1>2, <1>3, <1>4, <1>5, NoCallType DEF NoCall, Call, CallPC, CallReady, HumanDecision
<1>6. PICK this : /\ call' = [call EXCEPT ![c] = this]
                  /\ \/ this = [approval EXCEPT !.pc = "anchor"]
                     \/ /\ purchases[d] # None
                        /\ this = [approval EXCEPT !.pc = "put", !.artifacts = purchases[d]]
  BY <1>1
<1>. QED BY <1>1, <1>5, <1>6, EnterInv

LEMMA BeginDecideInv ==
  ASSUME ServiceInv, NEW c \in Callers, NEW d \in Deals,
         NEW decision \in {"reject", "request_changes"}, BeginDecide(c, d, decision)
  PROVE  ServiceInv'
<1>. DEFINE this ==
       [NoCall EXCEPT !.op = decision, !.pc = "put", !.deal = d, !.record = Get(d),
                      !.quote = deals[d].approval_snapshot]
<1>1. deals[d].approval_snapshot \in Quote
  BY DEF BeginDecide, ServiceInv, TypeOK, StoreTypeOK
<1>2. Get(d) \in DealRecord /\ Get(d).row.request \in Requests
  BY DealRecordKnown DEF BeginDecide
<1>3. this \in Call /\ CallReady(this)
  BY <1>1, <1>2, NoCallType DEF NoCall, Call, CallPC, CallReady, HumanDecision
<1>. HIDE DEF this
<1>. QED BY <1>3, EnterInv DEF BeginDecide, this

LEMMA BeginSignInv ==
  ASSUME ServiceInv, NEW c \in Callers, NEW d \in Deals, BeginSign(c, d)
  PROVE  ServiceInv'
<1>. DEFINE this ==
       [NoCall EXCEPT !.op = "sign", !.pc = "put", !.deal = d, !.record = Get(d),
                      !.quote = deals[d].selected_quote]
<1>1. deals[d] \in Row
  BY DEF ServiceInv, TypeOK, StoreTypeOK
<1>2. deals[d].selected_quote \in Quote /\ deals[d].payment_draft \in PaymentDraft
  BY <1>1 DEF BeginSign, Row
<1>3. /\ Get(d) \in DealRecord /\ Get(d).row.request \in Requests
      /\ Get(d).row = deals[d]
  BY DealRecordKnown DEF BeginSign
<1>4. this \in Call /\ CallReady(this)
  BY <1>2, <1>3, NoCallType DEF NoCall, Call, CallPC, CallReady
<1>5. /\ Enter(c, d) /\ call' = [call EXCEPT ![c] = this]
      /\ UNCHANGED <<storeVars, trustVars, task, up, life, faults, lapsed>>
  BY DEF BeginSign
<1>. HIDE DEF this
<1>. QED BY <1>4, <1>5, EnterInv

\* What is known of a call under way.
LEMMA BusyCall ==
  ASSUME ServiceInv, NEW c \in Callers, call[c].pc # "idle"
  PROVE  /\ call[c] # NoCall /\ call[c] \in Call /\ CallReady(call[c]) /\ lock = c
         /\ call[c].record \in DealRecord
         /\ call[c].record.row \in Row
         /\ call[c].record.events \in Seq(Event)
<1>1. call[c] # NoCall /\ call[c] \in Call
  BY DEF NoCall, ServiceInv, TypeOK
<1>. QED BY <1>1 DEF ServiceInv, CallsHold, Call, DealRecord

LEMMA AnchorIntentInv ==
  ASSUME ServiceInv, NEW c \in Callers, AnchorIntent(c)
  PROVE  ServiceInv'
<1>. DEFINE d == call[c].deal
            q == call[c].quote
            this == [call[c] EXCEPT !.pc = "gatekeep", !.anchor = Len(ledger[d]) + 1]
<1>1. /\ call[c] # NoCall /\ call[c] \in Call /\ CallReady(call[c])
      /\ call[c].pc = "anchor" /\ d \in Deals /\ q \in Quote
  BY BusyCall DEF AnchorIntent, CallReady
<1>2. ledger[d] \in Seq(AnchorRow(Deals, Quote))
  BY <1>1 DEF ServiceInv, TypeOK, TrustTypeOK
<1>3. NextAnchor(d, ledger[d], q) \in AnchorRow(Deals, Quote)
  BY <1>1, <1>2, NextAnchorType
<1>4. TrustTypeOK'
  <2>1. Append(ledger[d], NextAnchor(d, ledger[d], q)) \in Seq(AnchorRow(Deals, Quote))
    BY <1>2, <1>3
  <2>. QED BY <1>1, <2>1 DEF AnchorIntent, AppendAnchor, ServiceInv, TypeOK, TrustTypeOK
<1>5. this \in Call /\ CallReady(this)
  <2>1. Len(ledger[d]) + 1 \in Nat
    BY <1>2
  <2>. QED BY <1>1, <2>1 DEF Call, CallPC, CallReady
<1>6. call' = [call EXCEPT ![c] = this]
      /\ UNCHANGED <<storeVars, task, lock, up, life, faults, lapsed>>
  BY DEF AnchorIntent
<1>7. StoreTypeOK' /\ RequestsKnown'
  BY <1>6, StoreUnchanged
<1>. HIDE DEF this
<1>. QED BY <1>1, <1>4, <1>5, <1>6, <1>7, GoOnInv

\* The draft that is created, or was before, and the artifacts with it.
LEMMA DraftType ==
  ASSUME TrustTypeOK, NEW d \in Deals, NEW q \in Quote, NEW n \in Lives
  PROVE  DraftFor(d, q, n) \in PaymentDraft
BY DEF TrustTypeOK, DraftFor, PaymentDraft

LEMMA CreateDraftInv ==
  ASSUME ServiceInv, NEW c \in Callers, CreateDraft(c)
  PROVE  ServiceInv'
<1>. DEFINE d == call[c].deal
            q == call[c].quote
            number == call[c].anchor
            draft == DraftFor(d, q, life)
            artifacts == [intent |-> q, anchor |-> number, draft |-> draft]
            this == [call[c] EXCEPT !.pc = "put", !.artifacts = artifacts]
<1>1. /\ call[c] # NoCall /\ call[c] \in Call /\ CallReady(call[c])
      /\ call[c].pc = "gatekeep" /\ d \in Deals /\ q \in Quote /\ number \in Nat
  BY BusyCall DEF CreateDraft, CallReady, Call
<1>2. draft \in PaymentDraft
  BY <1>1, DraftType DEF ServiceInv, TypeOK
<1>3. artifacts \in Artifacts
  BY <1>1, <1>2 DEF Artifacts
<1>4. /\ payments' = [payments EXCEPT ![d] = draft]
      /\ purchases' = [purchases EXCEPT ![d] = artifacts]
      /\ UNCHANGED <<ledger, killSwitch>>
  BY DEF CreateDraft, CreatePaymentDraft
<1>5. TrustTypeOK'
  <2>. HIDE DEF draft, artifacts
  <2>. QED BY <1>1, <1>2, <1>3, <1>4 DEF ServiceInv, TypeOK, TrustTypeOK
<1>6. purchases'[d] = artifacts
  BY <1>1, <1>4 DEF ServiceInv, TypeOK, TrustTypeOK
<1>7. call' = [call EXCEPT ![c] = this]
      /\ UNCHANGED <<storeVars, task, lock, up, life, faults, lapsed>>
  BY <1>6 DEF CreateDraft
<1>8. this \in Call /\ CallReady(this)
  <2>. HIDE DEF artifacts
  <2>. QED BY <1>1, <1>3 DEF Call, CallPC, CallReady
<1>9. StoreTypeOK' /\ RequestsKnown'
  BY <1>7, StoreUnchanged
<1>. HIDE DEF this
<1>. QED BY <1>1, <1>5, <1>7, <1>8, <1>9, GoOnInv

\* A call that leaves without touching the store and the trust controls.
LEMMA LeaveOnly ==
  ASSUME ServiceInv, NEW c \in Callers, call[c] # NoCall, Leave(c),
         faults' \in 0 .. MaxFaults,
         UNCHANGED <<storeVars, trustVars, task, up, life, lapsed>>
  PROVE  ServiceInv'
BY StoreUnchanged, TrustUnchanged, LeaveInv

LEMMA FaultsType ==
  ASSUME ServiceInv, UNCHANGED faults
  PROVE  faults' \in 0 .. MaxFaults
BY DEF ServiceInv, TypeOK

\* A call that stores a record of its deal and leaves.
LEMMA PutAndLeave ==
  ASSUME ServiceInv, NEW c \in Callers, call[c] # NoCall, Leave(c),
         NEW d \in Deals, NEW record \in DealRecord, Put(d, record),
         record.row.request \in Requests,
         UNCHANGED <<trustVars, task, up, life, faults, lapsed>>
  PROVE  ServiceInv'
BY CallPut, FaultsType, LeaveInv

LEMMA PutApprovalInv ==
  ASSUME ServiceInv, NEW c \in Callers, PutApproval(c)
  PROVE  ServiceInv'
<1>. DEFINE this == call[c]
            q == this.quote
            row == [this.record.row EXCEPT
                      !.status = "payment_signature_required",
                      !.approval_snapshot = q,
                      !.selected_quote = q,
                      !.payment_draft = this.artifacts.draft,
                      !.purchase_intent = this.artifacts.intent,
                      !.ledger_anchor = this.artifacts.anchor,
                      !.human_decision = [decision |-> "approve", snapshot |-> q]]
            record == ApprovedRecord(this.record, q, this.artifacts)
<1>1. /\ this # NoCall /\ CallReady(this) /\ this.op = "approve" /\ this.pc = "put"
      /\ this.record.row \in Row /\ this.record.events \in Seq(Event)
  BY BusyCall DEF PutApproval
<1>2. /\ this.deal \in Deals /\ q \in Quote /\ this.artifacts \in Artifacts
      /\ this.record.row.request \in Requests
  BY <1>1 DEF CallReady
<1>3. /\ this.artifacts.draft \in PaymentDraft
      /\ this.artifacts.intent \in Quote
      /\ this.artifacts.anchor \in Nat
  BY <1>2 DEF Artifacts
<1>4. [decision |-> "approve", snapshot |-> q] \in Decision
  BY <1>2 DEF Decision, HumanDecision
<1>5. row \in Row /\ row.request \in Requests
  BY <1>1, <1>2, <1>3, <1>4 DEF Row, Status
<1>6. this.record.events \o ApprovalEvents \in Seq(Event)
  BY <1>1, ApprovalBatch, Joined
<1>7. record = [row |-> row, events |-> this.record.events \o ApprovalEvents]
  BY DEF ApprovedRecord
<1>8. record \in DealRecord /\ record.row.request \in Requests
  <2>. HIDE DEF row, record
  <2>. QED BY <1>5, <1>6, <1>7 DEF DealRecord
<1>9. /\ Put(this.deal, record) /\ Leave(c)
      /\ UNCHANGED <<trustVars, task, up, life, faults, lapsed>>
  BY DEF PutApproval
<1>. HIDE DEF record
<1>. QED BY <1>1, <1>2, <1>8, <1>9, PutAndLeave

LEMMA PutDecisionInv ==
  ASSUME ServiceInv, NEW c \in Callers, PutDecision(c)
  PROVE  ServiceInv'
<1>. DEFINE this == call[c]
            status == IF this.op = "reject" THEN "rejected" ELSE "changes_requested"
            event == IF this.op = "reject" THEN "human_reject" ELSE "human_request_changes"
            decision == [decision |-> this.op, snapshot |-> this.quote]
            row == [this.record.row EXCEPT !.status = status, !.human_decision = decision]
            record == DecidedRecord(this.record, this.op, this.quote)
<1>1. /\ this # NoCall /\ CallReady(this) /\ this.op \in {"reject", "request_changes"}
      /\ this.record.row \in Row /\ this.record.events \in Seq(Event)
  BY BusyCall DEF PutDecision
<1>2. this.deal \in Deals /\ this.quote \in Quote /\ this.record.row.request \in Requests
  BY <1>1 DEF CallReady
<1>3. decision \in Decision /\ status \in Status /\ event \in Event
  BY <1>1, <1>2 DEF Decision, HumanDecision, Status, Event
<1>4. record = [row |-> row, events |-> Append(this.record.events, event)]
  BY DEF DecidedRecord
<1>5. row \in Row /\ row.request \in Requests
  <2>. HIDE DEF status, decision
  <2>. QED BY <1>1, <1>2, <1>3 DEF Row
<1>6. record \in DealRecord /\ record.row.request \in Requests
  <2>. HIDE DEF row, record, event
  <2>. QED BY <1>1, <1>3, <1>4, <1>5 DEF DealRecord
<1>7. /\ Put(this.deal, record) /\ Leave(c)
      /\ UNCHANGED <<trustVars, task, up, life, faults, lapsed>>
  BY DEF PutDecision
<1>. HIDE DEF record
<1>. QED BY <1>1, <1>2, <1>6, <1>7, PutAndLeave

LEMMA PutSignedInv ==
  ASSUME ServiceInv, NEW c \in Callers, PutSigned(c)
  PROVE  ServiceInv'
<1>. DEFINE this == call[c]
            draft == [this.record.row.payment_draft EXCEPT !.signed = TRUE]
            row == [this.record.row EXCEPT !.status = "completed", !.payment_draft = draft]
            record == SignedRecord(this.record)
            next == [this EXCEPT !.pc = "append_outbox"]
<1>1. /\ this # NoCall /\ this \in Call /\ CallReady(this) /\ this.op = "sign"
      /\ this.record.row \in Row /\ this.record.events \in Seq(Event)
  BY BusyCall DEF PutSigned
<1>2. /\ this.deal \in Deals /\ this.record.row.request \in Requests
      /\ this.record.row.payment_draft \in PaymentDraft
  BY <1>1 DEF CallReady
<1>3. draft \in PaymentDraft
  BY <1>2 DEF PaymentDraft
<1>4. this.record.events \o SignatureEvents(this.record.row) \in Seq(Event)
  BY <1>1, SignatureBatch, Joined
<1>5. record = [row |-> row,
                events |-> this.record.events \o SignatureEvents(this.record.row)]
  BY <1>1 DEF SignedRecord, SignatureEvents, Row
<1>6. row \in Row /\ row.request \in Requests
  <2>. HIDE DEF draft
  <2>. QED BY <1>1, <1>2, <1>3 DEF Row, Status
<1>7. record \in DealRecord /\ record.row.request \in Requests
  <2>. HIDE DEF row, record
  <2>. QED BY <1>4, <1>5, <1>6 DEF DealRecord
<1>8. next \in Call /\ CallReady(next)
  BY <1>1 DEF Call, CallPC, CallReady
<1>9. /\ Put(this.deal, record) /\ call' = [call EXCEPT ![c] = next]
      /\ UNCHANGED <<trustVars, task, lock, up, life, faults, lapsed>>
  BY DEF PutSigned, NextPC
<1>. HIDE DEF record, next
<1>10. StoreTypeOK' /\ TrustTypeOK' /\ RequestsKnown'
  BY <1>2, <1>7, <1>9, CallPut
<1>. QED BY <1>1, <1>8, <1>9, <1>10, GoOnInv

\* The operations on the outbox leave the deals as they are.
LEMMA OutboxType ==
  ASSUME ServiceInv, NEW d \in Deals, NEW messages,
         AppendOutbox(d, messages) \/ MarkOutboxPublished(d),
         UNCHANGED task
  PROVE  StoreTypeOK' /\ RequestsKnown'
<1>1. outbox' \in [Deals -> [Message -> Delivery]]
  <2>1. outbox \in [Deals -> [Message -> Delivery]] /\ outbox[d] \in [Message -> Delivery]
    BY DEF ServiceInv, TypeOK, StoreTypeOK
  <2>2. PICK new \in [Message -> Delivery] : outbox' = [outbox EXCEPT ![d] = new]
    <3>1. CASE AppendOutbox(d, messages)
      <4>. DEFINE new == [m \in Message |->
             IF m \in messages /\ outbox[d][m] = "absent" THEN "pending" ELSE outbox[d][m]]
      <4>1. new \in [Message -> Delivery]
        BY <2>1 DEF Delivery
      <4>2. outbox' = [outbox EXCEPT ![d] = new]
        BY <2>1, <3>1 DEF AppendOutbox
      <4>. QED BY <4>1, <4>2
    <3>2. CASE MarkOutboxPublished(d)
      <4>. DEFINE new == [m \in Message |->
             IF outbox[d][m] = "pending" THEN "published" ELSE outbox[d][m]]
      <4>1. new \in [Message -> Delivery]
        BY <2>1 DEF Delivery
      <4>2. outbox' = [outbox EXCEPT ![d] = new]
        BY <2>1, <3>2 DEF MarkOutboxPublished
      <4>. QED BY <4>1, <4>2
    <3>. QED BY <3>1, <3>2
  <2>. QED BY <2>1, <2>2
<1>2. UNCHANGED <<deals, log, published, issued>>
  BY DEF AppendOutbox, MarkOutboxPublished
<1>. QED BY <1>1, <1>2 DEF ServiceInv, TypeOK, StoreTypeOK, RequestsKnown

LEMMA QueueMessagesInv ==
  ASSUME ServiceInv, NEW c \in Callers, QueueMessages(c)
  PROVE  ServiceInv'
<1>. DEFINE this == call[c]
            next == [this EXCEPT !.pc = "mark_published"]
<1>1. this # NoCall /\ this \in Call /\ CallReady(this)
  BY BusyCall DEF QueueMessages
<1>2. this.deal \in Deals
  BY <1>1 DEF CallReady
<1>3. next \in Call /\ CallReady(next)
  BY <1>1 DEF Call, CallPC, CallReady
<1>4. /\ call' = [call EXCEPT ![c] = next]
      /\ AppendOutbox(this.deal, OutboxMessages(this.record, this.quote))
      /\ UNCHANGED <<trustVars, task, lock, up, life, faults, lapsed>>
  BY DEF QueueMessages, NextPC
<1>5. StoreTypeOK' /\ RequestsKnown' /\ TrustTypeOK'
  BY <1>2, <1>4, OutboxType, TrustUnchanged
<1>. HIDE DEF next
<1>. QED BY <1>1, <1>3, <1>4, <1>5, GoOnInv

LEMMA MarkPublishedInv ==
  ASSUME ServiceInv, NEW c \in Callers, MarkPublished(c)
  PROVE  ServiceInv'
<1>1. call[c] # NoCall /\ call[c].deal \in Deals
  BY BusyCall DEF MarkPublished, CallReady
<1>2. StoreTypeOK' /\ RequestsKnown' /\ TrustTypeOK'
  BY <1>1, OutboxType, TrustUnchanged DEF MarkPublished
<1>. QED BY <1>1, <1>2, FaultsType, LeaveInv DEF MarkPublished

LEMMA CallStepInv ==
  ASSUME ServiceInv, NEW c \in Callers, CallStep(c)
  PROVE  ServiceInv'
<1>1. CASE RefusePurchase(c)
  <2>1. call[c] # NoCall
    BY <1>1, BusyCall DEF RefusePurchase
  <2>. QED BY <1>1, <2>1, FaultsType, LeaveOnly DEF RefusePurchase
<1>. QED BY <1>1, AnchorIntentInv, CreateDraftInv, PutApprovalInv, PutDecisionInv,
            PutSignedInv, QueueMessagesInv, MarkPublishedInv DEF CallStep

LEMMA CallFaultInv ==
  ASSUME ServiceInv, NEW c \in Callers, CallFault(c)
  PROVE  ServiceInv'
<1>1. faults' \in 0 .. MaxFaults
  BY ServiceAssumption DEF CallFault, ServiceInv, TypeOK
<1>. QED BY <1>1, LeaveOnly DEF CallFault

-----------------------------------------------------------------------------
(* The remaining steps, and type correctness.                              *)

LEMMA SubmitInv ==
  ASSUME ServiceInv, NEW d \in Deals, NEW request \in Requests, Submit(d, request)
  PROVE  ServiceInv'
<1>. DEFINE record == [row |-> EmptyRow("draft", request), events |-> <<"deal_created">>]
<1>1. EmptyRow("draft", request) \in Row /\ EmptyRow("draft", request).request = request
  BY EmptyRowType DEF Status, EmptyRow
<1>2. record \in DealRecord /\ record.row.request \in Requests
  BY <1>1 DEF DealRecord, Event
<1>3. /\ Put(d, record) /\ task' = [task EXCEPT ![d] = ScheduledTask]
      /\ UNCHANGED <<trustVars, call, lock, up, life, faults, lapsed>>
  BY DEF Submit
<1>4. ScheduledTask.pc = "scheduled"
  BY DEF ScheduledTask, NoTask
<1>. HIDE DEF record
<1>. QED BY <1>2, <1>3, <1>4, NoTaskType, LapsedType, TaskPut DEF Nodes

LEMMA LapseInv ==
  ASSUME ServiceInv, NEW d \in Deals, NEW what \in Lapses, Lapse(d, what)
  PROVE  ServiceInv'
<1>1. TypeOK'
  BY DEF Lapse, ServiceInv, TypeOK, StoreTypeOK, TrustTypeOK, storeVars, trustVars
<1>2. RequestsKnown' /\ CallsHold'
  BY DEF Lapse, ServiceInv, RequestsKnown, CallsHold, storeVars
<1>. QED BY <1>1, <1>2 DEF ServiceInv

LEMMA CrashInv ==
  ASSUME ServiceInv, Crash
  PROVE  ServiceInv'
<1>1. TypeOK'
  BY NoTaskType, NoCallType
  DEF Crash, NoResults, ServiceInv, TypeOK, StoreTypeOK, TrustTypeOK, storeVars
<1>2. RequestsKnown'
  BY DEF Crash, ServiceInv, RequestsKnown, NoTask, Nodes, storeVars
<1>3. CallsHold'
  BY DEF Crash, CallsHold
<1>. QED BY <1>1, <1>2, <1>3 DEF ServiceInv

LEMMA RestartInv ==
  ASSUME ServiceInv, Restart, life' \in Lives
  PROVE  ServiceInv'
<1>1. PICK listed \in SUBSET Drafts :
        task' = [d \in Deals |-> IF d \in listed THEN ScheduledTask ELSE NoTask]
  BY DEF Restart
<1>2. TypeOK'
  BY <1>1, NoTaskType, ServiceAssumption
  DEF Restart, ServiceInv, TypeOK, StoreTypeOK, TrustTypeOK, storeVars
<1>3. RequestsKnown'
  BY <1>1 DEF Restart, ServiceInv, RequestsKnown, Drafts, NoTask, ScheduledTask, Nodes, storeVars
<1>4. CallsHold'
  BY DEF Restart, ServiceInv, CallsHold
<1>. QED BY <1>2, <1>3, <1>4 DEF ServiceInv

LEMMA TaskStepKeepsUp ==
  ASSUME NEW d \in Deals, TaskStep(d)
  PROVE  UNCHANGED <<up, life>>
BY DEF TaskStep, StartProcess, Validate, Discover, CollectQuotes, RankQuotes, RankRaises,
  ExplainComparison, FinalizeWorkflow, FinalPut, FailedPut, NodeStep, Emit

LEMMA CallStepKeepsUp ==
  ASSUME NEW c \in Callers, CallStep(c)
  PROVE  UNCHANGED <<up, life>>
BY DEF CallStep, AnchorIntent, CreateDraft, RefusePurchase, PutApproval, PutDecision,
  PutSigned, QueueMessages, MarkPublished

LEMMA TypeInit == Init => TypeInv
<1>. SUFFICES ASSUME Init
              PROVE  TypeInv
  OBVIOUS
<1>1. StoreTypeOK
  BY NoRecordType DEF Init, StoreInit, StoreTypeOK, DealRecord, Delivery
<1>2. TrustTypeOK
  BY ServiceAssumption DEF Init, TrustInit, NoResults, TrustTypeOK
<1>3. TypeOK
  BY <1>1, <1>2, NoTaskType, NoCallType, StoreAssumption, ServiceAssumption
  DEF Init, TypeOK, Lives
<1>4. RequestsKnown
  BY DEF Init, StoreInit, RequestsKnown, NoRecord, EmptyRow, NoTask, Nodes
<1>5. CallsHold
  BY DEF Init, CallsHold
<1>6. MayRestart
  BY DEF Init, MayRestart
<1>. QED BY <1>3, <1>4, <1>5, <1>6 DEF TypeInv, ServiceInv

LEMMA TypeStep == TypeInv /\ [Next]_vars => TypeInv'
<1>. SUFFICES ASSUME TypeInv, [Next]_vars
              PROVE  TypeInv'
  OBVIOUS
<1>0. ServiceInv /\ MayRestart
  BY DEF TypeInv
<1>1. ASSUME NEW d \in Deals, NEW request \in Requests, Submit(d, request)
      PROVE  TypeInv'
  BY <1>0, <1>1, SubmitInv DEF Submit, TypeInv, MayRestart
<1>2. ASSUME NEW d \in Deals, TaskStep(d)
      PROVE  TypeInv'
  BY <1>0, <1>2, TaskStepInv, TaskStepKeepsUp DEF TypeInv, MayRestart
<1>3. ASSUME NEW d \in Deals, TaskFault(d)
      PROVE  TypeInv'
  BY <1>0, <1>3, TaskFaultInv DEF TaskFault, TypeInv, MayRestart
<1>4. ASSUME NEW d \in Deals, NEW what \in Lapses, Lapse(d, what)
      PROVE  TypeInv'
  BY <1>0, <1>4, LapseInv DEF Lapse, TypeInv, MayRestart
<1>5. ASSUME NEW c \in Callers, NEW d \in Deals,
             \/ BeginApprove(c, d)
             \/ \E decision \in {"reject", "request_changes"} : BeginDecide(c, d, decision)
             \/ BeginSign(c, d)
      PROVE  TypeInv'
  <2>1. ServiceInv'
    BY <1>0, <1>5, BeginApproveInv, BeginDecideInv, BeginSignInv
  <2>2. UNCHANGED <<up, life>>
    BY <1>5 DEF BeginApprove, BeginDecide, BeginSign
  <2>. QED BY <1>0, <2>1, <2>2 DEF TypeInv, MayRestart
<1>6. ASSUME NEW c \in Callers, CallStep(c)
      PROVE  TypeInv'
  BY <1>0, <1>6, CallStepInv, CallStepKeepsUp DEF TypeInv, MayRestart
<1>7. ASSUME NEW c \in Callers, CallFault(c)
      PROVE  TypeInv'
  BY <1>0, <1>7, CallFaultInv DEF CallFault, TypeInv, MayRestart
<1>8. CASE Crash
  BY <1>0, <1>8, CrashInv DEF Crash, TypeInv, MayRestart
<1>9. CASE Restart
  <2>1. life \in Nat /\ life' = life + 1 /\ life < MaxLives /\ up' = TRUE
    BY <1>0, <1>9 DEF Restart, MayRestart, ServiceInv, TypeOK, Lives
  <2>2. life' \in Lives
    BY <2>1, StoreAssumption DEF Lives
  <2>. QED BY <1>0, <1>9, <2>1, <2>2, RestartInv DEF TypeInv, MayRestart
<1>10. CASE UNCHANGED vars
  <2>1. TypeOK'
    BY <1>0, <1>10 DEF vars, storeVars, trustVars, serviceVars, ServiceInv,
      TypeOK, StoreTypeOK, TrustTypeOK
  <2>2. RequestsKnown' /\ CallsHold' /\ MayRestart'
    BY <1>0, <1>10 DEF vars, storeVars, serviceVars, ServiceInv, RequestsKnown,
      CallsHold, MayRestart
  <2>. QED BY <2>1, <2>2 DEF TypeInv, ServiceInv
<1>. QED BY <1>1, <1>2, <1>3, <1>4, <1>5, <1>6, <1>7, <1>8, <1>9, <1>10 DEF Next

\* The store, the trust controls, the tasks and the calls hold what their
\* types say: no put stores an empty record, no purchase lacks its artifacts.
THEOREM TypeCorrect == Spec => []TypeOK
<1>1. TypeInv => TypeOK
  BY DEF TypeInv, ServiceInv
<1>. QED BY TypeInit, TypeStep, <1>1, PTL DEF Spec

-----------------------------------------------------------------------------
(* Purchases.                                                              *)

\* The two result caches of a deal are filled together, with one purchase.
CachesAgree ==
  \A d \in Deals :
    /\ payments[d] = None <=> purchases[d] = None
    /\ purchases[d] # None =>
         /\ purchases[d].draft = payments[d]
         /\ purchases[d].draft.quote = purchases[d].intent
         /\ purchases[d].anchor \in 1 .. Len(ledger[d])
         /\ ledger[d][purchases[d].anchor].payload_hash = purchases[d].intent

\* A purchase under way is the first that succeeds in this process, and from
\* the anchor on its intent is in the ledger.
PurchaseUnderWay ==
  \A c \in Callers :
    /\ call[c].pc \in {"anchor", "gatekeep"} => purchases[call[c].deal] = None
    /\ call[c].pc = "gatekeep" =>
         /\ call[c].anchor \in 1 .. Len(ledger[call[c].deal])
         /\ ledger[call[c].deal][call[c].anchor].payload_hash = call[c].quote

PurchaseInv == CachesAgree /\ PurchaseUnderWay /\ LedgerVerifies

TrustInv == TypeInv /\ PurchaseInv

\* The lock leaves one call at a time.
LEMMA OnlyCall ==
  ASSUME ServiceInv, NEW c \in Callers, call[c] # NoCall, NEW e \in Callers, e # c
  PROVE  call[e] = NoCall
BY DEF ServiceInv, CallsHold

\* A step that touches no trust control and brings no call before one.
LEMMA PurchaseStable ==
  ASSUME PurchaseInv, UNCHANGED <<ledger, purchases, payments>>,
         \A c \in Callers : call'[c].pc \in {"anchor", "gatekeep"} => call'[c] = call[c]
  PROVE  PurchaseInv'
<1>1. CachesAgree' /\ LedgerVerifies'
  BY DEF PurchaseInv, CachesAgree, LedgerVerifies
<1>2. PurchaseUnderWay'
  BY DEF PurchaseInv, PurchaseUnderWay
<1>. QED BY <1>1, <1>2 DEF PurchaseInv

\* Such a step that gives one caller another call.
LEMMA PurchaseOtherCall ==
  ASSUME TrustInv, NEW c \in Callers, NEW this, this.pc \notin {"anchor", "gatekeep"},
         call' = [call EXCEPT ![c] = this], UNCHANGED trustVars
  PROVE  PurchaseInv'
<1>1. \A e \in Callers : call'[e].pc \in {"anchor", "gatekeep"} => call'[e] = call[e]
  BY DEF TrustInv, TypeInv, ServiceInv, TypeOK
<1>. QED BY <1>1, PurchaseStable DEF TrustInv, trustVars

LEMMA TaskStepKeepsTrust ==
  ASSUME NEW d \in Deals, TaskStep(d)
  PROVE  UNCHANGED <<trustVars, call>>
BY DEF TaskStep, StartProcess, Validate, Discover, CollectQuotes, RankQuotes, RankRaises,
  ExplainComparison, FinalizeWorkflow, FinalPut, FailedPut, NodeStep, Emit

LEMMA BeginApprovePurchase ==
  ASSUME TrustInv, NEW c \in Callers, NEW d \in Deals, BeginApprove(c, d)
  PROVE  PurchaseInv'
<1>1. /\ CachesAgree' /\ LedgerVerifies'
      /\ UNCHANGED <<ledger, purchases, payments>>
  BY DEF BeginApprove, trustVars, TrustInv, PurchaseInv, CachesAgree, LedgerVerifies
<1>2. PICK this : /\ call' = [call EXCEPT ![c] = this]
                  /\ this.pc # "gatekeep"
                  /\ this.pc = "anchor" => this.deal = d /\ purchases[d] = None
  <2>1. PICK q : LET approval ==
                       [NoCall EXCEPT !.op = "approve", !.deal = d, !.record = Get(d), !.quote = q]
                 IN \/ call' = [call EXCEPT ![c] =
                         [approval EXCEPT !.pc = "put", !.artifacts = purchases[d]]]
                    \/ /\ purchases[d] = None
                       /\ call' = [call EXCEPT ![c] = [approval EXCEPT !.pc = "anchor"]]
    BY DEF BeginApprove
  <2>. DEFINE approval ==
         [NoCall EXCEPT !.op = "approve", !.deal = d, !.record = Get(d), !.quote = q]
  <2>2. CASE call' = [call EXCEPT ![c] =
                 [approval EXCEPT !.pc = "put", !.artifacts = purchases[d]]]
    <3>1. [approval EXCEPT !.pc = "put", !.artifacts = purchases[d]].pc = "put"
      BY DEF NoCall
    <3>. QED BY <2>2, <3>1
  <2>3. CASE /\ purchases[d] = None
             /\ call' = [call EXCEPT ![c] = [approval EXCEPT !.pc = "anchor"]]
    <3>1. /\ [approval EXCEPT !.pc = "anchor"].pc = "anchor"
          /\ [approval EXCEPT !.pc = "anchor"].deal = d
      BY DEF NoCall
    <3>. QED BY <2>3, <3>1
  <2>. QED BY <2>1, <2>2, <2>3
<1>3. PurchaseUnderWay'
  BY <1>1, <1>2 DEF TrustInv, TypeInv, ServiceInv, TypeOK, PurchaseInv, PurchaseUnderWay
<1>. QED BY <1>1, <1>3 DEF PurchaseInv

LEMMA AnchorIntentPurchase ==
  ASSUME TrustInv, NEW c \in Callers, AnchorIntent(c)
  PROVE  PurchaseInv' /\ purchases[call[c].deal] = None
<1>. DEFINE d == call[c].deal
            q == call[c].quote
            anchor == NextAnchor(d, ledger[d], q)
<1>0. ServiceInv /\ PurchaseInv
  BY DEF TrustInv, TypeInv
<1>1. /\ call[c] # NoCall /\ call[c].pc = "anchor" /\ call[c] \in Call
      /\ d \in Deals /\ q \in Quote
  BY <1>0, BusyCall DEF AnchorIntent, CallReady
<1>2. /\ ledger \in [Deals -> Seq(AnchorRow(Deals, Quote))]
      /\ ledger[d] \in Seq(AnchorRow(Deals, Quote))
      /\ anchor \in AnchorRow(Deals, Quote)
  BY <1>0, <1>1, NextAnchorType DEF ServiceInv, TypeOK, TrustTypeOK
<1>3. /\ ledger' = [ledger EXCEPT ![d] = Append(@, anchor)]
      /\ UNCHANGED <<purchases, payments>>
      /\ call' = [call EXCEPT ![c].pc = "gatekeep", ![c].anchor = Len(ledger[d]) + 1]
  BY DEF AnchorIntent, AppendAnchor
<1>4. purchases[d] = None
  BY <1>0, <1>1 DEF PurchaseInv, PurchaseUnderWay
<1>. HIDE DEF anchor
<1>5. ledger'[d] = Append(ledger[d], anchor) /\ \A e \in Deals \ {d} : ledger'[e] = ledger[e]
  BY <1>1, <1>2, <1>3
<1>6. CachesAgree'
  BY <1>0, <1>1, <1>3, <1>4, <1>5 DEF PurchaseInv, CachesAgree
<1>7. LedgerVerifies'
  <2>1. Verifies(d, Append(ledger[d], anchor))
    BY <1>0, <1>1, <1>2, NextAnchorVerifies DEF PurchaseInv, LedgerVerifies, anchor
  <2>. QED BY <1>0, <1>5, <2>1 DEF PurchaseInv, LedgerVerifies
<1>8. PurchaseUnderWay'
  <2>1. ASSUME NEW e \in Callers, e # c
        PROVE  call'[e].pc = "idle"
    BY <1>0, <1>1, <1>3, <2>1, OnlyCall DEF ServiceInv, TypeOK, NoCall
  <2>2. /\ call'[c].deal = d /\ call'[c].quote = q /\ call'[c].pc = "gatekeep"
        /\ call'[c].anchor = Len(ledger[d]) + 1
    BY <1>0, <1>1, <1>3 DEF ServiceInv, TypeOK, Call
  <2>3. anchor.payload_hash = q
    BY DEF anchor, NextAnchor, Anchor
  <2>4. /\ Len(ledger[d]) + 1 \in 1 .. Len(ledger'[d])
        /\ ledger'[d][Len(ledger[d]) + 1] = anchor
    BY <1>2, <1>5
  <2>. QED BY <1>3, <1>4, <2>1, <2>2, <2>3, <2>4 DEF PurchaseUnderWay
<1>. QED BY <1>4, <1>6, <1>7, <1>8 DEF PurchaseInv

LEMMA CreateDraftPurchase ==
  ASSUME TrustInv, NEW c \in Callers, CreateDraft(c)
  PROVE  PurchaseInv'
<1>. DEFINE d == call[c].deal
            q == call[c].quote
            number == call[c].anchor
            draft == [id |-> life, quote |-> q, signed |-> FALSE]
            artifacts == [intent |-> q, anchor |-> number, draft |-> draft]
<1>0. ServiceInv /\ PurchaseInv
  BY DEF TrustInv, TypeInv
<1>1. call[c] # NoCall /\ call[c].pc = "gatekeep" /\ d \in Deals
  BY <1>0, BusyCall DEF CreateDraft, CallReady
<1>2. /\ purchases[d] = None /\ payments[d] = None
      /\ number \in 1 .. Len(ledger[d]) /\ ledger[d][number].payload_hash = q
  BY <1>0, <1>1 DEF PurchaseInv, PurchaseUnderWay, CachesAgree
<1>3. /\ payments' = [payments EXCEPT ![d] = draft]
      /\ purchases' = [purchases EXCEPT ![d] = artifacts]
      /\ ledger' = ledger
      /\ call' = [call EXCEPT ![c].pc = "put", ![c].artifacts = purchases'[d]]
  BY <1>2 DEF CreateDraft, CreatePaymentDraft, DraftFor
<1>4. CachesAgree'
  <2>1. draft \in PaymentDraft /\ artifacts \in Artifacts
    BY <1>0, <1>1, BusyCall DEF ServiceInv, TypeOK, PaymentDraft, Artifacts, CallReady, Call
  <2>2. /\ payments'[d] = draft /\ purchases'[d] = artifacts
        /\ \A e \in Deals \ {d} : payments'[e] = payments[e] /\ purchases'[e] = purchases[e]
    BY <1>0, <1>1, <1>3 DEF ServiceInv, TypeOK, TrustTypeOK
  <2>3. draft # None /\ artifacts # None
    BY <2>1, NoneAssumption, TrustAssumption
  <2>. QED BY <1>0, <1>2, <1>3, <2>2, <2>3 DEF PurchaseInv, CachesAgree
<1>5. LedgerVerifies'
  BY <1>0, <1>3 DEF PurchaseInv, LedgerVerifies
<1>6. PurchaseUnderWay'
  <2>1. ASSUME NEW e \in Callers
        PROVE  call'[e].pc \notin {"anchor", "gatekeep"}
    <3>1. CASE e = c
      BY <1>0, <1>3, <3>1 DEF ServiceInv, TypeOK, Call
    <3>2. CASE e # c
      BY <1>0, <1>1, <1>3, <3>2, OnlyCall DEF ServiceInv, TypeOK, NoCall
    <3>. QED BY <3>1, <3>2
  <2>. QED BY <2>1 DEF PurchaseUnderWay
<1>. QED BY <1>4, <1>5, <1>6 DEF PurchaseInv

\* The steps of a call that come after its purchase, or end it.
LEMMA CallStepPurchase ==
  ASSUME TrustInv, NEW c \in Callers,
         \/ RefusePurchase(c) \/ PutApproval(c) \/ PutDecision(c) \/ PutSigned(c)
         \/ QueueMessages(c) \/ MarkPublished(c) \/ CallFault(c)
  PROVE  PurchaseInv' /\ UNCHANGED trustVars
<1>1. UNCHANGED trustVars
  BY DEF RefusePurchase, PutApproval, PutDecision, PutSigned, QueueMessages, MarkPublished,
    CallFault
<1>2. CASE Leave(c)
  BY <1>1, <1>2, PurchaseOtherCall DEF Leave, NoCall
<1>3. CASE \E pc \in {"append_outbox", "mark_published"} : NextPC(c, pc)
  <2>1. PICK pc \in {"append_outbox", "mark_published"} :
          call' = [call EXCEPT ![c] = [call[c] EXCEPT !.pc = pc]]
    BY <1>3 DEF NextPC
  <2>2. [call[c] EXCEPT !.pc = pc].pc = pc
    BY DEF TrustInv, TypeInv, ServiceInv, TypeOK, Call
  <2>. QED BY <1>1, <2>1, <2>2, PurchaseOtherCall
<1>. QED BY <1>1, <1>2, <1>3 DEF RefusePurchase, PutApproval, PutDecision, PutSigned,
  QueueMessages, MarkPublished, CallFault

LEMMA TrustInvInit == Init => TrustInv
<1>. SUFFICES ASSUME Init
              PROVE  PurchaseInv
  BY TypeInit DEF TrustInv
<1>1. CachesAgree
  BY DEF Init, TrustInit, NoResults, CachesAgree
<1>2. PurchaseUnderWay
  BY DEF Init, NoCall, PurchaseUnderWay
<1>3. LedgerVerifies
  BY DEF Init, TrustInit, LedgerVerifies, Verifies
<1>. QED BY <1>1, <1>2, <1>3 DEF PurchaseInv

\* A step anchors an intent only for a deal that has no purchase yet.
AnchoredOnce == \A d \in Deals : purchases[d] # None => ledger'[d] = ledger[d]

LEMMA TrustStep == TrustInv /\ [Next]_vars => TrustInv' /\ AnchoredOnce
<1>. SUFFICES ASSUME TrustInv, [Next]_vars
              PROVE  PurchaseInv' /\ AnchoredOnce
  BY TypeStep DEF TrustInv
<1>0. PurchaseInv /\ ledger \in [Deals -> Seq(AnchorRow(Deals, Quote))]
  BY DEF TrustInv, TypeInv, ServiceInv, TypeOK, TrustTypeOK
<1>1. ASSUME NEW d \in Deals,
             \/ \E request \in Requests : Submit(d, request)
             \/ TaskStep(d)
             \/ TaskFault(d)
             \/ \E what \in Lapses : Lapse(d, what)
      PROVE  PurchaseInv' /\ AnchoredOnce
  <2>1. UNCHANGED <<trustVars, call>>
    BY <1>1, TaskStepKeepsTrust DEF Submit, TaskFault, Lapse
  <2>. QED BY <1>0, <2>1, PurchaseStable DEF trustVars, AnchoredOnce
<1>2. ASSUME NEW c \in Callers, NEW d \in Deals, BeginApprove(c, d)
      PROVE  PurchaseInv' /\ AnchoredOnce
  BY <1>2, BeginApprovePurchase DEF BeginApprove, trustVars, AnchoredOnce
<1>3. ASSUME NEW c \in Callers, NEW d \in Deals,
             \/ \E decision \in {"reject", "request_changes"} : BeginDecide(c, d, decision)
             \/ BeginSign(c, d)
      PROVE  PurchaseInv' /\ AnchoredOnce
  <2>1. PICK this : call' = [call EXCEPT ![c] = this] /\ this.pc = "put"
    <3>1. ASSUME NEW decision, BeginDecide(c, d, decision)
          PROVE  \E this : call' = [call EXCEPT ![c] = this] /\ this.pc = "put"
      <4>. DEFINE this ==
             [NoCall EXCEPT !.op = decision, !.pc = "put", !.deal = d, !.record = Get(d),
                            !.quote = deals[d].approval_snapshot]
      <4>1. call' = [call EXCEPT ![c] = this] /\ this.pc = "put"
        BY <3>1 DEF BeginDecide, NoCall
      <4>. QED BY <4>1
    <3>2. ASSUME BeginSign(c, d)
          PROVE  \E this : call' = [call EXCEPT ![c] = this] /\ this.pc = "put"
      <4>. DEFINE this ==
             [NoCall EXCEPT !.op = "sign", !.pc = "put", !.deal = d, !.record = Get(d),
                            !.quote = deals[d].selected_quote]
      <4>1. call' = [call EXCEPT ![c] = this] /\ this.pc = "put"
        BY <3>2 DEF BeginSign, NoCall
      <4>. QED BY <4>1
    <3>. QED BY <1>3, <3>1, <3>2
  <2>2. UNCHANGED trustVars
    BY <1>3 DEF BeginDecide, BeginSign
  <2>. QED BY <2>1, <2>2, PurchaseOtherCall DEF trustVars, AnchoredOnce
<1>4. ASSUME NEW c \in Callers, CallStep(c) \/ CallFault(c)
      PROVE  PurchaseInv' /\ AnchoredOnce
  <2>1. CASE AnchorIntent(c)
    <3>1. \A d \in Deals : d # call[c].deal => ledger'[d] = ledger[d]
      BY <1>0, <2>1 DEF AnchorIntent, AppendAnchor
    <3>. QED BY <2>1, <3>1, AnchorIntentPurchase DEF AnchoredOnce
  <2>2. CASE CreateDraft(c)
    BY <2>2, CreateDraftPurchase DEF CreateDraft, CreatePaymentDraft, AnchoredOnce
  <2>. QED BY <1>4, <2>1, <2>2, CallStepPurchase DEF CallStep, trustVars, AnchoredOnce
<1>5. CASE Crash
  <2>1. PurchaseInv'
    BY <1>0, <1>5 DEF Crash, NoResults, NoCall, PurchaseInv, CachesAgree, PurchaseUnderWay,
      LedgerVerifies
  <2>. QED BY <1>5, <2>1 DEF Crash, AnchoredOnce
<1>6. CASE Restart
  BY <1>0, <1>6, PurchaseStable DEF Restart, AnchoredOnce
<1>7. CASE UNCHANGED vars
  <2>1. UNCHANGED <<trustVars, call>>
    BY <1>7 DEF vars, serviceVars
  <2>. QED BY <1>0, <2>1, PurchaseStable DEF trustVars, AnchoredOnce
<1>. QED BY <1>1, <1>2, <1>3, <1>4, <1>5, <1>6, <1>7 DEF Next

\* The chain of every deal verifies, so the oracle never refuses a purchase on
\* account of the ledger.
THEOREM LedgersVerify == Spec => []LedgerVerifies
<1>1. TrustInv => LedgerVerifies
  BY DEF TrustInv, PurchaseInv
<1>2. TrustInv /\ [Next]_vars => TrustInv'
  BY TrustStep
<1>. QED BY TrustInvInit, <1>1, <1>2, PTL DEF Spec

\* No draft and no purchase is remembered whose intent is not anchored.
THEOREM PaymentsAnchored == Spec => []PaymentIsAnchored
<1>1. TrustInv => PaymentIsAnchored
  BY DEF TrustInv, PurchaseInv, CachesAgree, PaymentIsAnchored
<1>2. TrustInv /\ [Next]_vars => TrustInv'
  BY TrustStep
<1>. QED BY TrustInvInit, <1>1, <1>2, PTL DEF Spec

\* Concurrent and repeated approvals of a deal are one purchase of a process.
THEOREM AnchoredOnlyOnce == Spec => PurchaseAnchoredOnce
<1>1. TrustInv /\ [Next]_vars => TrustInv' /\ [AnchoredOnce]_vars
  BY TrustStep
<1>2. Spec => [][AnchoredOnce]_vars
  BY TrustInvInit, <1>1, PTL DEF Spec
<1>. QED BY <1>2 DEF PurchaseAnchoredOnce, AnchoredOnce

-----------------------------------------------------------------------------
(* The journal: what a put adds to it.                                     *)

\* A record that ends where the journal does, or before, adds nothing.
LEMMA NothingNew ==
  ASSUME NEW stored \in Seq(Event), NEW events \in Seq(Event), Len(events) <= Len(stored)
  PROVE  stored \o NewEvents(stored, events) = stored
<1>1. NewEvents(stored, events) = << >>
  BY DEF NewEvents
<1>. QED BY <1>1

\* A piece of one event.
LEMMA SingleSubSeq ==
  ASSUME NEW s \in Seq(Event), NEW n \in 1 .. Len(s)
  PROVE  SubSeq(s, n, n) = <<s[n]>>
<1>. DEFINE t == SubSeq(s, n, n)
            u == <<s[n]>>
<1>1. n \in Int /\ \A i \in n .. n : s[i] \in Event
  BY ElementOfSeq
<1>2. t \in Seq(Event) /\ Len(t) = IF n <= n THEN n - n + 1 ELSE 0
  BY <1>1, SubSeqProperties
<1>3. \A i \in 1 .. n - n + 1 : t[i] = s[n + i - 1]
  BY <1>1, SubSeqProperties
<1>4. Len(t) = 1 /\ t[1] = s[n]
  BY <1>1, <1>2, <1>3
<1>5. u \in Seq(Event) /\ Len(u) = 1 /\ u[1] = s[n]
  BY ElementOfSeq
<1>. HIDE DEF t, u
<1>6. t \in Seq(Event) /\ Len(t) = Len(u) /\ \A i \in 1 .. Len(t) : t[i] = u[i]
  BY <1>2, <1>4, <1>5
<1>7. t = u
  BY <1>5, <1>6, SeqEqual
<1>. QED BY <1>7 DEF t, u

\* A record with one event more adds that event or nothing.
LEMMA OneMore ==
  ASSUME NEW stored \in Seq(Event), NEW base \in Seq(Event), Len(base) <= Len(stored),
         NEW e \in Event
  PROVE  LET grown == stored \o NewEvents(stored, Append(base, e))
         IN /\ grown = stored \/ grown = Append(stored, e)
            /\ base = stored => grown = Append(stored, e)
            /\ Len(Append(base, e)) <= Len(grown)
            /\ Len(stored) <= Len(grown)
<1>. DEFINE events == Append(base, e)
            new == NewEvents(stored, events)
<1>1. events \in Seq(Event) /\ Len(events) = Len(base) + 1 /\ events[Len(base) + 1] = e
  OBVIOUS
<1>2. Len(base) \in Nat /\ Len(stored) \in Nat
  OBVIOUS
<1>3. CASE Len(base) = Len(stored)
  <2>1. new = SubSeq(events, Len(events), Len(events))
    <3>. HIDE DEF events
    <3>. QED BY <1>1, <1>2, <1>3 DEF NewEvents
  <2>2. new = <<e>>
    <3>1. SubSeq(events, Len(events), Len(events)) = <<events[Len(events)]>>
      <4>. HIDE DEF events
      <4>. QED BY <1>1, <1>2, SingleSubSeq
    <3>2. Len(events) \in 1 .. Len(events) /\ Len(events) \in Nat /\ events[Len(events)] = e
      <4>. HIDE DEF events
      <4>. QED BY <1>1, <1>2
    <3>. HIDE DEF events, new
    <3>. QED BY <2>1, <3>1, <3>2
  <2>3. stored \o <<e>> = Append(stored, e) /\ Len(Append(stored, e)) = Len(stored) + 1
    OBVIOUS
  <2>. QED BY <1>1, <1>2, <1>3, <2>2, <2>3
<1>4. CASE Len(base) # Len(stored)
  <2>1. Len(events) <= Len(stored)
    BY <1>1, <1>2, <1>4
  <2>2. stored \o new = stored
    BY <1>1, <2>1, NothingNew
  <2>. QED BY <1>2, <1>4, <2>1, <2>2
<1>. QED BY <1>3, <1>4

\* What a put does to a deal, and that it does nothing to another.
LEMMA PutEffect ==
  ASSUME StoreTypeOK, NEW d \in Deals, NEW record, Put(d, record), NEW e \in Deals
  PROVE  /\ outbox' = outbox
         /\ e = d =>
              /\ deals'[e] = record.row
              /\ log'[e] = log[e] \o NewEvents(log[e], record.events)
              /\ published'[e] = published[e] \cup ({record.row.approval_snapshot} \ {None})
              /\ issued'[e] = issued[e] \cup (IF record.row.payment_draft = None THEN {}
                                              ELSE {record.row.payment_draft.id})
         /\ e # d =>
              /\ deals'[e] = deals[e]
              /\ log'[e] = log[e]
              /\ published'[e] = published[e]
              /\ issued'[e] = issued[e]
BY DEF Put, StoreTypeOK

\* The row and the shown snapshots after a put.
LEMMA PutRow ==
  ASSUME StoreTypeOK, NEW d \in Deals, NEW record, Put(d, record)
  PROVE  /\ deals'[d] = record.row
         /\ published'[d] = published[d] \cup ({record.row.approval_snapshot} \ {None})
BY DEF Put, StoreTypeOK

\* A put of a record that holds no event the journal lacks.
LEMMA PutNothing ==
  ASSUME StoreTypeOK, NEW d \in Deals, NEW record, Put(d, record),
         record.events \in Seq(Event), Len(record.events) <= Len(log[d])
  PROVE  /\ log' = log
         /\ deals'[d] = record.row
         /\ published'[d] = published[d] \cup ({record.row.approval_snapshot} \ {None})
<1>1. log \in [Deals -> Seq(Event)]
  BY DEF StoreTypeOK
<1>. DEFINE grown == log[d] \o NewEvents(log[d], record.events)
<1>2. grown = log[d]
  BY <1>1, NothingNew
<1>3. log' = [log EXCEPT ![d] = grown]
  BY DEF Put
<1>. HIDE DEF grown
<1>4. log' = log
  BY <1>1, <1>2, <1>3
<1>. QED BY <1>4, PutRow

\* A put of a record that has one event more than a beginning of the journal.
LEMMA PutOneMore ==
  ASSUME StoreTypeOK, NEW d \in Deals, NEW record, Put(d, record),
         NEW base \in Seq(Event), Len(base) <= Len(log[d]), NEW e \in Event,
         record.events = Append(base, e)
  PROVE  /\ log'[d] = log[d] \/ log'[d] = Append(log[d], e)
         /\ base = log[d] => log'[d] = Append(log[d], e)
         /\ Len(record.events) <= Len(log'[d])
         /\ Len(log[d]) <= Len(log'[d])
         /\ deals'[d] = record.row
         /\ published'[d] = published[d] \cup ({record.row.approval_snapshot} \ {None})
<1>1. log \in [Deals -> Seq(Event)] /\ log[d] \in Seq(Event)
  BY DEF StoreTypeOK
<1>. DEFINE grown == log[d] \o NewEvents(log[d], record.events)
<1>2. /\ grown = log[d] \/ grown = Append(log[d], e)
      /\ base = log[d] => grown = Append(log[d], e)
      /\ Len(record.events) <= Len(grown)
      /\ Len(log[d]) <= Len(grown)
  BY <1>1, OneMore
<1>3. log' = [log EXCEPT ![d] = grown]
  BY DEF Put
<1>. HIDE DEF grown
<1>4. log'[d] = grown
  BY <1>1, <1>3
<1>5. /\ deals'[d] = record.row
      /\ published'[d] = published[d] \cup ({record.row.approval_snapshot} \ {None})
  BY PutRow
<1>. QED BY <1>2, <1>4, <1>5

\* The new events of a journal with a batch more are the batch.
LEMMA BatchIsNew ==
  ASSUME NEW stored \in Seq(Event), NEW batch \in Seq(Event)
  PROVE  NewEvents(stored, stored \o batch) = batch
<1>. DEFINE events == stored \o batch
            new == NewEvents(stored, events)
            m == Len(stored) + 1
            n == Len(events)
<1>1. /\ events \in Seq(Event) /\ n = Len(stored) + Len(batch)
      /\ \A i \in 1 .. Len(batch) : events[Len(stored) + i] = batch[i]
      /\ Len(stored) \in Nat /\ Len(batch) \in Nat
  BY Joined
<1>. HIDE DEF events
<1>2. m \in Int /\ n \in Int /\ \A i \in m .. n : events[i] \in Event
  <2>1. m .. n \subseteq 1 .. Len(events) /\ m \in Int /\ n \in Int
    BY <1>1
  <2>. QED BY <1>1, <2>1, ElementOfSeq
<1>. HIDE DEF m, n
<1>3. /\ new \in Seq(Event) /\ Len(new) = IF m <= n THEN n - m + 1 ELSE 0
      /\ \A i \in 1 .. n - m + 1 : new[i] = events[m + i - 1]
  BY <1>2, SubSeqProperties DEF NewEvents, m, n
<1>. HIDE DEF new
<1>4. Len(new) = Len(batch) /\ n - m + 1 = Len(batch)
  BY <1>1, <1>3 DEF m, n
<1>5. \A i \in 1 .. Len(new) : new[i] = batch[i]
  <2>. SUFFICES ASSUME NEW i \in 1 .. Len(batch)
                PROVE  new[i] = batch[i]
    BY <1>4
  <2>1. m + i - 1 = Len(stored) + i
    BY <1>1 DEF m
  <2>. QED BY <1>1, <1>3, <1>4, <2>1
<1>6. new = batch
  BY <1>3, <1>4, <1>5, SeqEqual
<1>. QED BY <1>6 DEF new, events

\* A put of a record that adds a batch to the journal.
LEMMA PutBatch ==
  ASSUME StoreTypeOK, NEW d \in Deals, NEW record, Put(d, record), NEW batch \in Seq(Event),
         record.events = log[d] \o batch
  PROVE  /\ log'[d] = log[d] \o batch
         /\ Len(log[d]) <= Len(log'[d])
         /\ deals'[d] = record.row
         /\ published'[d] = published[d] \cup ({record.row.approval_snapshot} \ {None})
<1>1. log \in [Deals -> Seq(Event)] /\ log[d] \in Seq(Event)
  BY DEF StoreTypeOK
<1>2. NewEvents(log[d], record.events) = batch
  BY <1>1, BatchIsNew
<1>3. log' = [log EXCEPT ![d] = @ \o batch]
  BY <1>2 DEF Put
<1>4. log'[d] = log[d] \o batch
  BY <1>1, <1>3
<1>5. Len(log[d] \o batch) = Len(log[d]) + Len(batch) /\ Len(log[d]) \in Nat /\ Len(batch) \in Nat
  BY <1>1, Joined
<1>. QED BY <1>4, <1>5, PutRow

\* The fields of the record a task stores.
LEMMA RecordFields ==
  ASSUME NEW draft \in DealRecord, NEW state \in DealRecord
  PROVE  LET record == RecordFromState(draft, state)
         IN /\ record.events = state.events
            /\ record.row.status = state.row.status
            /\ record.row.comparison = state.row.comparison
            /\ record.row.selected_quote = None
            /\ record.row.payment_draft = None
            /\ record.row.human_decision = None
            /\ draft.row.approval_snapshot # None =>
                 record.row.approval_snapshot = draft.row.approval_snapshot
            /\ (draft.row.approval_snapshot = None /\ state.row.comparison = None) =>
                 record.row.approval_snapshot = None
            /\ (draft.row.approval_snapshot = None /\ state.row.comparison # None) =>
                 record.row.approval_snapshot = state.row.comparison.recommended
<1>. DEFINE preview ==
              IF draft.row.approval_snapshot # None THEN draft.row.approval_snapshot
              ELSE IF state.row.comparison # None THEN state.row.comparison.recommended ELSE None
            row == [EmptyRow(state.row.status, draft.row.request) EXCEPT
                 !.supplier_ids = state.row.supplier_ids,
                 !.quotes = state.row.quotes,
                 !.comparison = state.row.comparison,
                 !.errors = state.row.errors,
                 !.approval_snapshot = preview]
<1>1. RecordFromState(draft, state) = [row |-> row, events |-> state.events]
  BY DEF RecordFromState
<1>2. /\ row.status = state.row.status
      /\ row.comparison = state.row.comparison
      /\ row.selected_quote = None
      /\ row.payment_draft = None
      /\ row.human_decision = None
      /\ row.approval_snapshot = preview
  <2>. HIDE DEF preview
  <2>. QED BY DEF EmptyRow
<1>. HIDE DEF row
<1>. QED BY <1>1, <1>2

-----------------------------------------------------------------------------
(* The nodes: what they leave of the row, and what they log.               *)

WorkflowEvent ==
  {"mandate_validated", "suppliers_discovered", "quotes_collected", "quotes_ranked",
   "comparison_explained", "workflow_completed"}

\* A node logs one event and leaves the status; none but `rank' compares, and
\* only `finalize' gives a deal its status.
LEMMA AfterFields ==
  ASSUME NEW state, NEW e, NEW row
  PROVE  /\ After(state, e, row).row = row
         /\ After(state, e, row).events = Append(state.events, e)
BY DEF After

LEMMA ValidateFields ==
  ASSUME NEW state \in DealRecord, NEW live
  PROVE  /\ ValidateMandate(state, live).events = Append(state.events, "mandate_validated")
         /\ ValidateMandate(state, live).row.status = state.row.status
         /\ ValidateMandate(state, live).row.comparison = state.row.comparison
<1>. DEFINE valid == live /\ "send_rfq" \in state.row.request.operations
                     /\ state.row.request.inScope
            row == [state.row EXCEPT !.errors = @ \/ ~valid]
<1>1. row.status = state.row.status /\ row.comparison = state.row.comparison
  BY DEF DealRecord, Row
<1>2. ValidateMandate(state, live) = After(state, "mandate_validated", row)
  BY DEF ValidateMandate
<1>. HIDE DEF row
<1>. QED BY <1>1, <1>2, AfterFields

LEMMA DiscoverFields ==
  ASSUME NEW state \in DealRecord
  PROVE  /\ DiscoverSuppliers(state).events = Append(state.events, "suppliers_discovered")
         /\ DiscoverSuppliers(state).row.status = state.row.status
         /\ DiscoverSuppliers(state).row.comparison = state.row.comparison
<1>. DEFINE found == state.row.request.allowed
            row == [state.row EXCEPT !.supplier_ids = found,
                                     !.errors = @ \/ Cardinality(found) < MinimumQuotes]
<1>1. row.status = state.row.status /\ row.comparison = state.row.comparison
  BY DEF DealRecord, Row
<1>2. DiscoverSuppliers(state) = After(state, "suppliers_discovered", row)
  BY DEF DiscoverSuppliers
<1>. HIDE DEF row
<1>. QED BY <1>1, <1>2, AfterFields

LEMMA RequestQuotesFields ==
  ASSUME NEW state \in DealRecord, NEW answered, NEW n
  PROVE  /\ RequestQuotes(state, answered, n).events = Append(state.events, "quotes_collected")
         /\ RequestQuotes(state, answered, n).row.status = state.row.status
         /\ RequestQuotes(state, answered, n).row.comparison = state.row.comparison
<1>. DEFINE row == [state.row EXCEPT !.quotes = [supplier : answered, life : {n}],
                                     !.errors = @ \/ Cardinality(answered) < MinimumQuotes]
<1>1. row.status = state.row.status /\ row.comparison = state.row.comparison
  BY DEF DealRecord, Row
<1>2. RequestQuotes(state, answered, n) = After(state, "quotes_collected", row)
  BY DEF RequestQuotes
<1>. HIDE DEF row
<1>. QED BY <1>1, <1>2, AfterFields

LEMMA RankFields ==
  ASSUME NEW state \in DealRecord, NEW eligible, NEW best
  PROVE  /\ Rank(state, eligible, best).events = Append(state.events, "quotes_ranked")
         /\ Rank(state, eligible, best).row.status = state.row.status
<1>. DEFINE comparison == [eligible |-> eligible, recommended |-> best]
            row == [state.row EXCEPT !.comparison = comparison, !.errors = @ \/ best = None]
<1>1. row.status = state.row.status
  BY DEF DealRecord, Row
<1>2. Rank(state, eligible, best) = After(state, "quotes_ranked", row)
  BY DEF Rank
<1>. HIDE DEF row
<1>. QED BY <1>1, <1>2, AfterFields

LEMMA ExplainFields ==
  ASSUME NEW state \in DealRecord
  PROVE  /\ Explain(state).events = Append(state.events, "comparison_explained")
         /\ Explain(state).row = state.row
BY AfterFields DEF Explain

LEMMA FinalizeFields ==
  ASSUME NEW state \in DealRecord
  PROVE  /\ Finalize(state).events = Append(state.events, "workflow_completed")
         /\ Finalize(state).row.status \in {"awaiting_approval", "failed"}
         /\ Finalize(state).row.comparison = state.row.comparison
<1>. DEFINE successful == /\ ~state.row.errors
                          /\ state.row.comparison # None
                          /\ state.row.comparison.recommended # None
            row == [state.row EXCEPT !.status =
                      IF successful THEN "awaiting_approval" ELSE "failed"]
<1>1. row.status \in {"awaiting_approval", "failed"} /\ row.comparison = state.row.comparison
  BY DEF DealRecord, Row
<1>2. Finalize(state) = After(state, "workflow_completed", row)
  BY DEF Finalize
<1>. HIDE DEF row
<1>. QED BY <1>1, <1>2, AfterFields

\* Where the routers send a deal.
LEMMA Routes ==
  ASSUME NEW state
  PROVE  /\ RouteAfterValidation(state) \in {"finalize", "discover"}
         /\ RouteAfterDiscovery(state) \in {"finalize", "request_quotes"}
         /\ RouteAfterQuotes(state) \in {"finalize", "rank"}
         /\ RouteAfterRanking(state) \in {"finalize", "explain"}
BY DEF RouteAfterValidation, RouteAfterDiscovery, RouteAfterQuotes, RouteAfterRanking

BeforeRanking == {"validate", "discover", "request_quotes", "rank"}

\* The task of deal d runs a node: it logs e, stores `state', goes on to `next'.
NodeRuns(d, e, state, next) ==
  LET this == task[d]
  IN /\ this.pc \in Nodes
     /\ Emit(d, this.draft, state, next)
     /\ state.events = Append(this.state.events, e)
     /\ next \in Nodes => state.row.status = this.state.row.status
     /\ next \notin Nodes => /\ next = "final_put"
                             /\ state.row.status \in {"awaiting_approval", "failed"}
     /\ this.pc # "rank" => state.row.comparison = this.state.row.comparison
     /\ next \in BeforeRanking => this.pc # "rank" /\ this.pc \in BeforeRanking

\* The steps of a task, with the six nodes as one.
LEMMA TaskStepForms ==
  ASSUME ServiceInv, NEW d \in Deals, TaskStep(d)
  PROVE  \/ StartProcess(d)
         \/ \E e \in WorkflowEvent, state \in DealRecord, next \in Nodes \cup {"final_put"} :
              NodeRuns(d, e, state, next)
         \/ RankRaises(d)
         \/ FinalPut(d)
         \/ FailedPut(d)
<1>. DEFINE this == task[d]
            Runs == \E e \in WorkflowEvent, state \in DealRecord,
                       next \in Nodes \cup {"final_put"} : NodeRuns(d, e, state, next)
<1>0. /\ this.state \in DealRecord /\ this.draft \in DealRecord /\ life \in Lives
      /\ this.pc \in Nodes => this.state.row.request \in Requests
  BY DEF ServiceInv, TypeOK, Task, RequestsKnown
<1>1. CASE Validate(d)
  <2>. DEFINE state == ValidateMandate(this.state, Live(d))
  <2>1. /\ this.pc = "validate" /\ Emit(d, this.draft, state, RouteAfterValidation(state))
        /\ state \in DealRecord
        /\ state.events = Append(this.state.events, "mandate_validated")
        /\ state.row.status = this.state.row.status
        /\ state.row.comparison = this.state.row.comparison
        /\ RouteAfterValidation(state) \in {"finalize", "discover"}
    BY <1>0, <1>1, ValidateType, ValidateFields, Routes DEF Validate, NodeStep
  <2>. HIDE DEF state
  <2>2. NodeRuns(d, "mandate_validated", state, RouteAfterValidation(state))
    BY <2>1 DEF NodeRuns, Nodes, BeforeRanking
  <2>. QED BY <2>1, <2>2 DEF Nodes, WorkflowEvent
<1>2. CASE Discover(d)
  <2>. DEFINE state == DiscoverSuppliers(this.state)
  <2>0. this.pc = "discover" /\ this.state.row.request \in Requests
    BY <1>0, <1>2 DEF Discover, NodeStep, Nodes
  <2>1. /\ Emit(d, this.draft, state, RouteAfterDiscovery(state))
        /\ state \in DealRecord
        /\ state.events = Append(this.state.events, "suppliers_discovered")
        /\ state.row.status = this.state.row.status
        /\ state.row.comparison = this.state.row.comparison
        /\ RouteAfterDiscovery(state) \in {"finalize", "request_quotes"}
    BY <1>0, <1>2, <2>0, DiscoverType, DiscoverFields, Routes DEF Discover, NodeStep
  <2>. HIDE DEF state
  <2>2. NodeRuns(d, "suppliers_discovered", state, RouteAfterDiscovery(state))
    BY <2>0, <2>1 DEF NodeRuns, Nodes, BeforeRanking
  <2>. QED BY <2>1, <2>2 DEF Nodes, WorkflowEvent
<1>3. CASE CollectQuotes(d)
  <2>0. PICK answered \in SUBSET this.state.row.supplier_ids :
          /\ this.pc = "request_quotes"
          /\ Emit(d, this.draft, RequestQuotes(this.state, answered, life),
                  RouteAfterQuotes(RequestQuotes(this.state, answered, life)))
    BY <1>3 DEF CollectQuotes
  <2>. DEFINE state == RequestQuotes(this.state, answered, life)
  <2>1. answered \in SUBSET Suppliers
    BY <1>0, <2>0 DEF DealRecord, Row
  <2>2. /\ Emit(d, this.draft, state, RouteAfterQuotes(state))
        /\ state \in DealRecord
        /\ state.events = Append(this.state.events, "quotes_collected")
        /\ state.row.status = this.state.row.status
        /\ state.row.comparison = this.state.row.comparison
        /\ RouteAfterQuotes(state) \in {"finalize", "rank"}
    BY <1>0, <2>0, <2>1, RequestQuotesType, RequestQuotesFields, Routes
  <2>. HIDE DEF state
  <2>3. NodeRuns(d, "quotes_collected", state, RouteAfterQuotes(state))
    BY <2>0, <2>2 DEF NodeRuns, Nodes, BeforeRanking
  <2>. QED BY <2>2, <2>3 DEF Nodes, WorkflowEvent
<1>4. CASE RankQuotes(d)
  <2>0. PICK eligible \in SUBSET this.state.row.quotes : \E best \in Recommendable(eligible) :
          NodeStep(d, "rank", Rank(this.state, eligible, best),
                   RouteAfterRanking(Rank(this.state, eligible, best)))
    BY <1>4 DEF RankQuotes
  <2>1. PICK best \in Recommendable(eligible) :
          NodeStep(d, "rank", Rank(this.state, eligible, best),
                   RouteAfterRanking(Rank(this.state, eligible, best)))
    BY <2>0
  <2>2. eligible \in SUBSET Quote
    BY <1>0, <2>0 DEF DealRecord, Row
  <2>. DEFINE state == Rank(this.state, eligible, best)
  <2>3. /\ this.pc = "rank" /\ Emit(d, this.draft, state, RouteAfterRanking(state))
        /\ state \in DealRecord
        /\ state.events = Append(this.state.events, "quotes_ranked")
        /\ state.row.status = this.state.row.status
        /\ RouteAfterRanking(state) \in {"finalize", "explain"}
    BY <1>0, <2>1, <2>2, RankType, RankFields, Routes DEF NodeStep
  <2>. HIDE DEF state
  <2>4. NodeRuns(d, "quotes_ranked", state, RouteAfterRanking(state))
    BY <2>3 DEF NodeRuns, Nodes, BeforeRanking
  <2>. QED BY <2>3, <2>4 DEF Nodes, WorkflowEvent
<1>5. CASE ExplainComparison(d)
  <2>. DEFINE state == Explain(this.state)
  <2>1. /\ this.pc = "explain" /\ Emit(d, this.draft, state, "finalize")
        /\ state \in DealRecord
        /\ state.events = Append(this.state.events, "comparison_explained")
        /\ state.row = this.state.row
    BY <1>0, <1>5, ExplainType, ExplainFields DEF ExplainComparison, NodeStep
  <2>. HIDE DEF state
  <2>2. NodeRuns(d, "comparison_explained", state, "finalize")
    BY <2>1 DEF NodeRuns, Nodes, BeforeRanking
  <2>. QED BY <2>1, <2>2 DEF Nodes, WorkflowEvent
<1>6. CASE FinalizeWorkflow(d)
  <2>. DEFINE state == Finalize(this.state)
  <2>1. /\ this.pc = "finalize" /\ Emit(d, this.draft, state, "final_put")
        /\ state \in DealRecord
        /\ state.events = Append(this.state.events, "workflow_completed")
        /\ state.row.status \in {"awaiting_approval", "failed"}
        /\ state.row.comparison = this.state.row.comparison
    BY <1>0, <1>6, FinalizeType, FinalizeFields DEF FinalizeWorkflow, NodeStep
  <2>. HIDE DEF state
  <2>2. NodeRuns(d, "workflow_completed", state, "final_put")
    BY <2>1 DEF NodeRuns, Nodes, BeforeRanking
  <2>. QED BY <2>1, <2>2 DEF WorkflowEvent
<1>. QED BY <1>1, <1>2, <1>3, <1>4, <1>5, <1>6 DEF TaskStep

-----------------------------------------------------------------------------
(* Who owns the row: the workflow a draft, the calls a deal it has left.   *)

Owned == {"scheduled", "failed"} \cup Nodes

Preview(draft, state) == RecordFromState(draft, state).row.approval_snapshot

\* What is true of the task of a deal whose row, journal and shown snapshots
\* are these.  While the workflow runs the deal is a draft, nobody else writes
\* it, and the row is the record of the last state.  The final put repeats a
\* record whose events are all logged.  No task can show a new snapshot except
\* by ranking, and that only when none was shown.
TaskFits(this, row, journal, shown) ==
  /\ this.pc \in Owned => row.status = "draft"
  /\ this.pc \in Nodes =>
       /\ this.state.row.status = "draft"
       /\ Len(this.state.events) <= Len(journal)
       /\ row = RecordFromState(this.draft, this.state).row
  /\ this.pc \in Nodes \cup {"failed"} => Len(this.draft.events) <= Len(journal)
  /\ this.pc = "final_put" =>
       /\ Len(this.state.events) <= Len(journal)
       /\ row.status \notin {"absent", "draft"}
       /\ this.state.row.status \in {"awaiting_approval", "failed"}
       /\ this.state.row.status = "failed" <=> row.status = "failed"
       /\ Preview(this.draft, this.state) \in shown \cup {None}
  /\ this.draft.row.approval_snapshot \in shown \cup {None}
  /\ (this.pc \in BeforeRanking /\ this.draft.row.approval_snapshot = None) =>
       row.approval_snapshot = None

\* The snapshot of a row was shown, and a draft has shown no other.
RowFits(row, shown) ==
  /\ row.approval_snapshot \in shown \cup {None}
  /\ row.status = "absent" => shown = {}
  /\ row.status = "draft" =>
       /\ shown = {row.approval_snapshot} \ {None}
       /\ (row.approval_snapshot = None /\ row.comparison # None) =>
            row.comparison.recommended = None

\* A call works on a deal the workflow has left, and until it has written the
\* row its record holds the whole journal.
CallFits(this, row, journal, shown) ==
  /\ row.status \notin {"absent", "draft", "failed"}
  /\ this.pc \in {"anchor", "gatekeep", "put"} => this.record.events = journal
  /\ this.record.row.approval_snapshot \in shown \cup {None}

DealFits(d) ==
  /\ TaskFits(task[d], deals[d], log[d], published[d])
  /\ RowFits(deals[d], published[d])

CallsFit ==
  \A c \in Callers : call[c] # NoCall =>
    CallFits(call[c], deals[call[c].deal], log[call[c].deal], published[call[c].deal])

\* A process that is down runs no call.
DownIsEmpty == ~up => \A c \in Callers : call[c] = NoCall

WorkInv == TrustInv /\ (\A d \in Deals : DealFits(d)) /\ CallsFit /\ DownIsEmpty

\* What is known of every part of a state.
LEMMA WorkTypes ==
  ASSUME WorkInv
  PROVE  /\ ServiceInv /\ StoreTypeOK
         /\ task \in [Deals -> Task] /\ call \in [Callers -> Call]
         /\ \A d \in Deals :
              /\ deals[d] \in Row /\ log[d] \in Seq(Event) /\ published[d] \in SUBSET Quote
              /\ issued[d] \in SUBSET Lives
              /\ task[d] \in Task /\ task[d].draft \in DealRecord /\ task[d].state \in DealRecord
              /\ task[d].draft.row \in Row /\ task[d].state.row \in Row
              /\ task[d].draft.events \in Seq(Event) /\ task[d].state.events \in Seq(Event)
         /\ \A c \in Callers : call[c] # NoCall =>
              /\ CallReady(call[c]) /\ call[c].deal \in Deals /\ lock = c
              /\ call[c].record \in DealRecord /\ call[c].record.row \in Row
              /\ call[c].record.events \in Seq(Event)
<1>1. ServiceInv
  BY DEF WorkInv, TrustInv, TypeInv
<1>. QED BY <1>1 DEF ServiceInv, TypeOK, StoreTypeOK, Task, DealRecord, CallsHold, CallReady, Call

\* Tasks and calls that begin or end.
LEMMA NoTaskFits ==
  ASSUME NEW row, NEW journal, NEW shown
  PROVE  /\ TaskFits(NoTask, row, journal, shown)
         /\ row.status = "draft" => TaskFits(ScheduledTask, row, journal, shown)
<1>1. /\ NoTask.pc = "none" /\ NoTask.draft.row.approval_snapshot = None
      /\ ScheduledTask.pc = "scheduled" /\ ScheduledTask.draft.row.approval_snapshot = None
  BY DEF NoTask, ScheduledTask, NoRecord, EmptyRow
<1>. QED BY <1>1 DEF TaskFits, Nodes, Owned, BeforeRanking

\* A task that stores a record.
LEMMA TaskPutFits ==
  ASSUME WorkInv, TrustInv', NEW d \in Deals, NEW record, Put(d, record),
         NEW new, task' = [task EXCEPT ![d] = new], UNCHANGED <<call, up>>,
         TaskFits(new, deals'[d], log'[d], published'[d]),
         RowFits(deals'[d], published'[d]),
         \A c \in Callers : (call[c] # NoCall /\ call[c].deal = d) =>
           CallFits(call[c], deals'[d], log'[d], published'[d])
  PROVE  WorkInv'
<1>1. ASSUME NEW e \in Deals
      PROVE  DealFits(e)'
  <2>1. CASE e = d
    <3>1. task'[d] = new
      BY WorkTypes
    <3>. QED BY <2>1, <3>1 DEF DealFits
  <2>2. CASE e # d
    BY <2>2, WorkTypes, PutEffect DEF WorkInv, DealFits
  <2>. QED BY <2>1, <2>2
<1>2. CallsFit'
  <2>1. ASSUME NEW c \in Callers, call[c] # NoCall, call[c].deal # d
        PROVE  CallFits(call[c], deals'[call[c].deal], log'[call[c].deal], published'[call[c].deal])
    <3>. DEFINE e == call[c].deal
    <3>1. e \in Deals /\ StoreTypeOK /\ CallFits(call[c], deals[e], log[e], published[e])
      BY <2>1, WorkTypes DEF WorkInv, CallsFit
    <3>2. deals'[e] = deals[e] /\ log'[e] = log[e] /\ published'[e] = published[e]
      BY <2>1, <3>1, PutEffect
    <3>. QED BY <3>1, <3>2
  <2>. QED BY <2>1 DEF CallsFit
<1>3. DownIsEmpty'
  BY DEF WorkInv, DownIsEmpty
<1>. QED BY <1>1, <1>2, <1>3 DEF WorkInv

\* The workflow owns its drafts alone.
LEMMA NoCallOnDraft ==
  ASSUME WorkInv, NEW d \in Deals, deals[d].status \in {"absent", "draft"},
         NEW c \in Callers, call[c] # NoCall
  PROVE  call[c].deal # d
BY DEF WorkInv, CallsFit, CallFits

\* The task reads the draft and stores the state it starts from.
LEMMA StartProcessWork ==
  ASSUME WorkInv, TrustInv', NEW d \in Deals, StartProcess(d)
  PROVE  WorkInv' /\ log' = log /\ published'[d] = published[d]
<1>. DEFINE row == deals[d]
            read == Get(d)
            record == RecordFromState(read, read)
            new == [pc |-> "validate", draft |-> read, state |-> read]
<1>1. /\ task[d].pc = "scheduled" /\ Put(d, record) /\ task' = [task EXCEPT ![d] = new]
      /\ UNCHANGED <<call, up>>
  BY DEF StartProcess, Emit
<1>2. /\ StoreTypeOK /\ row \in Row /\ log[d] \in Seq(Event)
      /\ read \in DealRecord /\ read.row = row /\ read.events = log[d]
  BY WorkTypes, GetType DEF Get
<1>3. /\ row.status = "draft" /\ RowFits(row, published[d])
      /\ published[d] = {row.approval_snapshot} \ {None}
  BY <1>1 DEF WorkInv, DealFits, TaskFits, RowFits, Owned
<1>4. /\ record.events = log[d]
      /\ record.row.status = "draft"
      /\ record.row.comparison = row.comparison
      /\ record.row.approval_snapshot = row.approval_snapshot
  <2>. HIDE DEF read, record
  <2>. QED BY <1>2, <1>3, RecordFields DEF record, RowFits
<1>. HIDE DEF record, read
<1>5. /\ deals'[d] = record.row /\ log' = log /\ published'[d] = published[d]
  <2>1. record.events \in Seq(Event) /\ Len(record.events) <= Len(log[d])
    BY <1>2, <1>4
  <2>2. /\ log' = log /\ deals'[d] = record.row
        /\ published'[d] = published[d] \cup ({record.row.approval_snapshot} \ {None})
    BY <1>1, <1>2, <2>1, PutNothing
  <2>. QED BY <1>3, <1>4, <2>2
<1>6. TaskFits(new, deals'[d], log'[d], published'[d])
  <2>1. new.pc = "validate" /\ new.draft = read /\ new.state = read
    OBVIOUS
  <2>. HIDE DEF new
  <2>2. deals'[d] = RecordFromState(new.draft, new.state).row
    BY <1>5, <2>1 DEF record
  <2>3. Len(new.state.events) <= Len(log'[d]) /\ Len(new.draft.events) <= Len(log'[d])
    BY <1>2, <1>5, <2>1
  <2>. QED BY <1>2, <1>3, <1>4, <1>5, <2>1, <2>2, <2>3 DEF TaskFits, RowFits
<1>7. RowFits(deals'[d], published'[d])
  BY <1>3, <1>4, <1>5 DEF RowFits
<1>. HIDE DEF new
<1>. QED BY <1>1, <1>3, <1>5, <1>6, <1>7, NoCallOnDraft, TaskPutFits

\* A node runs and its state is stored (_process, the callback of run).
LEMMA NodeRunsWork ==
  ASSUME WorkInv, TrustInv', NEW d \in Deals, NEW e \in WorkflowEvent,
         NEW state \in DealRecord, NEW next \in Nodes \cup {"final_put"},
         NodeRuns(d, e, state, next)
  PROVE  /\ WorkInv'
         /\ log'[d] = log[d] \/ log'[d] = Append(log[d], e)
         /\ \A p, q \in published'[d] : p = q
<1>. DEFINE this == task[d]
            draft == this.draft
            row == deals[d]
            record == RecordFromState(draft, state)
            new == [pc |-> next, draft |-> draft, state |-> state]
<1>1. /\ this.pc \in Nodes /\ Put(d, record) /\ task' = [task EXCEPT ![d] = new]
      /\ UNCHANGED <<call, up>>
      /\ state.events = Append(this.state.events, e)
  BY DEF NodeRuns, Emit
<1>2. /\ StoreTypeOK /\ row \in Row /\ log[d] \in Seq(Event)
      /\ draft \in DealRecord /\ this.state \in DealRecord
      /\ this.state.events \in Seq(Event) /\ draft.events \in Seq(Event)
  BY WorkTypes
<1>3. /\ row.status = "draft" /\ row = RecordFromState(draft, this.state).row
      /\ Len(this.state.events) <= Len(log[d]) /\ Len(draft.events) <= Len(log[d])
      /\ this.state.row.status = "draft"
      /\ draft.row.approval_snapshot \in published[d] \cup {None}
      /\ (this.pc \in BeforeRanking /\ draft.row.approval_snapshot = None) =>
           row.approval_snapshot = None
      /\ published[d] = {row.approval_snapshot} \ {None}
  BY <1>1 DEF WorkInv, DealFits, TaskFits, RowFits, Owned
<1>4. /\ row.comparison = this.state.row.comparison
      /\ draft.row.approval_snapshot # None => row.approval_snapshot = draft.row.approval_snapshot
      /\ (draft.row.approval_snapshot = None /\ row.comparison = None) =>
           row.approval_snapshot = None
      /\ (draft.row.approval_snapshot = None /\ row.comparison # None) =>
           row.approval_snapshot = row.comparison.recommended
  <2>. HIDE DEF this, draft, row
  <2>. QED BY <1>2, <1>3, RecordFields
<1>5. /\ record.events = state.events
      /\ record.row.status = state.row.status
      /\ record.row.comparison = state.row.comparison
      /\ draft.row.approval_snapshot # None =>
           record.row.approval_snapshot = draft.row.approval_snapshot
      /\ (draft.row.approval_snapshot = None /\ state.row.comparison = None) =>
           record.row.approval_snapshot = None
      /\ (draft.row.approval_snapshot = None /\ state.row.comparison # None) =>
           record.row.approval_snapshot = state.row.comparison.recommended
  <2>. HIDE DEF this, draft, row
  <2>. QED BY <1>2, RecordFields
<1>6. /\ deals'[d] = record.row
      /\ published'[d] = published[d] \cup ({record.row.approval_snapshot} \ {None})
      /\ Len(record.events) <= Len(log'[d])
      /\ Len(log[d]) <= Len(log'[d])
      /\ log'[d] = log[d] \/ log'[d] = Append(log[d], e)
  <2>1. e \in Event /\ record.events = Append(this.state.events, e)
    BY <1>1, <1>5 DEF WorkflowEvent, Event
  <2>. DEFINE base == this.state.events
  <2>2. base \in Seq(Event) /\ Len(base) <= Len(log[d]) /\ record.events = Append(base, e)
    BY <1>2, <1>3, <2>1
  <2>3. Put(d, record)
    BY <1>1
  <2>. HIDE DEF record, base
  <2>. QED BY <1>2, <2>1, <2>2, <2>3, PutOneMore
<1>7. Len(state.events) <= Len(log'[d]) /\ log'[d] \in Seq(Event)
  BY <1>5, <1>6 DEF TrustInv, TypeInv, ServiceInv, TypeOK, StoreTypeOK
<1>8. published'[d] = {record.row.approval_snapshot} \ {None}
  <2>1. CASE draft.row.approval_snapshot # None
    BY <1>3, <1>4, <1>5, <1>6, <2>1
  <2>2. CASE draft.row.approval_snapshot = None /\ this.pc \in BeforeRanking
    BY <1>3, <1>6, <2>2
  <2>3. CASE draft.row.approval_snapshot = None /\ this.pc \notin BeforeRanking
    <3>1. state.row.comparison = row.comparison
      BY <1>4, <2>3 DEF NodeRuns, BeforeRanking
    <3>. QED BY <1>3, <1>4, <1>5, <1>6, <2>3, <3>1
  <2>. QED BY <2>1, <2>2, <2>3
<1>9. (next \in BeforeRanking /\ draft.row.approval_snapshot = None) =>
        record.row.approval_snapshot = None
  <2>. SUFFICES ASSUME next \in BeforeRanking, draft.row.approval_snapshot = None
                PROVE  record.row.approval_snapshot = None
    OBVIOUS
  <2>1. this.pc \in BeforeRanking /\ state.row.comparison = row.comparison
    BY <1>4 DEF NodeRuns
  <2>. QED BY <1>3, <1>4, <1>5, <2>1
<1>. HIDE DEF record
<1>10. TaskFits(new, deals'[d], log'[d], published'[d])
  <2>1. new.pc = next /\ new.draft = draft /\ new.state = state
    OBVIOUS
  <2>. HIDE DEF new
  <2>2. deals'[d] = RecordFromState(new.draft, new.state).row
    BY <1>6, <2>1 DEF record
  <2>3. Preview(new.draft, new.state) = record.row.approval_snapshot
    BY <2>1 DEF Preview, record
  <2>4. Len(draft.events) <= Len(log'[d])
    <3>1. Len(draft.events) \in Nat /\ Len(log[d]) \in Nat /\ Len(log'[d]) \in Nat
      BY <1>2, <1>7
    <3>2. Len(draft.events) <= Len(log[d]) /\ Len(log[d]) <= Len(log'[d])
      BY <1>3, <1>6
    <3>. QED BY <3>1, <3>2
  <2>5. next \in Nodes => state.row.status = "draft"
    BY <1>3 DEF NodeRuns
  <2>6. next \notin Nodes => /\ next = "final_put"
                             /\ state.row.status \in {"awaiting_approval", "failed"}
    BY DEF NodeRuns
  <2>7. draft.row.approval_snapshot \in published'[d] \cup {None}
    BY <1>3, <1>6
  <2>8. next # "failed" /\ (next = "final_put" => next \notin Nodes) /\ next # "scheduled"
    BY DEF Nodes
  <2>. QED BY <1>5, <1>6, <1>7, <1>8, <1>9, <2>1, <2>2, <2>3, <2>4, <2>5, <2>6, <2>7, <2>8
       DEF TaskFits, Owned
<1>11. RowFits(deals'[d], published'[d])
  <2>1. state.row.status \in {"draft", "awaiting_approval", "failed"}
    BY <1>3 DEF NodeRuns
  <2>. QED BY <1>5, <1>6, <1>8, <2>1 DEF RowFits
<1>. HIDE DEF new
<1>12. \A p, q \in published'[d] : p = q
  BY <1>8
<1>. QED BY <1>1, <1>3, <1>6, <1>10, <1>11, <1>12, NoCallOnDraft, TaskPutFits

\* The last put of a workflow, and that of a failure (_process).
LEMMA FinalPutWork ==
  ASSUME WorkInv, TrustInv', NEW d \in Deals, FinalPut(d)
  PROVE  WorkInv' /\ log' = log /\ published'[d] = published[d]
<1>. DEFINE this == task[d]
            row == deals[d]
            record == RecordFromState(this.draft, this.state)
<1>1. /\ this.pc = "final_put" /\ Put(d, record) /\ task' = [task EXCEPT ![d] = NoTask]
      /\ UNCHANGED <<call, up>>
  BY DEF FinalPut
<1>2. /\ StoreTypeOK /\ row \in Row /\ log[d] \in Seq(Event)
      /\ this.draft \in DealRecord /\ this.state \in DealRecord
      /\ this.state.events \in Seq(Event)
  BY WorkTypes
<1>3. /\ Len(this.state.events) <= Len(log[d])
      /\ this.state.row.status \in {"awaiting_approval", "failed"}
      /\ (this.state.row.status = "failed") <=> (row.status = "failed")
      /\ record.row.approval_snapshot \in published[d] \cup {None}
  BY <1>1 DEF WorkInv, DealFits, TaskFits, Preview
<1>4. record.events = this.state.events /\ record.row.status = this.state.row.status
  BY <1>2, RecordFields
<1>. HIDE DEF record
<1>5. deals'[d] = record.row /\ log'[d] = log[d] /\ published'[d] = published[d]
  <2>1. record.events \in Seq(Event) /\ Len(record.events) <= Len(log[d])
    BY <1>2, <1>3, <1>4
  <2>2. /\ log' = log /\ deals'[d] = record.row
        /\ published'[d] = published[d] \cup ({record.row.approval_snapshot} \ {None})
    BY <1>1, <1>2, <2>1, PutNothing
  <2>. QED BY <1>3, <2>2
<1>6. RowFits(deals'[d], published'[d])
  BY <1>3, <1>4, <1>5 DEF RowFits
<1>7. ASSUME NEW c \in Callers, call[c] # NoCall, call[c].deal = d
      PROVE  CallFits(call[c], deals'[d], log'[d], published'[d])
  <2>1. CallFits(call[c], row, log[d], published[d])
    BY <1>7 DEF WorkInv, CallsFit
  <2>. QED BY <1>3, <1>4, <1>5, <2>1 DEF CallFits
<1>8. log' = log
  BY <1>1, <1>2, <1>3, <1>4, PutNothing
<1>. QED BY <1>1, <1>5, <1>6, <1>7, <1>8, NoTaskFits, TaskPutFits

LEMMA FailedPutWork ==
  ASSUME WorkInv, TrustInv', NEW d \in Deals, FailedPut(d)
  PROVE  /\ WorkInv'
         /\ log'[d] = log[d] \/ log'[d] = Append(log[d], "workflow_failed")
         /\ published'[d] = published[d]
         /\ deals[d].status = "draft"
<1>. DEFINE draft == task[d].draft
            row == deals[d]
            failed == [draft.row EXCEPT !.status = "failed", !.errors = TRUE]
            record == FailedRecord(draft)
<1>1. /\ task[d].pc = "failed" /\ Put(d, record) /\ task' = [task EXCEPT ![d] = NoTask]
      /\ UNCHANGED <<call, up>>
  BY DEF FailedPut
<1>2. /\ StoreTypeOK /\ row \in Row /\ log[d] \in Seq(Event)
      /\ draft.row \in Row /\ draft.events \in Seq(Event)
  BY WorkTypes
<1>3. /\ row.status = "draft" /\ Len(draft.events) <= Len(log[d])
      /\ draft.row.approval_snapshot \in published[d] \cup {None}
  BY <1>1 DEF WorkInv, DealFits, TaskFits, Owned
<1>4. failed.status = "failed" /\ failed.approval_snapshot = draft.row.approval_snapshot
  BY <1>2 DEF Row
<1>5. record.row = failed /\ record.events = Append(draft.events, "workflow_failed")
  BY DEF FailedRecord
<1>. HIDE DEF record, failed
<1>6. /\ deals'[d] = failed /\ published'[d] = published[d]
      /\ log'[d] = log[d] \/ log'[d] = Append(log[d], "workflow_failed")
  <2>1. "workflow_failed" \in Event
    BY DEF Event
  <2>2. /\ deals'[d] = record.row
        /\ log'[d] = log[d] \/ log'[d] = Append(log[d], "workflow_failed")
        /\ published'[d] = published[d] \cup ({record.row.approval_snapshot} \ {None})
    <3>. DEFINE base == draft.events
    <3>1. base \in Seq(Event) /\ Len(base) <= Len(log[d])
          /\ record.events = Append(base, "workflow_failed")
      BY <1>2, <1>3, <1>5
    <3>. HIDE DEF draft, base
    <3>. QED BY <1>1, <1>2, <2>1, <3>1, PutOneMore
  <2>. QED BY <1>3, <1>4, <1>5, <2>2
<1>7. RowFits(deals'[d], published'[d])
  BY <1>3, <1>4, <1>6 DEF RowFits
<1>. QED BY <1>1, <1>3, <1>6, <1>7, NoCallOnDraft, NoTaskFits, TaskPutFits

\* A step that writes no row, no journal and shows no snapshot.
LEMMA KeepWork ==
  ASSUME WorkInv, TrustInv', UNCHANGED <<deals, log, published>>,
         \A d \in Deals : task'[d] # task[d] =>
           TaskFits(task'[d], deals[d], log[d], published[d]),
         \A c \in Callers : (call'[c] # NoCall /\ call'[c] # call[c]) =>
           CallFits(call'[c], deals[call'[c].deal], log[call'[c].deal],
                    published[call'[c].deal]),
         DownIsEmpty'
  PROVE  WorkInv'
<1>1. \A d \in Deals : DealFits(d)'
  BY DEF WorkInv, DealFits
<1>2. CallsFit'
  BY DEF WorkInv, CallsFit
<1>. QED BY <1>1, <1>2 DEF WorkInv

\* A task that fails stores nothing yet, and keeps the draft it has read.
LEMMA RankRaisesWork ==
  ASSUME WorkInv, TrustInv', NEW d \in Deals, RankRaises(d)
  PROVE  WorkInv'
<1>. DEFINE new == [task[d] EXCEPT !.pc = "failed"]
<1>1. task[d].pc \in Nodes /\ task' = [task EXCEPT ![d] = new]
      /\ UNCHANGED <<deals, log, published, call, up>>
  BY DEF RankRaises, Nodes, storeVars
<1>2. new.pc = "failed" /\ new.draft = task[d].draft
  BY WorkTypes DEF Task
<1>. HIDE DEF new
<1>3. TaskFits(new, deals[d], log[d], published[d])
  BY <1>1, <1>2 DEF WorkInv, DealFits, TaskFits, Owned, Nodes, BeforeRanking
<1>4. DownIsEmpty'
  BY <1>1 DEF WorkInv, DownIsEmpty
<1>5. \A e \in Deals : task'[e] # task[e] => e = d /\ task'[e] = new
  BY <1>1, WorkTypes
<1>. QED BY <1>1, <1>3, <1>4, <1>5, KeepWork

LEMMA TaskFaultWork ==
  ASSUME WorkInv, TrustInv', NEW d \in Deals, TaskFault(d)
  PROVE  WorkInv'
<1>1. UNCHANGED <<deals, log, published, call, up>>
  BY DEF TaskFault, storeVars
<1>2. PICK new : task' = [task EXCEPT ![d] = new] /\ TaskFits(new, deals[d], log[d], published[d])
  <2>1. CASE /\ task[d].pc = "scheduled"
             /\ task' = [task EXCEPT ![d].pc = "failed", ![d].draft = Get(d)]
    <3>. DEFINE new == [task[d] EXCEPT !.pc = "failed", !.draft = Get(d)]
    <3>1. new.pc = "failed" /\ new.draft = Get(d)
      BY WorkTypes DEF Task
    <3>2. task' = [task EXCEPT ![d] = new]
      BY <2>1, WorkTypes
    <3>3. Get(d).row = deals[d] /\ Get(d).events = log[d] /\ Len(log[d]) \in Nat
      BY WorkTypes DEF Get
    <3>4. /\ deals[d].status = "draft"
          /\ deals[d].approval_snapshot \in published[d] \cup {None}
      BY <2>1 DEF WorkInv, DealFits, TaskFits, RowFits, Owned
    <3>. HIDE DEF new
    <3>5. TaskFits(new, deals[d], log[d], published[d])
      BY <3>1, <3>3, <3>4 DEF TaskFits, Owned, Nodes, BeforeRanking
    <3>. QED BY <3>2, <3>5
  <2>2. CASE task[d].pc \in Nodes /\ task' = [task EXCEPT ![d].pc = "failed"]
    <3>. DEFINE new == [task[d] EXCEPT !.pc = "failed"]
    <3>1. new.pc = "failed" /\ new.draft = task[d].draft
      BY WorkTypes DEF Task
    <3>2. task' = [task EXCEPT ![d] = new]
      BY <2>2
    <3>. HIDE DEF new
    <3>3. TaskFits(new, deals[d], log[d], published[d])
      BY <2>2, <3>1 DEF WorkInv, DealFits, TaskFits, Owned, Nodes, BeforeRanking
    <3>. QED BY <3>2, <3>3
  <2>3. CASE task' = [task EXCEPT ![d] = NoTask]
    BY <2>3, NoTaskFits
  <2>. QED BY <2>1, <2>2, <2>3 DEF TaskFault
<1>3. DownIsEmpty'
  BY <1>1 DEF WorkInv, DownIsEmpty
<1>4. \A e \in Deals : task'[e] # task[e] => e = d /\ task'[e] = new
  BY <1>2, WorkTypes
<1>. QED BY <1>1, <1>2, <1>3, <1>4, KeepWork

\* A client submits a deal that did not exist.
LEMMA SubmitWork ==
  ASSUME WorkInv, TrustInv', NEW d \in Deals, NEW request, Submit(d, request)
  PROVE  /\ WorkInv'
         /\ log'[d] = log[d] \/ log'[d] = Append(log[d], "deal_created")
         /\ published'[d] = published[d]
<1>. DEFINE row == EmptyRow("draft", request)
            record == [row |-> row, events |-> <<"deal_created">>]
<1>1. /\ deals[d].status = "absent" /\ Put(d, record)
      /\ task' = [task EXCEPT ![d] = ScheduledTask] /\ UNCHANGED <<call, up>>
  BY DEF Submit
<1>2. StoreTypeOK /\ log[d] \in Seq(Event) /\ published[d] = {}
  BY <1>1, WorkTypes DEF WorkInv, DealFits, RowFits
<1>3. /\ row.status = "draft" /\ row.approval_snapshot = None /\ row.comparison = None
      /\ record.row = row
  BY DEF EmptyRow
<1>4. /\ << >> \in Seq(Event) /\ Len(<< >>) <= Len(log[d]) /\ "deal_created" \in Event
      /\ record.events = Append(<< >>, "deal_created")
  <2>1. Len(log[d]) \in Nat
    BY <1>2
  <2>. QED BY <2>1 DEF Event
<1>. HIDE DEF record, row
<1>5. /\ deals'[d] = row
      /\ log'[d] = log[d] \/ log'[d] = Append(log[d], "deal_created")
      /\ published'[d] = published[d] \cup ({row.approval_snapshot} \ {None})
  <2>. DEFINE base == << >>
  <2>1. base \in Seq(Event) /\ Len(base) <= Len(log[d])
        /\ record.events = Append(base, "deal_created")
    BY <1>4
  <2>0. "deal_created" \in Event /\ StoreTypeOK /\ Put(d, record)
    BY <1>1, <1>2 DEF Event
  <2>. HIDE DEF base
  <2>2. /\ deals'[d] = record.row
        /\ log'[d] = log[d] \/ log'[d] = Append(log[d], "deal_created")
        /\ published'[d] = published[d] \cup ({record.row.approval_snapshot} \ {None})
    BY <2>0, <2>1, PutOneMore
  <2>. QED BY <1>3, <2>2
<1>6. RowFits(deals'[d], published'[d]) /\ published'[d] = published[d]
  BY <1>2, <1>3, <1>5 DEF RowFits
<1>7. TaskFits(ScheduledTask, deals'[d], log'[d], published'[d])
  BY <1>3, <1>5, NoTaskFits
<1>. QED BY <1>1, <1>5, <1>6, <1>7, NoCallOnDraft, TaskPutFits

\* A call begins: `this' is what the caller read under the lock.
Begins(c, d, this) ==
  /\ up /\ call[c] = NoCall /\ (Synchronous => task[d].pc = "none")
  /\ call' = [call EXCEPT ![c] = this]
  /\ UNCHANGED <<storeVars, trustVars, task, up, life>>
  /\ this # NoCall /\ this.deal = d /\ this.record = Get(d)
  /\ \/ /\ this.op = "approve" /\ deals[d].status = "awaiting_approval"
        /\ this.quote \in ApprovableHashes(d)
        /\ \/ this.pc = "anchor"
           \/ this.pc = "put" /\ purchases[d] # None /\ this.artifacts = purchases[d]
     \/ /\ this.op \in {"reject", "request_changes"} /\ deals[d].status = "awaiting_approval"
        /\ this.pc = "put" /\ this.quote \in published[d]
     \/ /\ this.op = "sign" /\ deals[d].status = "payment_signature_required"
        /\ this.pc = "put" /\ this.quote = deals[d].selected_quote
        /\ deals[d].payment_draft # None

\* Every call begins in one of these ways.
LEMMA CallBegins ==
  ASSUME NEW c \in Callers, NEW d \in Deals,
         \/ BeginApprove(c, d)
         \/ \E decision \in {"reject", "request_changes"} : BeginDecide(c, d, decision)
         \/ BeginSign(c, d)
  PROVE  \E this : Begins(c, d, this)
<1>1. CASE BeginApprove(c, d)
  <2>1. PICK q \in ApprovableHashes(d) :
          LET approval ==
                [NoCall EXCEPT !.op = "approve", !.deal = d, !.record = Get(d), !.quote = q]
          IN /\ Enter(c, d)
             /\ Approvable(d, q)
             /\ \/ /\ purchases[d] # None
                   /\ call' = [call EXCEPT ![c] =
                        [approval EXCEPT !.pc = "put", !.artifacts = purchases[d]]]
                \/ call' = [call EXCEPT ![c] = [approval EXCEPT !.pc = "anchor"]]
             /\ UNCHANGED <<storeVars, trustVars, task, up, life>>
    BY <1>1 DEF BeginApprove
  <2>. DEFINE approval ==
         [NoCall EXCEPT !.op = "approve", !.deal = d, !.record = Get(d), !.quote = q]
  <2>2. /\ up /\ call[c] = NoCall /\ (Synchronous => task[d].pc = "none")
        /\ deals[d].status = "awaiting_approval"
    BY <2>1 DEF Enter, ClientMayAct, Approvable
  <2>3. CASE /\ purchases[d] # None
             /\ call' = [call EXCEPT ![c] =
                  [approval EXCEPT !.pc = "put", !.artifacts = purchases[d]]]
    <3>. DEFINE this == [approval EXCEPT !.pc = "put", !.artifacts = purchases[d]]
    <3>1. /\ this.op = "approve" /\ this.pc = "put" /\ this.deal = d /\ this.record = Get(d)
          /\ this.quote = q /\ this.artifacts = purchases[d] /\ this # NoCall
      BY DEF NoCall
    <3>2. call' = [call EXCEPT ![c] = this]
      BY <2>3
    <3>. HIDE DEF this
    <3>. QED BY <2>1, <2>2, <2>3, <3>1, <3>2 DEF Begins
  <2>4. CASE call' = [call EXCEPT ![c] = [approval EXCEPT !.pc = "anchor"]]
    <3>. DEFINE this == [approval EXCEPT !.pc = "anchor"]
    <3>1. /\ this.op = "approve" /\ this.pc = "anchor" /\ this.deal = d
          /\ this.record = Get(d) /\ this.quote = q /\ this # NoCall
      BY DEF NoCall
    <3>2. call' = [call EXCEPT ![c] = this]
      BY <2>4
    <3>. HIDE DEF this
    <3>. QED BY <2>1, <2>2, <3>1, <3>2 DEF Begins
  <2>. QED BY <2>1, <2>3, <2>4
<1>2. ASSUME NEW decision \in {"reject", "request_changes"}, BeginDecide(c, d, decision)
      PROVE  \E this : Begins(c, d, this)
  <2>. DEFINE this ==
         [NoCall EXCEPT !.op = decision, !.pc = "put", !.deal = d, !.record = Get(d),
                        !.quote = deals[d].approval_snapshot]
  <2>1. /\ this.op = decision /\ this.pc = "put" /\ this.deal = d /\ this.record = Get(d)
        /\ this.quote = deals[d].approval_snapshot /\ this # NoCall
    BY <1>2 DEF NoCall
  <2>2. call' = [call EXCEPT ![c] = this]
    BY <1>2 DEF BeginDecide
  <2>. HIDE DEF this
  <2>. QED BY <1>2, <2>1, <2>2 DEF BeginDecide, Enter, ClientMayAct, Begins
<1>3. CASE BeginSign(c, d)
  <2>. DEFINE this ==
         [NoCall EXCEPT !.op = "sign", !.pc = "put", !.deal = d, !.record = Get(d),
                        !.quote = deals[d].selected_quote]
  <2>1. /\ this.op = "sign" /\ this.pc = "put" /\ this.deal = d /\ this.record = Get(d)
        /\ this.quote = deals[d].selected_quote /\ this # NoCall
    BY DEF NoCall
  <2>2. call' = [call EXCEPT ![c] = this]
    BY <1>3 DEF BeginSign
  <2>. HIDE DEF this
  <2>. QED BY <1>3, <2>1, <2>2 DEF BeginSign, Enter, ClientMayAct, Begins
<1>. QED BY <1>1, <1>2, <1>3

\* What the caller read under the lock is what the deal is.
LEMMA BeginWork ==
  ASSUME WorkInv, TrustInv', NEW c \in Callers, NEW d \in Deals, NEW this, Begins(c, d, this)
  PROVE  WorkInv'
<1>1. /\ UNCHANGED <<deals, log, published, task, up>> /\ up
      /\ call' = [call EXCEPT ![c] = this] /\ this.deal = d
      /\ this.record.row = deals[d] /\ this.record.events = log[d]
  BY DEF Begins, storeVars, Get
<1>2. CallFits(this, deals[d], log[d], published[d])
  <2>1. deals[d].status \in {"awaiting_approval", "payment_signature_required"}
    BY DEF Begins
  <2>2. deals[d].approval_snapshot \in published[d] \cup {None}
    BY DEF WorkInv, DealFits, RowFits
  <2>. QED BY <1>1, <2>1, <2>2 DEF CallFits
<1>3. \A e \in Callers : call'[e] # call[e] => e = c /\ call'[e] = this
  BY <1>1, WorkTypes
<1>4. DownIsEmpty'
  BY <1>1 DEF DownIsEmpty
<1>. QED BY <1>1, <1>2, <1>3, <1>4, KeepWork

\* A call under way runs in a process that is up.
LEMMA CallIsUp ==
  ASSUME WorkInv, NEW c \in Callers, call[c] # NoCall
  PROVE  up
BY DEF WorkInv, DownIsEmpty

\* A call that writes its deal, a batch being added to the journal it read.
\* It is the only call there is.
LEMMA CallPutWork ==
  ASSUME WorkInv, TrustInv', NEW c \in Callers, call[c].pc = "put",
         NEW record, Put(call[c].deal, record), NEW batch \in Seq(Event),
         record.events = call[c].record.events \o batch,
         record.row.status \notin {"absent", "draft", "failed"},
         UNCHANGED <<task, up>>,
         \A f \in Callers \ {c} : call'[f] = call[f],
         \/ call'[c] = NoCall
         \/ /\ call'[c].pc = "append_outbox"
            /\ call'[c].deal = call[c].deal /\ call'[c].record = call[c].record
  PROVE  /\ WorkInv'
         /\ log'[call[c].deal] = log[call[c].deal] \o batch
         /\ deals'[call[c].deal] = record.row
<1>. DEFINE d == call[c].deal
            this == call[c]
<1>1. /\ StoreTypeOK /\ d \in Deals /\ this # NoCall /\ log[d] \in Seq(Event)
      /\ ServiceInv
  BY WorkTypes DEF NoCall
<1>2. CallFits(this, deals[d], log[d], published[d])
  BY <1>1 DEF WorkInv, CallsFit
<1>3. this.record.events = log[d]
  BY <1>2 DEF CallFits
<1>4. /\ log'[d] = log[d] \o batch
      /\ Len(log[d]) <= Len(log'[d])
      /\ deals'[d] = record.row
      /\ published'[d] = published[d] \cup ({record.row.approval_snapshot} \ {None})
  <2>1. Put(d, record) /\ StoreTypeOK /\ d \in Deals /\ record.events = log[d] \o batch
    BY <1>1, <1>3
  <2>. HIDE DEF d, this
  <2>. QED BY <2>1, PutBatch
<1>5. TaskFits(task[d], deals'[d], log'[d], published'[d])
  <2>1. TaskFits(task[d], deals[d], log[d], published[d])
    BY <1>1 DEF WorkInv, DealFits
  <2>2. task[d].pc \notin Owned /\ task[d].pc \notin BeforeRanking
    BY <1>2, <2>1 DEF CallFits, TaskFits, Owned, BeforeRanking, Nodes
  <2>3. /\ Len(log[d]) \in Nat /\ Len(log'[d]) \in Nat /\ Len(task[d].state.events) \in Nat
    <3>1. log'[d] \in Seq(Event)
      BY <1>1 DEF TrustInv, TypeInv, ServiceInv, TypeOK, StoreTypeOK
    <3>2. task[d].state.events \in Seq(Event)
      BY <1>1, WorkTypes
    <3>3. \A s \in Seq(Event) : Len(s) \in Nat
      OBVIOUS
    <3>. QED BY <1>1, <3>1, <3>2, <3>3
  <2>4. task[d].pc = "final_put" => Len(task[d].state.events) <= Len(log'[d])
    BY <1>4, <2>1, <2>3 DEF TaskFits
  <2>. QED BY <1>2, <1>4, <2>1, <2>2, <2>4 DEF TaskFits, CallFits, Owned
<1>6. RowFits(deals'[d], published'[d])
  BY <1>4 DEF RowFits
<1>7. ASSUME NEW f \in Deals
      PROVE  DealFits(f)'
  <2>1. CASE f = d
    BY <1>5, <1>6, <2>1 DEF DealFits
  <2>2. CASE f # d
    BY <1>1, <2>2, PutEffect DEF WorkInv, DealFits
  <2>. QED BY <2>1, <2>2
<1>8. CallsFit'
  <2>1. \A f \in Callers : call'[f] # NoCall => f = c
    BY <1>1, WorkTypes, OnlyCall
  <2>2. ASSUME call'[c] # NoCall
        PROVE  call'[c].deal = d /\ CallFits(call'[c], deals'[d], log'[d], published'[d])
    BY <1>2, <1>4, <2>2 DEF CallFits
  <2>. QED BY <2>1, <2>2 DEF CallsFit
<1>9. DownIsEmpty'
  BY <1>1, CallIsUp DEF DownIsEmpty
<1>. QED BY <1>4, <1>7, <1>8, <1>9 DEF WorkInv

\* The fields of the records the calls store.
LEMMA DecidedFields ==
  ASSUME NEW record, record.row \in Row, NEW op, NEW q, NEW decided,
         decided = DecidedRecord(record, op, q)
  PROVE  /\ decided.row.status \in {"rejected", "changes_requested"}
         /\ decided.row.approval_snapshot = record.row.approval_snapshot
         /\ decided.row.selected_quote = record.row.selected_quote
         /\ decided.row.payment_draft = record.row.payment_draft
         /\ decided.row.human_decision = [decision |-> op, snapshot |-> q]
BY DEF DecidedRecord, Row

\* Signing changes the status and the draft's signature, not its terms.
LEMMA SignedFields ==
  ASSUME NEW record, record.row \in Row, record.row.payment_draft \in PaymentDraft,
         NEW signed, signed = SignedRecord(record)
  PROVE  /\ signed.events = record.events \o SignatureEvents(record.row)
         /\ signed.row.status = "completed"
         /\ signed.row.approval_snapshot = record.row.approval_snapshot
         /\ signed.row.selected_quote = record.row.selected_quote
         /\ signed.row.payment_draft \in PaymentDraft
         /\ signed.row.payment_draft.id = record.row.payment_draft.id
         /\ signed.row.payment_draft.quote = record.row.payment_draft.quote
         /\ signed.row.purchase_intent = record.row.purchase_intent
         /\ signed.row.ledger_anchor = record.row.ledger_anchor
         /\ signed.row.human_decision = record.row.human_decision
BY DEF SignedRecord, SignatureEvents, Row, PaymentDraft

\* The put of each call, with what it adds to the journal.
LEMMA PutApprovalWork ==
  ASSUME WorkInv, TrustInv', NEW c \in Callers, PutApproval(c)
  PROVE  /\ WorkInv'
         /\ log'[call[c].deal] = log[call[c].deal] \o ApprovalEvents
<1>. DEFINE this == call[c]
            record == ApprovedRecord(this.record, this.quote, this.artifacts)
<1>1. /\ this.pc = "put" /\ Put(this.deal, record) /\ UNCHANGED <<task, up>>
      /\ call' = [call EXCEPT ![c] = NoCall]
  BY DEF PutApproval, Leave
<1>2. this.record.row \in Row
  BY <1>1, WorkTypes DEF NoCall
<1>3. /\ record.events = this.record.events \o ApprovalEvents
      /\ record.row.status \notin {"absent", "draft", "failed"}
  <2>1. record.row.status = "payment_signature_required"
    BY <1>2 DEF ApprovedRecord, Row
  <2>. QED BY <2>1 DEF ApprovedRecord
<1>4. call'[c] = NoCall /\ \A f \in Callers \ {c} : call'[f] = call[f]
  BY <1>1, WorkTypes
<1>. HIDE DEF record
<1>5. /\ call[c].pc = "put" /\ Put(call[c].deal, record)
      /\ record.events = call[c].record.events \o ApprovalEvents
      /\ UNCHANGED <<task, up>>
  BY <1>1, <1>3
<1>. QED BY <1>3, <1>4, <1>5, ApprovalBatch, CallPutWork

\* decide and sign_payment store their rows.
LEMMA PutDecisionWork ==
  ASSUME WorkInv, TrustInv', NEW c \in Callers, PutDecision(c)
  PROVE  /\ WorkInv'
         /\ DecisionEvent[call[c].op] \in {"human_reject", "human_request_changes"}
         /\ log'[call[c].deal] = log[call[c].deal] \o <<DecisionEvent[call[c].op]>>
<1>. DEFINE this == call[c]
            e == DecisionEvent[this.op]
            record == DecidedRecord(this.record, this.op, this.quote)
<1>1. /\ this.pc = "put" /\ Put(this.deal, record) /\ UNCHANGED <<task, up>>
      /\ call' = [call EXCEPT ![c] = NoCall] /\ this.op \in {"reject", "request_changes"}
  BY DEF PutDecision, Leave
<1>2. this.record.row \in Row /\ this.record.events \in Seq(Event)
  BY <1>1, WorkTypes DEF NoCall
<1>3. /\ e \in {"human_reject", "human_request_changes"} /\ e \in Event
      /\ record.events = Append(this.record.events, e)
  BY <1>1 DEF DecidedRecord, DecisionEvent, Event
<1>4. record.row.status \notin {"absent", "draft", "failed"}
  BY <1>1, <1>2, DecidedFields
<1>5. call'[c] = NoCall /\ \A f \in Callers \ {c} : call'[f] = call[f]
  BY <1>1, WorkTypes
<1>. HIDE DEF record, e
<1>6. <<e>> \in Seq(Event) /\ record.events = this.record.events \o <<e>>
  BY <1>2, <1>3, SingleBatch
<1>7. WorkInv' /\ log'[this.deal] = log[this.deal] \o <<e>>
  BY <1>1, <1>4, <1>5, <1>6, CallPutWork
<1>. QED BY <1>3, <1>7 DEF e

LEMMA PutSignedWork ==
  ASSUME WorkInv, TrustInv', NEW c \in Callers, PutSigned(c)
  PROVE  /\ WorkInv'
         /\ log'[call[c].deal] = log[call[c].deal] \o SignatureEvents(call[c].record.row)
<1>. DEFINE this == call[c]
            next == [this EXCEPT !.pc = "append_outbox"]
            record == SignedRecord(this.record)
<1>1. /\ this.pc = "put" /\ Put(this.deal, record) /\ UNCHANGED <<task, up>>
      /\ call' = [call EXCEPT ![c] = next] /\ this.op = "sign"
  BY DEF PutSigned, NextPC
<1>2. /\ this.record.row \in Row /\ this.record.row.payment_draft \in PaymentDraft
      /\ this \in Call
  BY <1>1, WorkTypes DEF NoCall, CallReady
<1>3. /\ record.events = this.record.events \o SignatureEvents(this.record.row)
      /\ record.row.status = "completed"
      /\ SignatureEvents(this.record.row) \in Seq(Event)
  BY <1>2, SignedFields, SignatureBatch
<1>4. /\ call'[c].deal = this.deal /\ call'[c].pc = "append_outbox"
      /\ call'[c].record = this.record
      /\ \A f \in Callers \ {c} : call'[f] = call[f]
  BY <1>1, <1>2, WorkTypes DEF Call
<1>. HIDE DEF record
<1>. QED BY <1>1, <1>3, <1>4, CallPutWork

\* The steps of a call that write no row.
LEMMA CallGoesOnWork ==
  ASSUME WorkInv, TrustInv', NEW c \in Callers,
         \/ AnchorIntent(c) \/ CreateDraft(c) \/ RefusePurchase(c) \/ QueueMessages(c)
         \/ MarkPublished(c) \/ CallFault(c)
  PROVE  /\ WorkInv' /\ UNCHANGED <<deals, log, published, issued, task>> /\ call[c] # NoCall
<1>1. UNCHANGED <<deals, log, published, issued, task, up>>
  BY DEF AnchorIntent, CreateDraft, RefusePurchase, QueueMessages, MarkPublished, CallFault,
    storeVars, AppendOutbox, MarkOutboxPublished
<1>2. call[c] # NoCall /\ up
  BY CallIsUp DEF AnchorIntent, CreateDraft, RefusePurchase, QueueMessages, MarkPublished,
    CallFault, NoCall
<1>3. PICK next :
        /\ call' = [call EXCEPT ![c] = next]
        /\ next # NoCall => /\ next.deal = call[c].deal /\ next.record = call[c].record
                            /\ \/ next.pc = "mark_published"
                               \/ call[c].pc \in {"anchor", "gatekeep"}
  <2>0. call[c] \in Call
    BY WorkTypes
  <2>1. CASE AnchorIntent(c)
    <3>. DEFINE next == [call[c] EXCEPT !.pc = "gatekeep",
                                        !.anchor = Len(ledger[call[c].deal]) + 1]
    <3>1. call' = [call EXCEPT ![c] = next] /\ call[c].pc = "anchor"
      BY <2>1 DEF AnchorIntent
    <3>2. next.deal = call[c].deal /\ next.record = call[c].record
      BY <2>0 DEF Call
    <3>. HIDE DEF next
    <3>. QED BY <3>1, <3>2
  <2>2. CASE CreateDraft(c)
    <3>. DEFINE next == [call[c] EXCEPT !.pc = "put", !.artifacts = purchases'[call[c].deal]]
    <3>1. call' = [call EXCEPT ![c] = next] /\ call[c].pc = "gatekeep"
      BY <2>2 DEF CreateDraft
    <3>2. next.deal = call[c].deal /\ next.record = call[c].record
      BY <2>0 DEF Call
    <3>. HIDE DEF next
    <3>. QED BY <3>1, <3>2
  <2>3. CASE QueueMessages(c)
    <3>. DEFINE next == [call[c] EXCEPT !.pc = "mark_published"]
    <3>1. call' = [call EXCEPT ![c] = next]
      BY <2>3 DEF QueueMessages, NextPC
    <3>2. next.deal = call[c].deal /\ next.record = call[c].record /\ next.pc = "mark_published"
      BY <2>0 DEF Call
    <3>. HIDE DEF next
    <3>. QED BY <3>1, <3>2
  <2>4. CASE RefusePurchase(c) \/ MarkPublished(c) \/ CallFault(c)
    BY <2>4 DEF RefusePurchase, MarkPublished, CallFault, Leave
  <2>. QED BY <2>1, <2>2, <2>3, <2>4
<1>4. next # NoCall => CallFits(next, deals[call[c].deal], log[call[c].deal],
                                published[call[c].deal])
  BY <1>2, <1>3 DEF WorkInv, CallsFit, CallFits
<1>5. \A e \in Callers : call'[e] # call[e] => e = c /\ call'[e] = next
  BY <1>3, WorkTypes
<1>6. DownIsEmpty'
  BY <1>1, <1>2 DEF DownIsEmpty
<1>7. WorkInv'
  <2>1. \A e \in Callers : (call'[e] # NoCall /\ call'[e] # call[e]) =>
          CallFits(call'[e], deals[call'[e].deal], log[call'[e].deal], published[call'[e].deal])
    BY <1>3, <1>4, <1>5
  <2>. QED BY <1>1, <1>6, <2>1, KeepWork
<1>. QED BY <1>1, <1>2, <1>7

\* Nothing that is in memory survives a crash; the rows do.
LEMMA CrashWork ==
  ASSUME WorkInv, TrustInv', Crash
  PROVE  WorkInv'
<1>1. /\ UNCHANGED <<deals, log, published>>
      /\ \A d \in Deals : task'[d] = NoTask
      /\ \A c \in Callers : call'[c] = NoCall
  BY DEF Crash, storeVars
<1>2. DownIsEmpty'
  BY <1>1 DEF DownIsEmpty
<1>. QED BY <1>1, <1>2, NoTaskFits, KeepWork

\* The drafts listed at the start get a task each (resume_incomplete).
LEMMA RestartWork ==
  ASSUME WorkInv, TrustInv', Restart
  PROVE  /\ WorkInv'
         /\ \A d \in Deals : task'[d] = NoTask \/ (task'[d] = ScheduledTask /\ d \in Drafts)
         /\ \A c \in Callers : call[c] = NoCall
<1>1. UNCHANGED <<deals, log, published, call>>
  BY DEF Restart, storeVars
<1>2. PICK listed \in SUBSET Drafts :
        task' = [d \in Deals |-> IF d \in listed THEN ScheduledTask ELSE NoTask]
  BY DEF Restart
<1>3. \A d \in Deals : task'[d] = NoTask \/ (task'[d] = ScheduledTask /\ d \in Drafts)
  BY <1>2
<1>4. \A d \in Deals : TaskFits(task'[d], deals[d], log[d], published[d])
  BY <1>3, NoTaskFits DEF Drafts
<1>5. \A c \in Callers : call[c] = NoCall
  BY DEF WorkInv, DownIsEmpty, Restart
<1>6. DownIsEmpty'
  BY <1>1, <1>5 DEF DownIsEmpty
<1>. QED BY <1>1, <1>3, <1>4, <1>5, <1>6, KeepWork

\* The steps that leave the store, the tasks and the calls alone.
LEMMA RestWork ==
  ASSUME WorkInv, TrustInv', UNCHANGED <<deals, log, published, task, call, up>>
  PROVE  WorkInv'
<1>1. DownIsEmpty'
  BY DEF WorkInv, DownIsEmpty
<1>. QED BY <1>1, KeepWork

\* At first there are no rows, tasks or calls.
LEMMA WorkInvInit == Init => WorkInv
<1>. SUFFICES ASSUME Init
              PROVE  WorkInv
  OBVIOUS
<1>1. TrustInv
  BY TrustInvInit
<1>2. \A d \in Deals :
        /\ deals[d].status = "absent" /\ deals[d].approval_snapshot = None
        /\ published[d] = {} /\ task[d] = NoTask
  BY DEF Init, StoreInit, NoRecord, EmptyRow
<1>3. \A d \in Deals : DealFits(d)
  BY <1>2, NoTaskFits DEF DealFits, RowFits
<1>4. \A c \in Callers : call[c] = NoCall
  BY DEF Init
<1>. QED BY <1>1, <1>3, <1>4 DEF WorkInv, CallsFit, DownIsEmpty

\* Every step of the service keeps to the division of work.
LEMMA WorkStep == WorkInv /\ [Next]_vars => WorkInv'
<1>. SUFFICES ASSUME WorkInv, [Next]_vars
              PROVE  WorkInv'
  OBVIOUS
<1>0. TrustInv' /\ ServiceInv
  BY TrustStep, WorkTypes DEF WorkInv
<1>1. ASSUME NEW d \in Deals, NEW request \in Requests, Submit(d, request)
      PROVE  WorkInv'
  BY <1>0, <1>1, SubmitWork
<1>2. ASSUME NEW d \in Deals, TaskStep(d)
      PROVE  WorkInv'
  BY <1>0, <1>2, TaskStepForms, StartProcessWork, NodeRunsWork, RankRaisesWork, FinalPutWork,
    FailedPutWork
<1>3. ASSUME NEW d \in Deals, TaskFault(d)
      PROVE  WorkInv'
  BY <1>0, <1>3, TaskFaultWork
<1>4. ASSUME NEW d \in Deals, NEW what \in Lapses, Lapse(d, what)
      PROVE  WorkInv'
  BY <1>0, <1>4, RestWork DEF Lapse, storeVars
<1>5. ASSUME NEW c \in Callers, NEW d \in Deals,
             \/ BeginApprove(c, d)
             \/ \E decision \in {"reject", "request_changes"} : BeginDecide(c, d, decision)
             \/ BeginSign(c, d)
      PROVE  WorkInv'
  BY <1>0, <1>5, CallBegins, BeginWork
<1>6. ASSUME NEW c \in Callers, CallStep(c) \/ CallFault(c)
      PROVE  WorkInv'
  BY <1>0, <1>6, PutApprovalWork, PutDecisionWork, PutSignedWork, CallGoesOnWork DEF CallStep
<1>7. CASE Crash
  BY <1>0, <1>7, CrashWork
<1>8. CASE Restart
  BY <1>0, <1>8, RestartWork
<1>9. CASE UNCHANGED vars
  BY <1>0, <1>9, RestWork DEF vars, storeVars, serviceVars
<1>. QED BY <1>1, <1>2, <1>3, <1>4, <1>5, <1>6, <1>7, <1>8, <1>9 DEF Next

-----------------------------------------------------------------------------
(* The steps of the workflow in two forms: it stores a record, or nothing.  *)

\* What the workflow logs; no decision of a human is among it.
TaskEvent == WorkflowEvent \cup {"deal_created", "workflow_failed"}

Grows(d, events) == log'[d] = log[d] \/ \E e \in events : log'[d] = Append(log[d], e)

\* The draft a task goes on with is the one it has, or the one it reads.
SameDraft(d, new) ==
  \/ new.draft = task[d].draft /\ task[d].pc \in Nodes
  \/ new.draft = Get(d) /\ task[d].pc = "scheduled"

\* The task of deal d stores `record' and becomes `new'.  The record shows no
\* purchase, unless the draft already did; the deal is a draft or absent,
\* unless the last record is stored once more.
TaskWrites(d, record, new) ==
  /\ Put(d, record) /\ task' = [task EXCEPT ![d] = new]
  /\ UNCHANGED <<call, trustVars, up>>
  /\ Grows(d, TaskEvent)
  /\ published'[d] = published[d] \/ (\A p, q \in published'[d] : p = q)
  /\ record.row.status \in {"draft", "awaiting_approval", "failed"}
  /\ \/ record.row.payment_draft = None
     \/ task[d].pc = "failed" /\ record = FailedRecord(task[d].draft)
  /\ \/ deals[d].status = "absent" /\ record.row.status = "draft"
     \/ deals[d].status = "draft"
     \/ task[d].pc = "final_put" /\ record = RecordFromState(task[d].draft, task[d].state)
  /\ \/ new = NoTask
     \/ new = ScheduledTask
     \/ /\ new.pc \in Nodes \cup {"final_put"}
        /\ record = RecordFromState(new.draft, new.state)
        /\ SameDraft(d, new)

\* The task of deal d becomes `new' and stores nothing.
TaskKeeps(d, new) ==
  /\ task' = [task EXCEPT ![d] = new]
  /\ UNCHANGED <<storeVars, call, trustVars, up>>
  /\ new = NoTask \/ (new.pc = "failed" /\ SameDraft(d, new))

\* An event of the workflow, or none.
LEMMA GrowsOrdinary ==
  ASSUME NEW d \in Deals, NEW e \in TaskEvent, log'[d] = log[d] \/ log'[d] = Append(log[d], e)
  PROVE  Grows(d, TaskEvent)
BY DEF Grows

\* Each step of the workflow in its form.
LEMMA SubmitForms ==
  ASSUME WorkInv, TrustInv', NEW d \in Deals, NEW request, Submit(d, request)
  PROVE  \E record, new : TaskWrites(d, record, new)
<1>. DEFINE record == [row |-> EmptyRow("draft", request), events |-> <<"deal_created">>]
<1>1. /\ Put(d, record) /\ task' = [task EXCEPT ![d] = ScheduledTask]
      /\ UNCHANGED <<call, trustVars, up>> /\ deals[d].status = "absent"
  BY DEF Submit
<1>2. record.row.status = "draft" /\ record.row.payment_draft = None
  BY DEF EmptyRow
<1>3. Grows(d, TaskEvent) /\ published'[d] = published[d]
  BY SubmitWork, GrowsOrdinary DEF TaskEvent
<1>. HIDE DEF record
<1>. QED BY <1>1, <1>2, <1>3 DEF TaskWrites

LEMMA StartProcessForms ==
  ASSUME WorkInv, TrustInv', NEW d \in Deals, StartProcess(d)
  PROVE  \E record, new : TaskWrites(d, record, new)
<1>. DEFINE record == RecordFromState(Get(d), Get(d))
            new == [pc |-> "validate", draft |-> Get(d), state |-> Get(d)]
<1>1. /\ Put(d, record) /\ task' = [task EXCEPT ![d] = new]
      /\ UNCHANGED <<call, trustVars, up>> /\ task[d].pc = "scheduled"
  BY DEF StartProcess, Emit
<1>2. deals[d].status = "draft" /\ Get(d) \in DealRecord /\ Get(d).row.status = deals[d].status
  BY <1>1, WorkTypes, GetType DEF WorkInv, DealFits, TaskFits, Owned, Get
<1>3. record.row.status = "draft" /\ record.row.payment_draft = None
  BY <1>2, RecordFields
<1>4. Grows(d, TaskEvent) /\ published'[d] = published[d]
  BY StartProcessWork DEF Grows
<1>5. new.pc \in Nodes /\ record = RecordFromState(new.draft, new.state) /\ SameDraft(d, new)
  BY <1>1 DEF SameDraft, Nodes
<1>. HIDE DEF record, new
<1>. QED BY <1>1, <1>2, <1>3, <1>4, <1>5 DEF TaskWrites

LEMMA NodeRunsForms ==
  ASSUME WorkInv, TrustInv', NEW d \in Deals, NEW e \in WorkflowEvent,
         NEW state \in DealRecord, NEW next \in Nodes \cup {"final_put"},
         NodeRuns(d, e, state, next)
  PROVE  \E record, new : TaskWrites(d, record, new)
<1>. DEFINE draft == task[d].draft
            record == RecordFromState(draft, state)
            new == [pc |-> next, draft |-> draft, state |-> state]
<1>1. /\ Put(d, record) /\ task' = [task EXCEPT ![d] = new]
      /\ UNCHANGED <<call, trustVars, up>> /\ task[d].pc \in Nodes
  BY DEF NodeRuns, Emit
<1>2. deals[d].status = "draft" /\ draft \in DealRecord /\ task[d].state.row.status = "draft"
  BY <1>1, WorkTypes DEF WorkInv, DealFits, TaskFits, Owned
<1>3. state.row.status \in {"draft", "awaiting_approval", "failed"}
  BY <1>2 DEF NodeRuns
<1>4. record.row.status = state.row.status /\ record.row.payment_draft = None
  <2>. HIDE DEF draft
  <2>. QED BY <1>2, RecordFields
<1>5. Grows(d, TaskEvent) /\ \A p, q \in published'[d] : p = q
  BY NodeRunsWork, GrowsOrdinary DEF TaskEvent
<1>6. /\ new.pc \in Nodes \cup {"final_put"} /\ record = RecordFromState(new.draft, new.state)
      /\ SameDraft(d, new)
  BY <1>1 DEF SameDraft
<1>. HIDE DEF record, new
<1>. QED BY <1>1, <1>2, <1>3, <1>4, <1>5, <1>6 DEF TaskWrites

LEMMA FinalPutForms ==
  ASSUME WorkInv, TrustInv', NEW d \in Deals, FinalPut(d)
  PROVE  \E record, new : TaskWrites(d, record, new)
<1>. DEFINE record == RecordFromState(task[d].draft, task[d].state)
<1>1. /\ Put(d, record) /\ task' = [task EXCEPT ![d] = NoTask]
      /\ UNCHANGED <<call, trustVars, up>> /\ task[d].pc = "final_put"
  BY DEF FinalPut
<1>2. /\ task[d].draft \in DealRecord /\ task[d].state \in DealRecord
      /\ task[d].state.row.status \in {"awaiting_approval", "failed"}
  BY <1>1, WorkTypes DEF WorkInv, DealFits, TaskFits
<1>3. record.row.status = task[d].state.row.status /\ record.row.payment_draft = None
  BY <1>2, RecordFields
<1>4. Grows(d, TaskEvent) /\ published'[d] = published[d]
  BY FinalPutWork DEF Grows
<1>5. record = RecordFromState(task[d].draft, task[d].state)
  OBVIOUS
<1>. HIDE DEF record
<1>. QED BY <1>1, <1>2, <1>3, <1>4, <1>5 DEF TaskWrites

LEMMA FailedPutForms ==
  ASSUME WorkInv, TrustInv', NEW d \in Deals, FailedPut(d)
  PROVE  \E record, new : TaskWrites(d, record, new)
<1>. DEFINE record == FailedRecord(task[d].draft)
<1>1. /\ Put(d, record) /\ task' = [task EXCEPT ![d] = NoTask]
      /\ UNCHANGED <<call, trustVars, up>> /\ task[d].pc = "failed"
  BY DEF FailedPut
<1>2. record.row.status = "failed"
  <2>1. task[d].draft.row \in Row
    BY WorkTypes
  <2>. QED BY <2>1 DEF FailedRecord, Row
<1>3. Grows(d, TaskEvent) /\ published'[d] = published[d] /\ deals[d].status = "draft"
  BY FailedPutWork, GrowsOrdinary DEF TaskEvent
<1>4. record = FailedRecord(task[d].draft)
  OBVIOUS
<1>. HIDE DEF record
<1>. QED BY <1>1, <1>2, <1>3, <1>4 DEF TaskWrites

LEMMA RankRaisesForms ==
  ASSUME WorkInv, NEW d \in Deals, RankRaises(d)
  PROVE  \E new : TaskKeeps(d, new)
<1>. DEFINE new == [task[d] EXCEPT !.pc = "failed"]
<1>1. /\ task' = [task EXCEPT ![d] = new] /\ UNCHANGED <<storeVars, call, trustVars, up>>
      /\ task[d].pc \in Nodes
  BY DEF RankRaises, Nodes
<1>2. new.pc = "failed" /\ new.draft = task[d].draft
  BY WorkTypes DEF Task
<1>. HIDE DEF new
<1>. QED BY <1>1, <1>2 DEF TaskKeeps, SameDraft

LEMMA TaskFaultForms ==
  ASSUME WorkInv, NEW d \in Deals, TaskFault(d)
  PROVE  \E new : TaskKeeps(d, new)
<1>1. UNCHANGED <<storeVars, call, trustVars, up>>
  BY DEF TaskFault
<1>2. CASE /\ task[d].pc = "scheduled"
           /\ task' = [task EXCEPT ![d].pc = "failed", ![d].draft = Get(d)]
  <2>. DEFINE new == [task[d] EXCEPT !.pc = "failed", !.draft = Get(d)]
  <2>1. new.pc = "failed" /\ new.draft = Get(d)
    BY WorkTypes DEF Task
  <2>2. task' = [task EXCEPT ![d] = new]
    BY <1>2, WorkTypes
  <2>. HIDE DEF new
  <2>. QED BY <1>1, <1>2, <2>1, <2>2 DEF TaskKeeps, SameDraft
<1>3. CASE task[d].pc \in Nodes /\ task' = [task EXCEPT ![d].pc = "failed"]
  <2>. DEFINE new == [task[d] EXCEPT !.pc = "failed"]
  <2>1. new.pc = "failed" /\ new.draft = task[d].draft
    BY WorkTypes DEF Task
  <2>2. task' = [task EXCEPT ![d] = new]
    BY <1>3
  <2>. HIDE DEF new
  <2>. QED BY <1>1, <1>3, <2>1, <2>2 DEF TaskKeeps, SameDraft
<1>4. CASE task' = [task EXCEPT ![d] = NoTask]
  BY <1>1, <1>4 DEF TaskKeeps
<1>. QED BY <1>2, <1>3, <1>4 DEF TaskFault

LEMMA WorkflowForms ==
  ASSUME WorkInv, TrustInv', NEW d \in Deals,
         \/ \E request \in Requests : Submit(d, request)
         \/ TaskStep(d)
         \/ TaskFault(d)
  PROVE  \/ \E record, new : TaskWrites(d, record, new)
         \/ \E new : TaskKeeps(d, new)
<1>1. ServiceInv
  BY WorkTypes
<1>. QED BY <1>1, SubmitForms, TaskStepForms, StartProcessForms, NodeRunsForms,
  RankRaisesForms, FinalPutForms, FailedPutForms, TaskFaultForms

-----------------------------------------------------------------------------
(* The steps of a call, and the rest.                                      *)

\* A call stores `row' for its deal and logs a batch of events.
CallWrites(c, row, batch) ==
  /\ call[c].pc = "put" /\ call[c] # NoCall
  /\ \E record : record.row = row /\ Put(call[c].deal, record)
  /\ batch \in Seq(Event) /\ log'[call[c].deal] = log[call[c].deal] \o batch
  /\ UNCHANGED <<task, trustVars, up>>
  /\ \A f \in Callers \ {c} : call[f] = NoCall /\ call'[f] = NoCall

Approves(c, row) ==
  LET this == call[c]
  IN /\ this.op = "approve" /\ CallWrites(c, row, ApprovalEvents) /\ call'[c] = NoCall
     /\ row.status = "payment_signature_required"
     /\ row.approval_snapshot = this.quote
     /\ row.selected_quote = this.quote
     /\ row.payment_draft = this.artifacts.draft
     /\ row.purchase_intent = this.artifacts.intent
     /\ row.ledger_anchor = this.artifacts.anchor
     /\ row.human_decision = [decision |-> "approve", snapshot |-> this.quote]

Declines(c, row, e) ==
  LET this == call[c]
  IN /\ this.op \in {"reject", "request_changes"} /\ CallWrites(c, row, <<e>>)
     /\ call'[c] = NoCall
     /\ e = DecisionEvent[this.op] /\ e \in {"human_reject", "human_request_changes"}
     /\ row.status \in {"rejected", "changes_requested"}
     /\ row.approval_snapshot = this.record.row.approval_snapshot
     /\ row.payment_draft = this.record.row.payment_draft
     /\ row.human_decision = [decision |-> this.op, snapshot |-> this.quote]

Signs(c, row) ==
  LET this == call[c]
      before == call[c].record.row
  IN /\ this.op = "sign" /\ CallWrites(c, row, SignatureEvents(before))
     /\ call'[c] = [this EXCEPT !.pc = "append_outbox"]
     /\ row.status = "completed"
     /\ row.approval_snapshot = before.approval_snapshot
     /\ row.selected_quote = before.selected_quote
     /\ before.payment_draft \in PaymentDraft /\ row.payment_draft \in PaymentDraft
     /\ row.payment_draft.id = before.payment_draft.id
     /\ row.payment_draft.quote = before.payment_draft.quote
     /\ row.purchase_intent = before.purchase_intent
     /\ row.ledger_anchor = before.ledger_anchor
     /\ row.human_decision = before.human_decision

\* What a call writes, and for whom.
LEMMA CallWritesEffect ==
  ASSUME WorkInv, NEW c \in Callers, NEW row, NEW batch, CallWrites(c, row, batch)
  PROVE  /\ call[c].deal \in Deals /\ outbox' = outbox
         /\ deals'[call[c].deal] = row
         /\ published'[call[c].deal] =
              published[call[c].deal] \cup ({row.approval_snapshot} \ {None})
         /\ issued'[call[c].deal] =
              issued[call[c].deal] \cup (IF row.payment_draft = None THEN {}
                                         ELSE {row.payment_draft.id})
         /\ \A f \in Deals \ {call[c].deal} :
              /\ deals'[f] = deals[f] /\ log'[f] = log[f]
              /\ published'[f] = published[f] /\ issued'[f] = issued[f]
<1>1. call[c].deal \in Deals /\ StoreTypeOK
  BY WorkTypes DEF CallWrites
<1>2. PICK record : record.row = row /\ Put(call[c].deal, record)
  BY DEF CallWrites
<1>. QED BY <1>1, <1>2 DEF Put, StoreTypeOK

\* The caller about to write is the only one inside: the lock is not released between.
LEMMA OnlyCaller ==
  ASSUME WorkInv, NEW c \in Callers, call[c].pc = "put", NEW next,
         call' = [call EXCEPT ![c] = next]
  PROVE  /\ call[c] # NoCall /\ call'[c] = next
         /\ \A f \in Callers \ {c} : call[f] = NoCall /\ call'[f] = NoCall
<1>1. call[c] # NoCall /\ ServiceInv
  BY WorkTypes DEF NoCall
<1>. QED BY <1>1, WorkTypes, OnlyCall

\* Each write of a call in its form (approve, decide, sign_payment).
LEMMA ApprovalForms ==
  ASSUME WorkInv, TrustInv', NEW c \in Callers, PutApproval(c)
  PROVE  \E row : Approves(c, row)
<1>. DEFINE this == call[c]
            record == ApprovedRecord(this.record, this.quote, this.artifacts)
<1>1. /\ this.op = "approve" /\ this.pc = "put" /\ Put(this.deal, record)
      /\ UNCHANGED <<task, trustVars, up>> /\ call' = [call EXCEPT ![c] = NoCall]
  BY DEF PutApproval, Leave
<1>2. this.record.row \in Row
  BY <1>1, WorkTypes DEF NoCall
<1>3. CallWrites(c, record.row, ApprovalEvents) /\ call'[c] = NoCall
  BY <1>1, OnlyCaller, PutApprovalWork, ApprovalBatch DEF CallWrites
<1>4. /\ record.row.status = "payment_signature_required"
      /\ record.row.approval_snapshot = this.quote
      /\ record.row.selected_quote = this.quote
      /\ record.row.payment_draft = this.artifacts.draft
      /\ record.row.purchase_intent = this.artifacts.intent
      /\ record.row.ledger_anchor = this.artifacts.anchor
      /\ record.row.human_decision = [decision |-> "approve", snapshot |-> this.quote]
  BY <1>2 DEF ApprovedRecord, Row
<1>. HIDE DEF record
<1>. QED BY <1>1, <1>3, <1>4 DEF Approves

LEMMA DecisionForms ==
  ASSUME WorkInv, TrustInv', NEW c \in Callers, PutDecision(c)
  PROVE  \E row, e : Declines(c, row, e)
<1>. DEFINE this == call[c]
            record == DecidedRecord(this.record, this.op, this.quote)
<1>1. /\ this.op \in {"reject", "request_changes"} /\ this.pc = "put"
      /\ Put(this.deal, record)
      /\ UNCHANGED <<task, trustVars, up>> /\ call' = [call EXCEPT ![c] = NoCall]
  BY DEF PutDecision, Leave
<1>2. this.record.row \in Row
  BY <1>1, WorkTypes DEF NoCall
<1>3. PICK e \in {"human_reject", "human_request_changes"} :
        e = DecisionEvent[this.op] /\ log'[this.deal] = log[this.deal] \o <<e>>
  BY PutDecisionWork
<1>4. CallWrites(c, record.row, <<e>>) /\ call'[c] = NoCall
  <2>1. <<e>> \in Seq(Event)
    BY SingleBatch DEF Event
  <2>. QED BY <1>1, <1>3, <2>1, OnlyCaller DEF CallWrites
<1>5. /\ record.row.status \in {"rejected", "changes_requested"}
      /\ record.row.approval_snapshot = this.record.row.approval_snapshot
      /\ record.row.payment_draft = this.record.row.payment_draft
      /\ record.row.human_decision = [decision |-> this.op, snapshot |-> this.quote]
  BY <1>2 DEF DecidedRecord, Row
<1>. HIDE DEF record
<1>. QED BY <1>1, <1>3, <1>4, <1>5 DEF Declines

LEMMA SignatureForms ==
  ASSUME WorkInv, TrustInv', NEW c \in Callers, PutSigned(c)
  PROVE  \E row : Signs(c, row)
<1>. DEFINE this == call[c]
            record == SignedRecord(this.record)
            next == [this EXCEPT !.pc = "append_outbox"]
<1>1. /\ this.op = "sign" /\ this.pc = "put" /\ Put(this.deal, record)
      /\ UNCHANGED <<task, trustVars, up>> /\ call' = [call EXCEPT ![c] = next]
  BY DEF PutSigned, NextPC
<1>2. this.record.row \in Row /\ this.record.row.payment_draft \in PaymentDraft
  BY <1>1, WorkTypes DEF NoCall, CallReady
<1>3. CallWrites(c, record.row, SignatureEvents(this.record.row)) /\ call'[c] = next
  <2>. HIDE DEF next
  <2>. QED BY <1>1, OnlyCaller, PutSignedWork, SignatureBatch DEF CallWrites
<1>4. /\ record.row.status = "completed"
      /\ record.row.approval_snapshot = this.record.row.approval_snapshot
      /\ record.row.selected_quote = this.record.row.selected_quote
      /\ record.row.payment_draft \in PaymentDraft
      /\ record.row.payment_draft.id = this.record.row.payment_draft.id
      /\ record.row.payment_draft.quote = this.record.row.payment_draft.quote
      /\ record.row.purchase_intent = this.record.row.purchase_intent
      /\ record.row.ledger_anchor = this.record.row.ledger_anchor
      /\ record.row.human_decision = this.record.row.human_decision
  BY <1>2 DEF SignedRecord, Row, PaymentDraft
<1>. HIDE DEF record
<1>. QED BY <1>1, <1>2, <1>3, <1>4 DEF Signs

\* A step of a call that writes no row becomes `next': the intent is anchored,
\* the purchase made, the messages queued or marked, or the call ends.
GoesOn(c, next) ==
  LET this == call[c]
      d == call[c].deal
  IN /\ this # NoCall
     /\ call'[c] = next /\ \A f \in Callers \ {c} : call'[f] = call[f]
     /\ UNCHANGED <<deals, log, published, issued, task>>
     /\ next # NoCall => /\ next.op = this.op /\ next.deal = d
                         /\ next.record = this.record /\ next.quote = this.quote
     /\ \/ /\ this.pc = "anchor" /\ next.pc = "gatekeep"
           /\ AppendAnchor(d, this.quote) /\ UNCHANGED outbox
        \/ /\ this.pc = "gatekeep" /\ next.pc = "put"
           /\ purchases'[d] # None => purchases'[d].intent = this.quote
           /\ next.artifacts = purchases'[d]
           /\ \A e \in Deals \ {d} : purchases'[e] = purchases[e]
           /\ UNCHANGED <<ledger, outbox>>
        \/ /\ this.pc = "append_outbox" /\ next.pc = "mark_published"
           /\ AppendOutbox(d, OutboxMessages(this.record, this.quote)) /\ UNCHANGED trustVars
        \/ next = NoCall /\ MarkOutboxPublished(d) /\ UNCHANGED trustVars
        \/ next = NoCall /\ UNCHANGED <<outbox, trustVars>>

\* Every other step of a call.
LEMMA GoesOnForms ==
  ASSUME WorkInv, TrustInv', NEW c \in Callers,
         \/ AnchorIntent(c) \/ CreateDraft(c) \/ RefusePurchase(c) \/ QueueMessages(c)
         \/ MarkPublished(c) \/ CallFault(c)
  PROVE  \E next : GoesOn(c, next)
<1>. DEFINE this == call[c]
            d == call[c].deal
<1>1. UNCHANGED <<deals, log, published, issued, task>> /\ this # NoCall
  BY CallGoesOnWork
<1>2. this \in Call /\ d \in Deals /\ call \in [Callers -> Call]
  BY <1>1, WorkTypes
<1>3. ASSUME NEW next, call' = [call EXCEPT ![c] = next]
      PROVE  call'[c] = next /\ \A f \in Callers \ {c} : call'[f] = call[f]
  BY <1>2, <1>3
<1>4. CASE AnchorIntent(c)
  <2>. DEFINE next == [this EXCEPT !.pc = "gatekeep", !.anchor = Len(ledger[d]) + 1]
  <2>1. /\ this.pc = "anchor" /\ AppendAnchor(d, this.quote) /\ UNCHANGED outbox
        /\ call' = [call EXCEPT ![c] = next]
    BY <1>4 DEF AnchorIntent, storeVars
  <2>2. /\ next.op = this.op /\ next.deal = d /\ next.record = this.record
        /\ next.quote = this.quote /\ next.pc = "gatekeep"
    BY <1>2 DEF Call
  <2>. HIDE DEF next
  <2>. QED BY <1>1, <1>3, <2>1, <2>2 DEF GoesOn
<1>5. CASE CreateDraft(c)
  <2>. DEFINE next == [this EXCEPT !.pc = "put", !.artifacts = purchases'[d]]
  <2>1. /\ this.pc = "gatekeep" /\ CreatePaymentDraft(d, this.quote, this.anchor, life)
        /\ UNCHANGED outbox /\ call' = [call EXCEPT ![c] = next]
    BY <1>5 DEF CreateDraft, storeVars
  <2>2. /\ next.op = this.op /\ next.deal = d /\ next.record = this.record
        /\ next.quote = this.quote /\ next.pc = "put" /\ next.artifacts = purchases'[d]
    BY <1>2 DEF Call
  <2>3. /\ purchases'[d].intent = this.quote
        /\ \A e \in Deals \ {d} : purchases'[e] = purchases[e]
        /\ UNCHANGED ledger
    <3>1. purchases \in [Deals -> Artifacts \cup {None}]
      BY WorkTypes DEF ServiceInv, TypeOK, TrustTypeOK
    <3>. QED BY <1>2, <2>1, <3>1 DEF CreatePaymentDraft
  <2>. HIDE DEF next
  <2>. QED BY <1>1, <1>3, <2>1, <2>2, <2>3 DEF GoesOn
<1>6. CASE QueueMessages(c)
  <2>. DEFINE next == [this EXCEPT !.pc = "mark_published"]
  <2>1. /\ this.pc = "append_outbox" /\ UNCHANGED trustVars
        /\ AppendOutbox(d, OutboxMessages(this.record, this.quote))
        /\ call' = [call EXCEPT ![c] = next]
    BY <1>6 DEF QueueMessages, NextPC
  <2>2. /\ next.op = this.op /\ next.deal = d /\ next.record = this.record
        /\ next.quote = this.quote /\ next.pc = "mark_published"
    BY <1>2 DEF Call
  <2>. HIDE DEF next
  <2>. QED BY <1>1, <1>3, <2>1, <2>2 DEF GoesOn
<1>7. CASE MarkPublished(c)
  BY <1>1, <1>3, <1>7 DEF MarkPublished, Leave, GoesOn
<1>8. CASE RefusePurchase(c) \/ CallFault(c)
  BY <1>1, <1>3, <1>8 DEF RefusePurchase, CallFault, Leave, GoesOn, storeVars
<1>. QED BY <1>4, <1>5, <1>6, <1>7, <1>8

\* Nothing the properties speak of changes.
Rests == UNCHANGED <<storeVars, trustVars, task, call, up>>

\* Every step of the service, in these forms.
LEMMA StepForms ==
  ASSUME WorkInv, [Next]_vars
  PROVE  /\ WorkInv'
         /\ \/ \E d \in Deals : \/ \E record, new : TaskWrites(d, record, new)
                                \/ \E new : TaskKeeps(d, new)
            \/ \E c \in Callers : \/ \E d \in Deals : \E this : Begins(c, d, this)
                                  \/ \E row : Approves(c, row)
                                  \/ \E row, e : Declines(c, row, e)
                                  \/ \E row : Signs(c, row)
                                  \/ \E next : GoesOn(c, next)
            \/ Crash
            \/ Restart
            \/ Rests
<1>0. TrustInv' /\ WorkInv'
  BY TrustStep, WorkStep DEF WorkInv
<1>1. ASSUME NEW d \in Deals,
             \/ \E request \in Requests : Submit(d, request)
             \/ TaskStep(d)
             \/ TaskFault(d)
      PROVE  \/ \E record, new : TaskWrites(d, record, new)
             \/ \E new : TaskKeeps(d, new)
  BY <1>0, <1>1, WorkflowForms
<1>2. ASSUME NEW d \in Deals, NEW what \in Lapses, Lapse(d, what)
      PROVE  Rests
  BY <1>2 DEF Lapse, Rests
<1>3. ASSUME NEW c \in Callers, NEW d \in Deals,
             \/ BeginApprove(c, d)
             \/ \E decision \in {"reject", "request_changes"} : BeginDecide(c, d, decision)
             \/ BeginSign(c, d)
      PROVE  \E this : Begins(c, d, this)
  BY <1>3, CallBegins
<1>4. ASSUME NEW c \in Callers, CallStep(c) \/ CallFault(c)
      PROVE  \/ \E row : Approves(c, row)
             \/ \E row, e : Declines(c, row, e)
             \/ \E row : Signs(c, row)
             \/ \E next : GoesOn(c, next)
  BY <1>0, <1>4, ApprovalForms, DecisionForms, SignatureForms, GoesOnForms DEF CallStep
<1>5. ASSUME UNCHANGED vars
      PROVE  Rests
  BY <1>5 DEF vars, serviceVars, Rests
<1>. QED BY <1>0, <1>1, <1>2, <1>3, <1>4, <1>5 DEF Next
=============================================================================
