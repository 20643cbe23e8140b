------------------------- MODULE DealHistoryProofs -------------------------
(***************************************************************************)
(* Proofs about what is written of a deal over its whole life: which       *)
(* decisions stand, which terms are signed, who is awarded, the documented *)
(* state machine, and the stream of the journal that clients follow.  For  *)
(* any sets of deals, suppliers, requests and callers, and any bounds.     *)
(***************************************************************************)
EXTENDS DealStream, DealServiceProofs, FiniteSetTheorems

-----------------------------------------------------------------------------
(* Payment drafts and approval.                                            *)

ApprovedStatus == {"payment_signature_required", "completed"}

\* A row shows a payment draft when the deal is approved, and then only; a
\* task carries none, nor does a call that decides.
OrderInv ==
  /\ \A d \in Deals :
       /\ deals[d].status \in ApprovedStatus <=> deals[d].payment_draft # None
       /\ task[d].pc \in Nodes \cup {"failed"} => task[d].draft.row.payment_draft = None
  /\ \A c \in Callers :
       (call[c] # NoCall /\ call[c].op # "sign") => call[c].record.row.payment_draft = None

\* At first no deal is there, and none shows a payment draft.
LEMMA OrderInvInit == Init => OrderInv
<1>. SUFFICES ASSUME Init
              PROVE  OrderInv
  OBVIOUS
<1>1. \A d \in Deals : /\ deals[d].status = "absent" /\ deals[d].payment_draft = None
                       /\ task[d].pc = "none"
  BY DEF Init, StoreInit, NoRecord, EmptyRow, NoTask
<1>2. \A c \in Callers : call[c] = NoCall
  BY DEF Init
<1>. QED BY <1>1, <1>2 DEF OrderInv, ApprovedStatus, Nodes

\* What the draft of a task goes on with.
LEMMA DraftShowsNoOrder ==
  ASSUME WorkInv, OrderInv, NEW d \in Deals, NEW new, SameDraft(d, new)
  PROVE  new.draft.row.payment_draft = None
<1>1. CASE new.draft = Get(d) /\ task[d].pc = "scheduled"
  <2>1. deals[d].status = "draft"
    BY <1>1 DEF WorkInv, DealFits, TaskFits, Owned
  <2>. QED BY <1>1, <2>1 DEF OrderInv, ApprovedStatus, Get
<1>2. CASE new.draft = task[d].draft /\ task[d].pc \in Nodes
  BY <1>2 DEF OrderInv
<1>. QED BY <1>1, <1>2 DEF SameDraft

\* What a task writes, and for which deal.
LEMMA TaskWritesRow ==
  ASSUME WorkInv, OrderInv, NEW d \in Deals, NEW record, NEW new, TaskWrites(d, record, new)
  PROVE  /\ deals'[d] = record.row /\ record.row.payment_draft = None
         /\ record.row.status \notin ApprovedStatus
         /\ task'[d] = new /\ UNCHANGED <<outbox, call>>
         /\ published'[d] = published[d] \cup ({record.row.approval_snapshot} \ {None})
         /\ issued'[d] = issued[d]
         /\ \A e \in Deals \ {d} :
              /\ deals'[e] = deals[e] /\ log'[e] = log[e] /\ task'[e] = task[e]
              /\ published'[e] = published[e] /\ issued'[e] = issued[e]
<1>1. StoreTypeOK /\ task \in [Deals -> Task] /\ Put(d, record)
  BY WorkTypes DEF TaskWrites
<1>2. record.row.payment_draft = None
  <2>1. CASE task[d].pc = "failed" /\ record = FailedRecord(task[d].draft)
    <3>1. task[d].draft.row \in Row /\ task[d].draft.row.payment_draft = None
      BY <2>1, WorkTypes DEF OrderInv
    <3>. QED BY <2>1, <3>1 DEF FailedRecord, Row
  <2>. QED BY <2>1 DEF TaskWrites
<1>3. /\ deals'[d] = record.row
      /\ published'[d] = published[d] \cup ({record.row.approval_snapshot} \ {None})
      /\ issued'[d] = issued[d] /\ UNCHANGED outbox
  BY <1>1, <1>2 DEF Put, StoreTypeOK
<1>4. \A e \in Deals \ {d} :
        /\ deals'[e] = deals[e] /\ log'[e] = log[e]
        /\ published'[e] = published[e] /\ issued'[e] = issued[e]
  BY <1>1, PutEffect
<1>5. record.row.status \notin ApprovedStatus /\ UNCHANGED call
  BY DEF TaskWrites, ApprovedStatus
<1>6. task'[d] = new /\ \A e \in Deals \ {d} : task'[e] = task[e]
  BY <1>1 DEF TaskWrites
<1>. QED BY <1>2, <1>3, <1>4, <1>5, <1>6

\* A task that stores nothing changes itself alone.
LEMMA TaskKeepsTask ==
  ASSUME WorkInv, NEW d \in Deals, NEW new, TaskKeeps(d, new)
  PROVE  /\ task'[d] = new /\ \A e \in Deals \ {d} : task'[e] = task[e]
         /\ UNCHANGED <<deals, log, outbox, published, issued, call, trustVars, up>>
BY WorkTypes DEF TaskKeeps, storeVars

\* A call that writes a row with a payment draft makes the deal approved.
LEMMA OrderWritten ==
  ASSUME WorkInv, OrderInv, NEW c \in Callers, NEW row, NEW batch,
         CallWrites(c, row, batch),
         row.status \in ApprovedStatus <=> row.payment_draft # None,
         call'[c] # NoCall => call'[c].op = "sign"
  PROVE  OrderInv'
<1>1. \A d \in Deals : deals'[d] = deals[d] \/ deals'[d] = row
  BY CallWritesEffect
<1>2. \A f \in Callers \ {c} : call'[f] = NoCall
  BY DEF CallWrites
<1>3. task' = task
  BY DEF CallWrites
<1>. QED BY <1>1, <1>2, <1>3 DEF OrderInv

\* Only approve writes a payment draft, and it does so with the status.
LEMMA OrderStep ==
  ASSUME WorkInv, OrderInv, [Next]_vars
  PROVE  OrderInv'
<1>1. ASSUME NEW d \in Deals, NEW record, NEW new, TaskWrites(d, record, new)
      PROVE  OrderInv'
  <2>1. new.pc \in Nodes \cup {"failed"} => new.draft.row.payment_draft = None
    BY <1>1, DraftShowsNoOrder DEF TaskWrites, NoTask, ScheduledTask, Nodes
  <2>. QED BY <1>1, <2>1, TaskWritesRow DEF OrderInv
<1>2. ASSUME NEW d \in Deals, NEW new, TaskKeeps(d, new)
      PROVE  OrderInv'
  <2>1. new.pc \in Nodes \cup {"failed"} => new.draft.row.payment_draft = None
    BY <1>2, DraftShowsNoOrder DEF TaskKeeps, NoTask, Nodes
  <2>. QED BY <1>2, <2>1, TaskKeepsTask DEF OrderInv
<1>3. ASSUME NEW c \in Callers, NEW d \in Deals, NEW this, Begins(c, d, this)
      PROVE  OrderInv'
  <2>1. UNCHANGED <<deals, task>> /\ \A e \in Callers : call'[e] = call[e] \/ call'[e] = this
    BY <1>3, WorkTypes DEF Begins, storeVars
  <2>2. this.op # "sign" => this.record.row.payment_draft = None
    BY <1>3 DEF Begins, Get, OrderInv, ApprovedStatus
  <2>. QED BY <2>1, <2>2 DEF OrderInv
<1>4. ASSUME NEW c \in Callers, NEW row, Approves(c, row)
      PROVE  OrderInv'
  <2>1. call[c].artifacts \in Artifacts
    BY <1>4, WorkTypes DEF Approves, CallWrites, CallReady
  <2>2. row.payment_draft \in PaymentDraft
    BY <1>4, <2>1 DEF Approves, Artifacts
  <2>3. row.payment_draft # None
    BY <2>2, NoneAssumption
  <2>. QED BY <1>4, <2>3, OrderWritten DEF Approves, ApprovedStatus
<1>5. ASSUME NEW c \in Callers, NEW row, NEW e, Declines(c, row, e)
      PROVE  OrderInv'
  <2>1. row.payment_draft = None
    BY <1>5 DEF Declines, CallWrites, OrderInv
  <2>. QED BY <1>5, <2>1, OrderWritten DEF Declines, ApprovedStatus
<1>6. ASSUME NEW c \in Callers, NEW row, Signs(c, row)
      PROVE  OrderInv'
  <2>1. row.payment_draft # None
    BY <1>6, NoneAssumption DEF Signs
  <2>2. call'[c].op = "sign"
    BY <1>6, WorkTypes DEF Signs, Call
  <2>. QED BY <1>6, <2>1, <2>2, OrderWritten DEF Signs, ApprovedStatus
<1>7. ASSUME NEW c \in Callers, NEW next, GoesOn(c, next)
      PROVE  OrderInv'
  <2>1. UNCHANGED <<deals, task>> /\ \A e \in Callers : call'[e] = call[e] \/ e = c
    BY <1>7 DEF GoesOn
  <2>2. (call'[c] # NoCall /\ call'[c].op # "sign") =>
          call'[c].record.row.payment_draft = None
    BY <1>7 DEF GoesOn, OrderInv
  <2>. QED BY <2>1, <2>2 DEF OrderInv
<1>8. CASE Crash
  <2>1. /\ UNCHANGED deals /\ \A d \in Deals : task'[d].pc = "none"
        /\ \A c \in Callers : call'[c] = NoCall
    BY <1>8 DEF Crash, storeVars, NoTask
  <2>. QED BY <2>1 DEF OrderInv, Nodes
<1>9. CASE Restart
  <2>1. UNCHANGED <<deals, call>>
    BY <1>9 DEF Restart, storeVars
  <2>2. \A d \in Deals : task'[d].pc \in {"none", "scheduled"}
    <3>1. TrustInv'
      BY TrustStep DEF WorkInv
    <3>. QED BY <1>9, <3>1, RestartWork DEF NoTask, ScheduledTask
  <2>. QED BY <2>1, <2>2 DEF OrderInv, Nodes
<1>10. CASE Rests
  BY <1>10 DEF Rests, storeVars, OrderInv
<1>. QED BY <1>1, <1>2, <1>3, <1>4, <1>5, <1>6, <1>7, <1>8, <1>9, <1>10, StepForms

-----------------------------------------------------------------------------
(* When clients wait for create: one decision, one payment draft.          *)

UndecidedStatus == {"absent", "draft", "awaiting_approval", "failed"}

AwardedIn(box) == {s \in Suppliers : box[[type |-> "award", to |-> s]] # "absent"}

\* The journal of a decided deal tells of the decision the row shows.
Decided(row, journal) ==
  \E i \in Nat : /\ Marks(journal) = {i}
                 /\ journal[i] = DecisionEvent[row.human_decision.decision]

\* That of a completed one tells of the approval, of the signature, and of the
\* approval again two events later, among the messages of the signature.
Concluded(journal) ==
  \E i, k \in Nat : /\ i < k /\ Marks(journal) = {i, k, k + 2}
                    /\ journal[i] = "quote_approved"
                    /\ journal[k] = "payment_draft_signed"
                    /\ journal[k + 2] = "quote_approved"

JournalStands(row, journal) ==
  /\ row.status \in UndecidedStatus => Marks(journal) = {}
  /\ row.status \notin UndecidedStatus => row.human_decision # None
  /\ row.status \notin UndecidedStatus \cup {"completed"} => Decided(row, journal)
  /\ row.status = "completed" => Concluded(journal)
  /\ row.status \in {"payment_signature_required", "completed"} =>
       row.human_decision.decision = "approve"

\* The status of a deal tells which decision its journal holds, which payment
\* draft its rows have shown, and who may have been awarded.
RowStands(row, journal, given, box) ==
  /\ JournalStands(row, journal)
  /\ given = IF row.payment_draft = None THEN {} ELSE {row.payment_draft.id}
  /\ row.status # "completed" => AwardedIn(box) = {}
  /\ row.status = "completed" => AwardedIn(box) \subseteq {row.selected_quote.supplier}

\* Nobody has touched the row since the workflow finished.
TaskStands(this, row) ==
  this.pc = "final_put" => row = RecordFromState(this.draft, this.state).row

\* Nobody has touched the row since the call has read it.
CallStands(this, row) ==
  /\ this.pc \in {"anchor", "gatekeep", "put"} =>
       /\ this.record.row = row
       /\ this.op = "sign" => row.status = "payment_signature_required"
       /\ this.op # "sign" => row.status = "awaiting_approval"
  /\ this.op = "sign" => this.quote = row.selected_quote
  /\ this.pc \in {"append_outbox", "mark_published"} =>
       this.op = "sign" /\ row.status = "completed"

StandsInv ==
  /\ WorkInv /\ OrderInv
  /\ \A d \in Deals : /\ RowStands(deals[d], log[d], issued[d], outbox[d])
                      /\ TaskStands(task[d], deals[d])
  /\ \A c \in Callers : call[c] # NoCall =>
       /\ task[call[c].deal].pc = "none"
       /\ CallStands(call[c], deals[call[c].deal])

\* An event that is no decision or signature leaves no mark.
LEMMA MarksAppend ==
  ASSUME NEW journal \in Seq(Event), NEW e \in Event,
         e \notin DecisionEvents \cup {"payment_draft_signed"}
  PROVE  Marks(Append(journal, e)) = Marks(journal)
<1>1. /\ <<e>> \in Seq(Event) /\ Len(<<e>>) = 1 /\ <<e>>[1] = e
      /\ Append(journal, e) = journal \o <<e>>
  BY SingleBatch
<1>2. Marks(<<e>>) = {}
  BY <1>1 DEF Marks
<1>3. \A i : i \in Marks(journal \o <<e>>) <=> i \in Marks(journal)
  BY <1>1, <1>2, MarksJoined
<1>. QED BY <1>1, <1>3

\* The first decision of a journal.
LEMMA FirstMark ==
  ASSUME NEW journal \in Seq(Event), NEW batch \in Seq(Event),
         Marks(journal) = {}, Marks(batch) = {1}
  PROVE  \E i \in Nat : Marks(journal \o batch) = {i} /\ (journal \o batch)[i] = batch[1]
<1>1. Len(journal) + 1 \in Nat /\ 1 \in 1 .. Len(batch)
  BY DEF Marks
<1>2. \A i : i \in Marks(journal \o batch) <=> i = Len(journal) + 1
  <2>1. \A i : i \in Marks(journal \o batch) <=>
          i \in Marks(journal) \/ \E k \in Marks(batch) : i = Len(journal) + k
    BY MarksJoined
  <2>2. (\A i : i \notin Marks(journal)) /\ \A k : k \in Marks(batch) <=> k = 1
    OBVIOUS
  <2>. QED BY <2>1, <2>2
<1>3. (journal \o batch)[Len(journal) + 1] = batch[1]
  BY <1>1, Joined
<1>4. Marks(journal \o batch) = {Len(journal) + 1}
  BY <1>2
<1>. QED BY <1>1, <1>3, <1>4

\* The signature after the approval.
LEMMA SignatureConcludes ==
  ASSUME NEW journal \in Seq(Event), NEW batch \in Seq(Event), NEW i \in Nat,
         Marks(journal) = {i}, journal[i] = "quote_approved", Marks(batch) = {1, 3},
         batch[1] = "payment_draft_signed", batch[3] = "quote_approved"
  PROVE  Concluded(journal \o batch)
<1>. DEFINE longer == journal \o batch
            k == Len(journal) + 1
<1>1. i \in 1 .. Len(journal) /\ 1 \in 1 .. Len(batch) /\ 3 \in 1 .. Len(batch)
  BY DEF Marks
<1>2. Len(journal) \in Nat /\ k \in Nat /\ i < k /\ k + 2 = Len(journal) + 3
  BY <1>1
<1>3. longer[i] = journal[i] /\ longer[k] = batch[1]
  BY <1>1, Joined
<1>4. longer[Len(journal) + 3] = batch[3]
  BY <1>1, Joined
<1>5. \A n : n \in Marks(longer) <=> n = i \/ n = k \/ n = Len(journal) + 3
  <2>1. \A n : n \in Marks(longer) <=>
          n \in Marks(journal) \/ \E m \in Marks(batch) : n = Len(journal) + m
    BY MarksJoined
  <2>2. /\ \A n : n \in Marks(journal) <=> n = i
        /\ \A m : m \in Marks(batch) <=> m = 1 \/ m = 3
    OBVIOUS
  <2>. HIDE DEF longer
  <2>. QED BY <2>1, <2>2
<1>6. Marks(longer) = {i, k, k + 2}
  <2>. HIDE DEF longer, k
  <2>. QED BY <1>2, <1>5
<1>. HIDE DEF longer, k
<1>7. Concluded(longer)
  BY <1>2, <1>3, <1>4, <1>6 DEF Concluded
<1>. QED BY <1>7 DEF longer

\* At first nothing is decided, issued or awarded.
LEMMA StandsInit == Init => StandsInv
<1>. SUFFICES ASSUME Init
              PROVE  StandsInv
  OBVIOUS
<1>1. WorkInv /\ OrderInv
  BY WorkInvInit, OrderInvInit
<1>2. ASSUME NEW d \in Deals
      PROVE  /\ RowStands(deals[d], log[d], issued[d], outbox[d])
             /\ TaskStands(task[d], deals[d])
  <2>1. /\ deals[d].status = "absent" /\ deals[d].payment_draft = None
        /\ task[d].pc = "none" /\ log[d] = << >> /\ issued[d] = {}
        /\ outbox[d] = [m \in Message |-> "absent"]
    BY DEF Init, StoreInit, NoRecord, EmptyRow, NoTask
  <2>2. Marks(log[d]) = {}
    BY <2>1 DEF Marks
  <2>3. AwardedIn(outbox[d]) = {}
    BY <2>1 DEF AwardedIn, Message
  <2>. QED BY <2>1, <2>2, <2>3 DEF RowStands, JournalStands, TaskStands, UndecidedStatus
<1>3. \A c \in Callers : call[c] = NoCall
  BY DEF Init
<1>. QED BY <1>1, <1>2, <1>3 DEF StandsInv

\* The journal of a deal that its workflow writes gets no decision.
LEMMA TaskDecidesNothing ==
  ASSUME WorkInv, NEW d \in Deals, Grows(d, TaskEvent)
  PROVE  Marks(log'[d]) = Marks(log[d])
<1>1. log[d] \in Seq(Event)
  BY WorkTypes
<1>2. \A e \in TaskEvent : e \in Event /\ e \notin DecisionEvents \cup {"payment_draft_signed"}
  BY DEF TaskEvent, WorkflowEvent, Event, DecisionEvents
<1>. QED BY <1>1, <1>2, MarksAppend DEF Grows

\* When clients wait for create no task overwrites a deal that is decided, so that
\* what a task stores leaves the decision alone (_process, final put).
LEMMA TaskWritesStands ==
  ASSUME StandsInv, WorkInv', OrderInv', NEW d \in Deals, NEW record, NEW new,
         TaskWrites(d, record, new)
  PROVE  StandsInv' /\ (deals[d].status \in {"absent", "draft"} \/ deals'[d] = deals[d])
<1>1. WorkInv /\ OrderInv
  BY DEF StandsInv
<1>2. /\ deals'[d] = record.row /\ record.row.payment_draft = None
      /\ task'[d] = new /\ UNCHANGED <<outbox, call>> /\ issued'[d] = issued[d]
      /\ \A e \in Deals \ {d} :
              /\ deals'[e] = deals[e] /\ log'[e] = log[e] /\ task'[e] = task[e]
              /\ issued'[e] = issued[e]
  BY <1>1, TaskWritesRow
<1>3. /\ RowStands(deals[d], log[d], issued[d], outbox[d]) /\ TaskStands(task[d], deals[d])
      /\ Marks(log'[d]) = Marks(log[d])
      /\ record.row.status \in {"draft", "awaiting_approval", "failed"}
  BY <1>1, TaskDecidesNothing DEF StandsInv, TaskWrites
<1>4. \/ deals[d].status \in {"absent", "draft"}
      \/ task[d].pc = "final_put" /\ deals[d] = record.row
  BY <1>3 DEF TaskWrites, TaskStands
<1>5. /\ deals[d].status \in UndecidedStatus /\ deals[d].status # "completed"
      /\ deals[d].payment_draft = None
  BY <1>1, <1>2, <1>3, <1>4 DEF UndecidedStatus, OrderInv, ApprovedStatus
<1>6. RowStands(deals'[d], log'[d], issued'[d], outbox'[d])
  BY <1>2, <1>3, <1>5 DEF RowStands, JournalStands, UndecidedStatus
<1>7. TaskStands(task'[d], deals'[d])
  BY <1>2 DEF TaskWrites, TaskStands, NoTask, ScheduledTask, Nodes
<1>8. ASSUME NEW c \in Callers, call[c] # NoCall
      PROVE  call[c].deal # d
  <2>1. CASE deals[d].status \in {"absent", "draft"}
    BY <1>1, <1>8, <2>1, NoCallOnDraft
  <2>2. CASE task[d].pc = "final_put"
    BY <1>8, <2>2 DEF StandsInv
  <2>. QED BY <1>4, <2>1, <2>2
<1>9. \A c \in Callers : call'[c] # NoCall =>
        /\ task'[call'[c].deal].pc = "none"
        /\ CallStands(call'[c], deals'[call'[c].deal])
  <2>1. ASSUME NEW c \in Callers, call[c] # NoCall
        PROVE  /\ task'[call[c].deal] = task[call[c].deal]
               /\ deals'[call[c].deal] = deals[call[c].deal]
    BY <1>1, <1>2, <1>8, <2>1, WorkTypes
  <2>. QED BY <1>2, <2>1 DEF StandsInv
<1>10. \A e \in Deals : /\ RowStands(deals'[e], log'[e], issued'[e], outbox'[e])
                        /\ TaskStands(task'[e], deals'[e])
  BY <1>2, <1>6, <1>7 DEF StandsInv
<1>. QED BY <1>2, <1>4, <1>9, <1>10 DEF StandsInv

LEMMA TaskKeepsStands ==
  ASSUME StandsInv, WorkInv', OrderInv', NEW d \in Deals, NEW new, TaskKeeps(d, new)
  PROVE  StandsInv'
<1>1. /\ task'[d] = new /\ \A e \in Deals \ {d} : task'[e] = task[e]
      /\ UNCHANGED <<deals, log, outbox, issued, call>>
  BY TaskKeepsTask DEF StandsInv
<1>2. \A e \in Deals : TaskStands(task'[e], deals'[e])
  BY <1>1 DEF StandsInv, TaskStands, TaskKeeps, NoTask
<1>3. \A c \in Callers : call[c] # NoCall => task'[call[c].deal].pc = "none"
  <2>1. ASSUME NEW c \in Callers, call[c] # NoCall, call[c].deal = d
        PROVE  new.pc = "none"
    <3>1. task[d].pc = "none"
      BY <2>1 DEF StandsInv
    <3>. QED BY <3>1 DEF TaskKeeps, SameDraft, Nodes, NoTask
  <2>2. \A c \in Callers : call[c] # NoCall => call[c].deal \in Deals
    BY WorkTypes DEF StandsInv
  <2>. QED BY <1>1, <2>1, <2>2 DEF StandsInv
<1>. QED BY <1>1, <1>2, <1>3 DEF StandsInv

\* A call stores a row that stands.
LEMMA CallWritesStands ==
  ASSUME StandsInv, WorkInv', OrderInv', NEW c \in Callers, NEW row, NEW batch,
         CallWrites(c, row, batch),
         RowStands(row, log'[call[c].deal], issued'[call[c].deal], outbox[call[c].deal]),
         call'[c] # NoCall => call'[c].deal = call[c].deal /\ CallStands(call'[c], row)
  PROVE  StandsInv'
<1>. DEFINE d == call[c].deal
<1>1. /\ WorkInv /\ call[c] # NoCall /\ UNCHANGED task
      /\ \A f \in Callers \ {c} : call'[f] = NoCall
  BY DEF StandsInv, CallWrites
<1>2. task[d].pc = "none"
  BY <1>1 DEF StandsInv
<1>3. /\ deals'[d] = row /\ outbox' = outbox
      /\ \A f \in Deals \ {d} : /\ deals'[f] = deals[f] /\ log'[f] = log[f]
                                /\ issued'[f] = issued[f]
  BY <1>1, CallWritesEffect
<1>4. \A f \in Deals : /\ RowStands(deals'[f], log'[f], issued'[f], outbox'[f])
                       /\ TaskStands(task'[f], deals'[f])
  BY <1>1, <1>2, <1>3 DEF StandsInv, TaskStands
<1>5. \A f \in Callers : call'[f] # NoCall =>
        /\ task'[call'[f].deal].pc = "none"
        /\ CallStands(call'[f], deals'[call'[f].deal])
  BY <1>1, <1>2, <1>3
<1>. QED BY <1>4, <1>5 DEF StandsInv

\* What a deal about to be decided has.
LEMMA AboutToDecide ==
  ASSUME StandsInv, NEW c \in Callers, call[c] # NoCall, call[c].pc = "put",
         call[c].op # "sign"
  PROVE  /\ call[c].deal \in Deals
         /\ log[call[c].deal] \in Seq(Event)
         /\ Marks(log[call[c].deal]) = {}
         /\ issued[call[c].deal] = {}
         /\ AwardedIn(outbox[call[c].deal]) = {}
<1>1. call[c].deal \in Deals /\ log[call[c].deal] \in Seq(Event)
  BY WorkTypes DEF StandsInv
<1>2. deals[call[c].deal].status = "awaiting_approval"
  BY DEF StandsInv, CallStands
<1>3. deals[call[c].deal].payment_draft = None
  BY <1>1, <1>2 DEF StandsInv, OrderInv, ApprovedStatus
<1>. QED BY <1>1, <1>2, <1>3 DEF StandsInv, RowStands, JournalStands, UndecidedStatus

\* The approval is the first decision of its deal, and issues its first draft.
LEMMA ApprovesStands ==
  ASSUME StandsInv, WorkInv', OrderInv', NEW c \in Callers, NEW row, Approves(c, row)
  PROVE  StandsInv'
<1>. DEFINE d == call[c].deal
<1>1. /\ WorkInv /\ call[c] # NoCall /\ call[c].pc = "put" /\ call[c].op = "approve"
      /\ CallWrites(c, row, ApprovalEvents) /\ call'[c] = NoCall
      /\ log'[d] = log[d] \o ApprovalEvents
  BY DEF StandsInv, Approves, CallWrites
<1>2. /\ d \in Deals /\ log[d] \in Seq(Event) /\ Marks(log[d]) = {}
      /\ issued[d] = {} /\ AwardedIn(outbox[d]) = {}
  BY <1>1, AboutToDecide
<1>3. row.human_decision.decision = "approve" /\ Decided(row, log'[d])
  <2>1. /\ row.human_decision.decision = "approve"
        /\ ApprovalEvents[1] = DecisionEvent["approve"]
    BY ApprovalBatch DEF Approves, DecisionEvent
  <2>2. \E i \in Nat : Marks(log'[d]) = {i} /\ log'[d][i] = ApprovalEvents[1]
    <3>. HIDE DEF d
    <3>1. \E i \in Nat : /\ Marks(log[d] \o ApprovalEvents) = {i}
                         /\ (log[d] \o ApprovalEvents)[i] = ApprovalEvents[1]
      BY <1>2, ApprovalBatch, FirstMark
    <3>. QED BY <1>1, <3>1
  <2>. QED BY <2>1, <2>2 DEF Decided
<1>4. row.human_decision # None
  <2>1. call[c].quote \in Quote
    BY <1>1, WorkTypes DEF CallReady
  <2>2. row.human_decision \in Decision
    BY <2>1 DEF Approves, Decision, HumanDecision
  <2>. QED BY <2>2, NoneAssumption
<1>5. issued'[d] = IF row.payment_draft = None THEN {} ELSE {row.payment_draft.id}
  <2>1. issued'[d] = issued[d] \cup (IF row.payment_draft = None THEN {}
                                     ELSE {row.payment_draft.id})
    BY <1>1, CallWritesEffect
  <2>. QED BY <1>2, <2>1
<1>6. row.status = "payment_signature_required"
  BY DEF Approves
<1>7. RowStands(row, log'[d], issued'[d], outbox[d])
  BY <1>2, <1>3, <1>4, <1>5, <1>6 DEF RowStands, JournalStands, UndecidedStatus
<1>. QED BY <1>1, <1>7, CallWritesStands

\* So is a rejection or a request for changes.
LEMMA DeclinesStands ==
  ASSUME StandsInv, WorkInv', OrderInv', NEW c \in Callers, NEW row, NEW e,
         Declines(c, row, e)
  PROVE  StandsInv'
<1>. DEFINE d == call[c].deal
<1>1. /\ WorkInv /\ call[c] # NoCall /\ call[c].pc = "put"
      /\ call[c].op \in {"reject", "request_changes"}
      /\ CallWrites(c, row, <<e>>) /\ call'[c] = NoCall /\ log'[d] = log[d] \o <<e>>
  BY DEF StandsInv, Declines, CallWrites
<1>2. /\ d \in Deals /\ log[d] \in Seq(Event) /\ Marks(log[d]) = {}
      /\ issued[d] = {} /\ AwardedIn(outbox[d]) = {}
  BY <1>1, AboutToDecide
<1>3. Decided(row, log'[d])
  <2>1. /\ e \in Event /\ e \in DecisionEvents
        /\ e = DecisionEvent[row.human_decision.decision]
    BY DEF Declines, Event, DecisionEvents
  <2>2. <<e>> \in Seq(Event) /\ Len(<<e>>) = 1 /\ <<e>>[1] = e
    BY <2>1, SingleBatch
  <2>3. Marks(<<e>>) = {1}
    BY <2>1, <2>2 DEF Marks
  <2>4. \E i \in Nat : Marks(log'[d]) = {i} /\ log'[d][i] = e
    <3>. DEFINE batch == <<e>>
    <3>1. log[d] \in Seq(Event) /\ Marks(log[d]) = {} /\ log'[d] = log[d] \o batch
      BY <1>1, <1>2
    <3>2. batch \in Seq(Event) /\ Marks(batch) = {1} /\ batch[1] = e
      BY <2>2, <2>3
    <3>. HIDE DEF d, batch
    <3>3. \E i \in Nat : Marks(log[d] \o batch) = {i} /\ (log[d] \o batch)[i] = batch[1]
      BY <3>1, <3>2, FirstMark
    <3>. QED BY <3>1, <3>2, <3>3
  <2>. QED BY <2>1, <2>4 DEF Decided
<1>4. row.human_decision # None
  <2>1. call[c].quote \in Quote
    BY <1>1, WorkTypes DEF CallReady
  <2>2. row.human_decision \in Decision
    BY <2>1 DEF Declines, Decision, HumanDecision
  <2>. QED BY <2>2, NoneAssumption
<1>5. issued'[d] = IF row.payment_draft = None THEN {} ELSE {row.payment_draft.id}
  <2>1. issued'[d] = issued[d] \cup (IF row.payment_draft = None THEN {}
                                     ELSE {row.payment_draft.id})
    BY <1>1, CallWritesEffect
  <2>. QED BY <1>2, <2>1
<1>6. row.status \in {"rejected", "changes_requested"}
  BY DEF Declines
<1>7. RowStands(row, log'[d], issued'[d], outbox[d])
  BY <1>2, <1>3, <1>4, <1>5, <1>6 DEF RowStands, JournalStands, UndecidedStatus
<1>. QED BY <1>1, <1>7, CallWritesStands

\* A signature keeps the decision, and the payment draft its id.
LEMMA SignsStands ==
  ASSUME StandsInv, WorkInv', OrderInv', NEW c \in Callers, NEW row, Signs(c, row)
  PROVE  /\ StandsInv' /\ deals[call[c].deal].status = "payment_signature_required"
         /\ call[c].record.row = deals[call[c].deal]
<1>. DEFINE d == call[c].deal
            batch == SignatureEvents(call[c].record.row)
            next == [call[c] EXCEPT !.pc = "append_outbox"]
<1>1. /\ WorkInv /\ call[c] # NoCall /\ call[c].pc = "put" /\ call[c].op = "sign"
      /\ CallWrites(c, row, batch) /\ call'[c] = next /\ log'[d] = log[d] \o batch
  BY DEF StandsInv, Signs, CallWrites
<1>2. d \in Deals /\ log[d] \in Seq(Event) /\ call[c] \in Call
  BY <1>1, WorkTypes
<1>3. /\ call[c].record.row = deals[d] /\ deals[d].status = "payment_signature_required"
      /\ call[c].quote = deals[d].selected_quote
      /\ RowStands(deals[d], log[d], issued[d], outbox[d])
  BY <1>1, <1>2 DEF StandsInv, CallStands
<1>4. Concluded(log'[d]) /\ deals[d].human_decision.decision = "approve"
  <2>1. Decided(deals[d], log[d]) /\ deals[d].human_decision.decision = "approve"
    BY <1>3 DEF RowStands, JournalStands, UndecidedStatus
  <2>2. PICK i \in Nat : Marks(log[d]) = {i} /\ log[d][i] = "quote_approved"
    BY <2>1 DEF Decided, DecisionEvent
  <2>. HIDE DEF batch, d
  <2>3. /\ batch \in Seq(Event) /\ Marks(batch) = {1, 3}
        /\ batch[1] = "payment_draft_signed" /\ batch[3] = "quote_approved"
    BY SignatureBatch DEF batch
  <2>4. Concluded(log[d] \o batch)
    BY <1>2, <2>2, <2>3, SignatureConcludes
  <2>. QED BY <1>1, <2>1, <2>4
<1>5. /\ issued[d] = {row.payment_draft.id} /\ row.payment_draft # None
      /\ row.human_decision = deals[d].human_decision /\ row.human_decision # None
      /\ row.status = "completed" /\ row.selected_quote = deals[d].selected_quote
  <2>1. deals[d].payment_draft # None
    BY <1>2, <1>3 DEF StandsInv, OrderInv, ApprovedStatus
  <2>2. deals[d].human_decision # None
    BY <1>3 DEF RowStands, JournalStands, UndecidedStatus
  <2>. QED BY <1>3, <2>1, <2>2, NoneAssumption DEF Signs, RowStands
<1>6. issued'[d] = {row.payment_draft.id}
  BY <1>1, <1>2, <1>5, CallWritesEffect
<1>7. RowStands(row, log'[d], issued'[d], outbox[d])
  BY <1>3, <1>4, <1>5, <1>6 DEF RowStands, JournalStands, UndecidedStatus
<1>8. /\ next.deal = d /\ next.op = "sign" /\ next.pc = "append_outbox"
      /\ next.quote = row.selected_quote
  BY <1>1, <1>2, <1>3, <1>5 DEF Call
<1>9. CallStands(next, row)
  <2>. HIDE DEF next
  <2>. QED BY <1>5, <1>8 DEF CallStands
<1>. HIDE DEF next, batch
<1>. QED BY <1>1, <1>3, <1>7, <1>8, <1>9, CallWritesStands

\* Whom the messages of a purchase tell that it won or lost.
LEMMA MessagesTo ==
  ASSUME NEW record, NEW q, NEW s
  PROVE  /\ [type |-> "award", to |-> s] \in OutboxMessages(record, q) => s = q.supplier
         /\ [type |-> "rejection", to |-> s] \in OutboxMessages(record, q) => s # q.supplier
<1>. DEFINE others == [type : {"rejection"}, to : record.row.supplier_ids \ {q.supplier}]
<1>1. \A m \in OutboxMessages(record, q) :
        \/ m = [type |-> "award", to |-> q.supplier]
        \/ m.type \in {"payment_draft", "document_ref"}
        \/ m.type = "rejection" /\ m.to # q.supplier
  <2>1. \A m \in others : m.type = "rejection" /\ m.to # q.supplier
    OBVIOUS
  <2>2. /\ [type |-> "payment_draft", to |-> "payment-adapter"].type = "payment_draft"
        /\ [type |-> "document_ref", to |-> "mock-edo"].type = "document_ref"
    OBVIOUS
  <2>. HIDE DEF others
  <2>. QED BY <2>1, <2>2 DEF OutboxMessages, others
<1>2. /\ [type |-> "award", to |-> s].type = "award"
      /\ [type |-> "award", to |-> s].to = s
      /\ [type |-> "rejection", to |-> s].type = "rejection"
      /\ [type |-> "rejection", to |-> s].to = s
      /\ [type |-> "award", to |-> q.supplier].to = q.supplier
      /\ [type |-> "award", to |-> q.supplier].type = "award"
  OBVIOUS
<1>. QED BY <1>1, <1>2

\* What the two operations on the outbox do to a message.
LEMMA OutboxKept ==
  ASSUME StoreTypeOK, NEW d \in Deals, NEW messages
  PROVE  /\ AppendOutbox(d, messages) =>
              \A m \in Message : outbox'[d][m] # "absent" =>
                outbox[d][m] # "absent" \/ m \in messages
         /\ MarkOutboxPublished(d) =>
              \A m \in Message : outbox'[d][m] # "absent" <=> outbox[d][m] # "absent"
         /\ AppendOutbox(d, messages) =>
              \A m \in Message : outbox[d][m] # "absent" => outbox'[d][m] # "absent"
         /\ AppendOutbox(d, messages) \/ MarkOutboxPublished(d) =>
              \A e \in Deals \ {d} : outbox'[e] = outbox[e]
BY DEF StoreTypeOK, AppendOutbox, MarkOutboxPublished

\* An award and a rejection are messages of the outbox.
LEMMA TypedMessages ==
  ASSUME NEW s \in Suppliers
  PROVE  [type |-> "award", to |-> s] \in Message /\ [type |-> "rejection", to |-> s] \in Message
BY DEF Message

\* What they award.
LEMMA OutboxAwards ==
  ASSUME StoreTypeOK, NEW d \in Deals, NEW record, NEW q
  PROVE  /\ AppendOutbox(d, OutboxMessages(record, q)) =>
              AwardedIn(outbox'[d]) \subseteq AwardedIn(outbox[d]) \cup {q.supplier}
         /\ MarkOutboxPublished(d) => AwardedIn(outbox'[d]) = AwardedIn(outbox[d])
         /\ AppendOutbox(d, OutboxMessages(record, q)) \/ MarkOutboxPublished(d) =>
              \A e \in Deals \ {d} : outbox'[e] = outbox[e]
<1>1. ASSUME AppendOutbox(d, OutboxMessages(record, q)), NEW s \in AwardedIn(outbox'[d]),
             s \notin AwardedIn(outbox[d])
      PROVE  s = q.supplier
  <2>. DEFINE m == [type |-> "award", to |-> s]
  <2>1. s \in Suppliers /\ outbox'[d][m] # "absent" /\ outbox[d][m] = "absent"
    BY <1>1 DEF AwardedIn
  <2>2. m \in Message
    BY <2>1, TypedMessages
  <2>3. m \in OutboxMessages(record, q)
    <3>. HIDE DEF m
    <3>. QED BY <1>1, <2>1, <2>2, OutboxKept
  <2>. QED BY <2>3, MessagesTo
<1>2. ASSUME MarkOutboxPublished(d), NEW s \in Suppliers
      PROVE  s \in AwardedIn(outbox'[d]) <=> s \in AwardedIn(outbox[d])
  BY <1>2, OutboxKept, TypedMessages DEF AwardedIn
<1>3. AwardedIn(outbox'[d]) \subseteq Suppliers /\ AwardedIn(outbox[d]) \subseteq Suppliers
  BY DEF AwardedIn
<1>4. AppendOutbox(d, OutboxMessages(record, q)) \/ MarkOutboxPublished(d) =>
        \A e \in Deals \ {d} : outbox'[e] = outbox[e]
  BY OutboxKept
<1>. QED BY <1>1, <1>2, <1>3, <1>4

\* A step of a call that writes no row: the rows and journals stay, and what
\* it may award goes to the supplier of the selected quote.
LEMMA GoesOnAwards ==
  ASSUME StandsInv, NEW c \in Callers, NEW next, GoesOn(c, next)
  PROVE  \A d \in Deals :
           \/ AwardedIn(outbox'[d]) = AwardedIn(outbox[d])
           \/ /\ deals[d].status = "completed"
              /\ AwardedIn(outbox'[d]) \subseteq
                   AwardedIn(outbox[d]) \cup {deals[d].selected_quote.supplier}
<1>1. /\ WorkInv /\ call[c] # NoCall /\ call[c].deal \in Deals /\ StoreTypeOK
      /\ CallStands(call[c], deals[call[c].deal])
  BY WorkTypes DEF StandsInv, GoesOn
<1>2. CASE outbox' = outbox
  BY <1>2
<1>3. CASE MarkOutboxPublished(call[c].deal)
  BY <1>1, <1>3, OutboxAwards
<1>4. CASE /\ call[c].pc = "append_outbox"
           /\ AppendOutbox(call[c].deal, OutboxMessages(call[c].record, call[c].quote))
  <2>1. /\ deals[call[c].deal].status = "completed"
        /\ call[c].quote = deals[call[c].deal].selected_quote
    BY <1>1, <1>4 DEF CallStands
  <2>2. /\ AwardedIn(outbox'[call[c].deal]) \subseteq
             AwardedIn(outbox[call[c].deal]) \cup {call[c].quote.supplier}
        /\ \A e \in Deals \ {call[c].deal} : outbox'[e] = outbox[e]
    BY <1>1, <1>4, OutboxAwards
  <2>. QED BY <2>1, <2>2
<1>. QED BY <1>2, <1>3, <1>4 DEF GoesOn

\* The steps between two writes of a call decide nothing.
LEMMA GoesOnStands ==
  ASSUME StandsInv, WorkInv', OrderInv', NEW c \in Callers, NEW next, GoesOn(c, next)
  PROVE  StandsInv'
<1>1. /\ WorkInv /\ call[c] # NoCall /\ call[c].deal \in Deals
      /\ CallStands(call[c], deals[call[c].deal]) /\ task[call[c].deal].pc = "none"
  BY WorkTypes DEF StandsInv, GoesOn
<1>2. /\ UNCHANGED <<deals, log, issued, task>>
      /\ call'[c] = next /\ \A f \in Callers \ {c} : call'[f] = call[f]
  BY DEF GoesOn
<1>3. ASSUME NEW d \in Deals
      PROVE  RowStands(deals'[d], log'[d], issued'[d], outbox'[d])
  <2>1. RowStands(deals[d], log[d], issued[d], outbox[d])
    BY DEF StandsInv
  <2>. QED BY <1>2, <2>1, GoesOnAwards DEF RowStands
<1>4. \A d \in Deals : TaskStands(task'[d], deals'[d])
  BY <1>2 DEF StandsInv
<1>5. next # NoCall => next.deal = call[c].deal /\ CallStands(next, deals[call[c].deal])
  BY <1>1 DEF GoesOn, CallStands
<1>6. \A f \in Callers : call'[f] # NoCall =>
        /\ task'[call'[f].deal].pc = "none"
        /\ CallStands(call'[f], deals'[call'[f].deal])
  BY <1>1, <1>2, <1>5 DEF StandsInv
<1>. QED BY <1>3, <1>4, <1>6 DEF StandsInv

\* A call that begins has read the row as it is.
LEMMA BeginsStands ==
  ASSUME Synchronous, StandsInv, WorkInv', OrderInv', NEW c \in Callers, NEW d \in Deals,
         NEW this, Begins(c, d, this)
  PROVE  StandsInv'
<1>1. /\ UNCHANGED <<deals, log, outbox, issued, task>> /\ task[d].pc = "none"
      /\ this.deal = d
  BY DEF Begins, storeVars
<1>2. \A f \in Callers : call'[f] = call[f] \/ call'[f] = this
  BY WorkTypes DEF Begins, StandsInv
<1>3. CallStands(this, deals[d])
  BY DEF Begins, CallStands, Get
<1>. QED BY <1>1, <1>2, <1>3 DEF StandsInv

\* Every step of the service, when clients wait for create.
LEMMA StandsStep ==
  ASSUME Synchronous, StandsInv, [Next]_vars
  PROVE  StandsInv'
<1>0. WorkInv /\ WorkInv' /\ OrderInv'
  BY OrderStep, WorkStep DEF StandsInv
<1>1. CASE Crash
  <2>1. /\ UNCHANGED <<deals, log, outbox, issued>> /\ \A d \in Deals : task'[d].pc = "none"
        /\ \A c \in Callers : call'[c] = NoCall
    BY <1>1 DEF Crash, storeVars, NoTask
  <2>. QED BY <1>0, <2>1 DEF StandsInv, TaskStands
<1>2. CASE Restart
  <2>1. UNCHANGED <<deals, log, outbox, issued, call>>
    BY <1>2 DEF Restart, storeVars
  <2>2. /\ \A d \in Deals : task'[d].pc \in {"none", "scheduled"}
        /\ \A c \in Callers : call[c] = NoCall
    <3>1. TrustInv'
      BY <1>0 DEF WorkInv
    <3>. QED BY <1>0, <1>2, <3>1, RestartWork DEF NoTask, ScheduledTask
  <2>. QED BY <1>0, <2>1, <2>2 DEF StandsInv, TaskStands
<1>3. CASE Rests
  BY <1>0, <1>3 DEF Rests, storeVars, StandsInv
<1>4. ASSUME NEW d \in Deals, NEW record, NEW new, TaskWrites(d, record, new)
      PROVE  StandsInv'
  BY <1>0, <1>4, TaskWritesStands
<1>5. ASSUME NEW d \in Deals, NEW new, TaskKeeps(d, new)
      PROVE  StandsInv'
  BY <1>0, <1>5, TaskKeepsStands
<1>6. ASSUME NEW c \in Callers, NEW d \in Deals, NEW this, Begins(c, d, this)
      PROVE  StandsInv'
  BY <1>0, <1>6, BeginsStands
<1>7. ASSUME NEW c \in Callers, NEW row, Approves(c, row) \/ Signs(c, row)
      PROVE  StandsInv'
  BY <1>0, <1>7, ApprovesStands, SignsStands
<1>8. ASSUME NEW c \in Callers, NEW row, NEW e, Declines(c, row, e)
      PROVE  StandsInv'
  BY <1>0, <1>8, DeclinesStands
<1>9. ASSUME NEW c \in Callers, NEW next, GoesOn(c, next)
      PROVE  StandsInv'
  BY <1>0, <1>9, GoesOnStands
<1>. QED BY <1>0, <1>1, <1>2, <1>3, <1>4, <1>5, <1>6, <1>7, <1>8, <1>9, StepForms

\* What the marks of a journal tell of the deal's decisions and signatures.
LEMMA MarksTell ==
  ASSUME NEW d \in Deals
  PROVE  /\ \A i : i \in Logged(d, DecisionEvents) <=>
                     i \in Marks(log[d]) /\ log[d][i] \in DecisionEvents
         /\ \A i : i \in Logged(d, {"payment_draft_signed"}) <=>
                     i \in Marks(log[d]) /\ log[d][i] = "payment_draft_signed"
BY DEF Logged, Marks

\* For clients that wait for create, a human decision is final: the deal shows the
\* decision its journal tells of, and the journal tells of another one only to repeat
\* it, after the one signature (approve, decide, sign_payment).  The hypothesis is
\* needed: a client of submit may decide before the final put of _process, which then
\* overwrites the decided row.
THEOREM DecisionsStand ==
  ASSUME Synchronous
  PROVE  Spec => []HumanDecisionStands
<1>1. StandsInv => HumanDecisionStands
  <2>. SUFFICES ASSUME StandsInv, NEW d \in Deals
                PROVE  LET decided == Logged(d, DecisionEvents)
                           signed == Logged(d, {"payment_draft_signed"})
                       IN /\ \A i \in decided :
                               /\ deals[d].human_decision # None
                               /\ log[d][i] = DecisionEvent[deals[d].human_decision.decision]
                          /\ \A i, j \in decided : i < j => \E k \in signed : i < k /\ k < j
                          /\ \A k, l \in signed : k = l
    BY DEF HumanDecisionStands
  <2>1. JournalStands(deals[d], log[d])
    BY DEF StandsInv, RowStands
  <2>2. CASE Marks(log[d]) = {}
    BY <2>2, MarksTell
  <2>3. CASE deals[d].human_decision # None /\ Decided(deals[d], log[d])
    <3>1. PICK i \in Nat : /\ Marks(log[d]) = {i}
                           /\ log[d][i] = DecisionEvent[deals[d].human_decision.decision]
      BY <2>3 DEF Decided
    <3>2. \A n \in Marks(log[d]) : n = i
      BY <3>1
    <3>. QED BY <2>3, <3>1, <3>2, MarksTell
  <2>4. CASE /\ deals[d].human_decision # None
             /\ deals[d].human_decision.decision = "approve" /\ Concluded(log[d])
    <3>1. PICK i, k \in Nat : /\ i < k /\ Marks(log[d]) = {i, k, k + 2}
                              /\ log[d][i] = "quote_approved"
                              /\ log[d][k] = "payment_draft_signed"
                              /\ log[d][k + 2] = "quote_approved"
      BY <2>4 DEF Concluded
    <3>2. /\ \A n : n \in Logged(d, DecisionEvents) <=> n = i \/ n = k + 2
          /\ \A n : n \in Logged(d, {"payment_draft_signed"}) <=> n = k
      <4>1. "quote_approved" \in DecisionEvents /\ "payment_draft_signed" \notin DecisionEvents
        BY DEF DecisionEvents
      <4>2. \A n : n \in Marks(log[d]) <=> n = i \/ n = k \/ n = k + 2
        BY <3>1
      <4>. QED BY <3>1, <4>1, <4>2, MarksTell
    <3>3. DecisionEvent["approve"] = "quote_approved"
      BY DEF DecisionEvent
    <3>. QED BY <2>4, <3>1, <3>2, <3>3
  <2>. QED BY <2>1, <2>2, <2>3, <2>4 DEF JournalStands
<1>2. StandsInv /\ [Next]_vars => StandsInv'
  BY StandsStep
<1>. QED BY StandsInit, <1>1, <1>2, PTL DEF Spec

\* For clients that wait for create, the rows of a deal show one payment draft id at
\* most, whatever crashes, fails or is repeated (approve, sign_payment).
THEOREM OneDraftPerDeal ==
  ASSUME Synchronous
  PROVE  Spec => []OnePaymentDraft
<1>1. StandsInv => OnePaymentDraft
  <2>. SUFFICES ASSUME StandsInv, NEW d \in Deals
                PROVE  Cardinality(issued[d]) <= 1
    BY DEF OnePaymentDraft
  <2>1. issued[d] = {} \/ \E i : issued[d] = {i}
    BY DEF StandsInv, RowStands
  <2>2. CASE issued[d] = {}
    BY <2>2, FS_EmptySet
  <2>3. CASE \E i : issued[d] = {i}
    <3>1. PICK i : issued[d] = {i}
      BY <2>3
    <3>2. Cardinality({i}) = 1
      BY FS_Singleton
    <3>. QED BY <3>1, <3>2
  <2>. QED BY <2>1, <2>2, <2>3
<1>2. StandsInv /\ [Next]_vars => StandsInv'
  BY StandsStep
<1>. QED BY StandsInit, <1>1, <1>2, PTL DEF Spec

-----------------------------------------------------------------------------
(* When clients approve what the deal shows: the terms of a purchase.      *)

Anchored(chain, q, i) == i \in 1 .. Len(chain) /\ chain[i].payload_hash = q

\* A payment draft in a row: its terms were shown, and the intent is anchored.
RowTerms(row, shown, chain) ==
  row.payment_draft # None =>
    /\ row.payment_draft.quote \in shown
    /\ row.selected_quote \in shown
    /\ row.approval_snapshot \in shown
    /\ row.purchase_intent \in shown
    /\ row.human_decision = [decision |-> "approve", snapshot |-> row.selected_quote]
    /\ Anchored(chain, row.purchase_intent, row.ledger_anchor)

\* A call: the quote was shown, and so were the terms it is about to store.
CallTerms(this, shown, chain) ==
  /\ this.quote \in shown
  /\ RowTerms(this.record.row, shown, chain)
  /\ (this.op = "approve" /\ this.pc = "put") =>
       /\ this.artifacts.draft.quote \in shown
       /\ this.artifacts.intent \in shown
       /\ Anchored(chain, this.artifacts.intent, this.artifacts.anchor)

\* A deal shows one snapshot, and all that is anchored, bought, stored and
\* signed for it is that one.
TermsInv ==
  /\ WorkInv /\ OrderInv
  /\ \A d \in Deals :
       /\ \A p, q \in published[d] : p = q
       /\ RowTerms(deals[d], published[d], ledger[d])
       /\ purchases[d] # None => purchases[d].intent \in published[d]
  /\ \A c \in Callers : call[c] # NoCall =>
       CallTerms(call[c], published[call[c].deal], ledger[call[c].deal])

\* At first nothing is shown or bought.
LEMMA TermsInit == Init => TermsInv
<1>. SUFFICES ASSUME Init
              PROVE  TermsInv
  OBVIOUS
<1>1. WorkInv /\ OrderInv
  BY WorkInvInit, OrderInvInit
<1>2. \A d \in Deals : /\ deals[d].payment_draft = None /\ published[d] = {}
                       /\ purchases[d] = None
  BY DEF Init, StoreInit, TrustInit, NoResults, NoRecord, EmptyRow
<1>3. \A c \in Callers : call[c] = NoCall
  BY DEF Init
<1>. QED BY <1>1, <1>2, <1>3 DEF TermsInv, RowTerms

\* Terms remain when more is shown or anchored.
LEMMA TermsRemain ==
  ASSUME NEW shown, NEW more, shown \subseteq more, NEW chain, NEW longer,
         \A q, i : Anchored(chain, q, i) => Anchored(longer, q, i)
  PROVE  /\ \A row : RowTerms(row, shown, chain) => RowTerms(row, more, longer)
         /\ \A this : CallTerms(this, shown, chain) => CallTerms(this, more, longer)
<1>1. \A row : RowTerms(row, shown, chain) => RowTerms(row, more, longer)
  BY DEF RowTerms
<1>. QED BY <1>1 DEF CallTerms

\* A task writes rows without a purchase, and shows no second snapshot.
LEMMA TaskWritesTerms ==
  ASSUME TermsInv, WorkInv', OrderInv', NEW d \in Deals, NEW record, NEW new,
         TaskWrites(d, record, new)
  PROVE  TermsInv'
<1>1. WorkInv /\ OrderInv
  BY DEF TermsInv
<1>2. /\ deals'[d] = record.row /\ record.row.payment_draft = None
      /\ UNCHANGED call
      /\ published[d] \subseteq published'[d]
      /\ \A e \in Deals \ {d} : deals'[e] = deals[e] /\ published'[e] = published[e]
  BY <1>1, TaskWritesRow
<1>3. /\ UNCHANGED <<ledger, purchases>>
      /\ published'[d] = published[d] \/ \A p, q \in published'[d] : p = q
  BY DEF TaskWrites, trustVars
<1>4. ASSUME NEW e \in Deals
      PROVE  /\ \A p, q \in published'[e] : p = q
             /\ RowTerms(deals'[e], published'[e], ledger'[e])
             /\ purchases'[e] # None => purchases'[e].intent \in published'[e]
             /\ published[e] \subseteq published'[e] /\ ledger'[e] = ledger[e]
  <2>1. CASE e = d
    <3>1. RowTerms(deals'[d], published'[d], ledger'[d])
      BY <1>2 DEF RowTerms
    <3>2. \A p, q \in published'[d] : p = q
      BY <1>3 DEF TermsInv
    <3>3. purchases'[d] # None => purchases'[d].intent \in published'[d]
      BY <1>2, <1>3 DEF TermsInv
    <3>. QED BY <1>2, <1>3, <2>1, <3>1, <3>2, <3>3
  <2>2. CASE e # d
    BY <1>2, <1>3, <2>2 DEF TermsInv
  <2>. QED BY <2>1, <2>2
<1>5. ASSUME NEW c \in Callers, call[c] # NoCall
      PROVE  CallTerms(call[c], published'[call[c].deal], ledger'[call[c].deal])
  <2>. DEFINE e == call[c].deal
  <2>1. e \in Deals /\ CallTerms(call[c], published[e], ledger[e])
    BY <1>1, <1>5, WorkTypes DEF TermsInv
  <2>2. published[e] \subseteq published'[e] /\ ledger'[e] = ledger[e]
    BY <1>4, <2>1
  <2>3. CallTerms(call[c], published'[e], ledger[e])
    <3>. HIDE DEF e
    <3>. QED BY <2>1, <2>2, TermsRemain
  <2>. QED BY <2>2, <2>3
<1>. QED BY <1>2, <1>4, <1>5 DEF TermsInv

\* A call stores a row with shown terms.
LEMMA CallWritesTerms ==
  ASSUME TermsInv, WorkInv', OrderInv', NEW c \in Callers, NEW row, NEW batch,
         CallWrites(c, row, batch),
         row.approval_snapshot \in published[call[c].deal] \cup {None},
         RowTerms(row, published[call[c].deal], ledger[call[c].deal]),
         call'[c] # NoCall => /\ call'[c].deal = call[c].deal /\ call'[c].pc # "put"
                              /\ call'[c].record = call[c].record
                              /\ call'[c].quote = call[c].quote
  PROVE  TermsInv'
<1>. DEFINE d == call[c].deal
<1>1. /\ WorkInv /\ call[c] # NoCall /\ UNCHANGED <<ledger, purchases>>
      /\ \A f \in Callers \ {c} : call'[f] = NoCall
  BY DEF TermsInv, CallWrites, trustVars
<1>2. /\ d \in Deals /\ deals'[d] = row
      /\ published'[d] = published[d] \cup ({row.approval_snapshot} \ {None})
      /\ \A f \in Deals \ {d} : deals'[f] = deals[f] /\ published'[f] = published[f]
  BY <1>1, CallWritesEffect
<1>3. \A f \in Deals : published'[f] = published[f]
  BY <1>2
<1>4. CallTerms(call[c], published[d], ledger[d])
  BY <1>1 DEF TermsInv
<1>5. \A f \in Deals : /\ \A p, q \in published'[f] : p = q
                       /\ RowTerms(deals'[f], published'[f], ledger'[f])
                       /\ purchases'[f] # None => purchases'[f].intent \in published'[f]
  BY <1>1, <1>2, <1>3 DEF TermsInv
<1>6. call'[c] # NoCall => CallTerms(call'[c], published'[d], ledger'[d])
  BY <1>1, <1>2, <1>3, <1>4 DEF CallTerms
<1>. QED BY <1>1, <1>5, <1>6 DEF TermsInv

\* approve stores what the client was shown and what was anchored and bought for it.
LEMMA ApprovesTerms ==
  ASSUME TermsInv, WorkInv', OrderInv', NEW c \in Callers, NEW row, Approves(c, row)
  PROVE  TermsInv'
<1>1. /\ CallWrites(c, row, ApprovalEvents) /\ call'[c] = NoCall
      /\ CallTerms(call[c], published[call[c].deal], ledger[call[c].deal])
      /\ call[c].op = "approve" /\ call[c].pc = "put"
  BY DEF Approves, CallWrites, TermsInv
<1>2. RowTerms(row, published[call[c].deal], ledger[call[c].deal])
  BY <1>1 DEF Approves, RowTerms, CallTerms
<1>3. row.approval_snapshot \in published[call[c].deal]
  BY <1>1 DEF Approves, CallTerms
<1>. QED BY <1>1, <1>2, <1>3, CallWritesTerms

\* decide stores no purchase.
LEMMA DeclinesTerms ==
  ASSUME TermsInv, WorkInv', OrderInv', NEW c \in Callers, NEW row, NEW e,
         Declines(c, row, e)
  PROVE  TermsInv'
<1>1. /\ CallWrites(c, row, <<e>>) /\ call'[c] = NoCall /\ call[c] # NoCall
      /\ row.payment_draft = call[c].record.row.payment_draft /\ call[c].op # "sign"
      /\ row.approval_snapshot = call[c].record.row.approval_snapshot
  BY DEF Declines, CallWrites
<1>2. row.payment_draft = None
  BY <1>1 DEF TermsInv, OrderInv
<1>3. row.approval_snapshot \in published[call[c].deal] \cup {None}
  BY <1>1 DEF TermsInv, WorkInv, CallsFit, CallFits
<1>4. RowTerms(row, published[call[c].deal], ledger[call[c].deal])
  BY <1>2 DEF RowTerms
<1>. QED BY <1>1, <1>3, <1>4, CallWritesTerms

\* sign_payment stores the terms it read.
LEMMA SignsTerms ==
  ASSUME TermsInv, WorkInv', OrderInv', NEW c \in Callers, NEW row, Signs(c, row)
  PROVE  TermsInv'
<1>. DEFINE next == [call[c] EXCEPT !.pc = "append_outbox"]
<1>1. /\ CallWrites(c, row, SignatureEvents(call[c].record.row)) /\ call'[c] = next
      /\ call[c] # NoCall
      /\ CallTerms(call[c], published[call[c].deal], ledger[call[c].deal])
  BY DEF Signs, CallWrites, TermsInv
<1>2. RowTerms(row, published[call[c].deal], ledger[call[c].deal])
  BY <1>1, NoneAssumption DEF Signs, RowTerms, CallTerms
<1>3. row.approval_snapshot \in published[call[c].deal] \cup {None}
  BY <1>1 DEF Signs, TermsInv, WorkInv, CallsFit, CallFits
<1>4. /\ next.deal = call[c].deal /\ next.pc # "put" /\ next.record = call[c].record
      /\ next.quote = call[c].quote
  BY WorkTypes DEF TermsInv, Call
<1>. HIDE DEF next
<1>. QED BY <1>1, <1>2, <1>3, <1>4, CallWritesTerms

\* What the trust controls remember of a purchase.
LEMMA PurchaseTerms ==
  ASSUME WorkInv, NEW d \in Deals, purchases[d] # None
  PROVE  /\ purchases[d].draft.quote = purchases[d].intent
         /\ Anchored(ledger[d], purchases[d].intent, purchases[d].anchor)
BY DEF WorkInv, TrustInv, PurchaseInv, CachesAgree, Anchored

\* A client that knows shown hashes approves a shown quote, and a result in the cache
\* was bought for a shown one.
LEMMA BeginsTerms ==
  ASSUME HashKnowledge = "shown", TermsInv, WorkInv', OrderInv', NEW c \in Callers,
         NEW d \in Deals, NEW this, Begins(c, d, this)
  PROVE  TermsInv'
<1>1. /\ UNCHANGED <<deals, published, ledger, purchases>> /\ this.deal = d
      /\ WorkInv
  BY DEF Begins, storeVars, trustVars, TermsInv
<1>2. \A f \in Callers : call'[f] = call[f] \/ call'[f] = this
  BY <1>1, WorkTypes DEF Begins
<1>3. this.record.row = deals[d] /\ RowTerms(deals[d], published[d], ledger[d])
  BY DEF Begins, Get, TermsInv
<1>4. this.quote \in published[d]
  BY <1>3 DEF Begins, ApprovableHashes, RowTerms
<1>5. (this.op = "approve" /\ this.pc = "put") =>
        /\ this.artifacts.draft.quote \in published[d]
        /\ this.artifacts.intent \in published[d]
        /\ Anchored(ledger[d], this.artifacts.intent, this.artifacts.anchor)
  <2>. SUFFICES ASSUME this.op = "approve", this.pc = "put"
                PROVE  /\ this.artifacts.draft.quote \in published[d]
                       /\ this.artifacts.intent \in published[d]
                       /\ Anchored(ledger[d], this.artifacts.intent, this.artifacts.anchor)
    OBVIOUS
  <2>1. purchases[d] # None /\ this.artifacts = purchases[d]
    BY DEF Begins
  <2>. QED BY <1>1, <2>1, PurchaseTerms DEF TermsInv
<1>6. CallTerms(this, published[d], ledger[d])
  BY <1>3, <1>4, <1>5 DEF CallTerms
<1>. QED BY <1>1, <1>2, <1>6 DEF TermsInv

\* The step of a call that writes no row: its deal.
LEMMA GoesOnTerms ==
  ASSUME TermsInv, WorkInv', OrderInv', NEW c \in Callers, NEW next, GoesOn(c, next)
  PROVE  TermsInv'
<1>. DEFINE d == call[c].deal
<1>1. /\ WorkInv /\ call[c] # NoCall /\ d \in Deals
      /\ CallTerms(call[c], published[d], ledger[d])
      /\ UNCHANGED <<deals, published>>
      /\ call'[c] = next /\ \A f \in Callers \ {c} : call'[f] = call[f]
  BY WorkTypes DEF GoesOn, TermsInv
<1>2. /\ ledger \in [Deals -> Seq(AnchorRow(Deals, Quote))]
      /\ ledger' \in [Deals -> Seq(AnchorRow(Deals, Quote))]
  BY <1>1, WorkTypes DEF WorkInv, TrustInv, TypeInv, ServiceInv, TypeOK, TrustTypeOK
<1>3. \A e \in Deals : \A q, i : Anchored(ledger[e], q, i) => Anchored(ledger'[e], q, i)
  <2>1. CASE AppendAnchor(d, call[c].quote)
    <3>. DEFINE row == NextAnchor(d, ledger[d], call[c].quote)
                grown == Append(ledger[d], row)
    <3>1. ledger' = [ledger EXCEPT ![d] = grown]
      BY <2>1 DEF AppendAnchor
    <3>2. /\ Len(ledger[d]) \in Nat /\ Len(grown) = Len(ledger[d]) + 1
          /\ \A j \in 1 .. Len(ledger[d]) : grown[j] = ledger[d][j]
      <4>. HIDE DEF row
      <4>. QED BY <1>1, <1>2
    <3>. HIDE DEF grown
    <3>3. ledger'[d] = grown /\ \A e \in Deals \ {d} : ledger'[e] = ledger[e]
      BY <1>1, <1>2, <3>1
    <3>. QED BY <3>2, <3>3 DEF Anchored
  <2>2. CASE ledger' = ledger
    BY <2>2
  <2>. QED BY <2>1, <2>2 DEF GoesOn, trustVars
<1>4. ASSUME NEW e \in Deals
      PROVE  /\ \A p, q \in published'[e] : p = q
             /\ RowTerms(deals'[e], published'[e], ledger'[e])
  <2>1. /\ \A p, q \in published[e] : p = q
        /\ RowTerms(deals[e], published[e], ledger[e])
    BY DEF TermsInv
  <2>. QED BY <1>1, <1>3, <2>1, TermsRemain
<1>5. \A e \in Deals : purchases'[e] # None => purchases'[e].intent \in published'[e]
  <2>1. CASE purchases' = purchases
    BY <1>1, <2>1 DEF TermsInv
  <2>2. CASE /\ purchases'[d] # None => purchases'[d].intent = call[c].quote
             /\ \A e \in Deals \ {d} : purchases'[e] = purchases[e]
    BY <1>1, <2>2 DEF TermsInv, CallTerms
  <2>. QED BY <2>1, <2>2 DEF GoesOn, AppendAnchor, trustVars
<1>6. next # NoCall => next.deal = d /\ CallTerms(next, published'[d], ledger'[d])
  <2>. SUFFICES ASSUME next # NoCall
                PROVE  next.deal = d /\ CallTerms(next, published'[d], ledger'[d])
    OBVIOUS
  <2>1. next.deal = d /\ next.quote = call[c].quote /\ next.record = call[c].record
        /\ next.op = call[c].op
    BY DEF GoesOn
  <2>2. CallTerms(call[c], published'[d], ledger'[d])
    BY <1>1, <1>3, TermsRemain
  <2>3. (next.op = "approve" /\ next.pc = "put") =>
          /\ next.artifacts.draft.quote \in published'[d]
          /\ next.artifacts.intent \in published'[d]
          /\ Anchored(ledger'[d], next.artifacts.intent, next.artifacts.anchor)
    <3>. SUFFICES ASSUME next.op = "approve", next.pc = "put"
                  PROVE  /\ next.artifacts.draft.quote \in published'[d]
                         /\ next.artifacts.intent \in published'[d]
                         /\ Anchored(ledger'[d], next.artifacts.intent, next.artifacts.anchor)
      OBVIOUS
    <3>1. next.artifacts = purchases'[d]
      BY DEF GoesOn
    <3>2. ServiceInv'
      BY DEF WorkInv, TrustInv, TypeInv
    <3>3. next.artifacts \in Artifacts
      BY <1>1, <3>2 DEF ServiceInv, CallsHold, CallReady
    <3>4. purchases'[d] # None
      BY <3>1, <3>3, TrustAssumption
    <3>5. /\ purchases'[d].draft.quote = purchases'[d].intent
          /\ Anchored(ledger'[d], purchases'[d].intent, purchases'[d].anchor)
      BY <1>1, <3>4 DEF WorkInv, TrustInv, PurchaseInv, CachesAgree, Anchored
    <3>. QED BY <1>1, <1>5, <3>1, <3>4, <3>5
  <2>. QED BY <2>1, <2>2, <2>3 DEF CallTerms
<1>7. ASSUME NEW f \in Callers, f # c, call[f] # NoCall
      PROVE  CallTerms(call[f], published'[call[f].deal], ledger'[call[f].deal])
  <2>1. call[f].deal \in Deals /\ CallTerms(call[f], published[call[f].deal], ledger[call[f].deal])
    BY <1>1, <1>7, WorkTypes DEF TermsInv
  <2>. QED BY <1>1, <1>3, <2>1, TermsRemain
<1>. QED BY <1>1, <1>4, <1>5, <1>6, <1>7 DEF TermsInv

\* Every step of the service, when clients approve what the deal shows.
LEMMA TermsStep ==
  ASSUME HashKnowledge = "shown", TermsInv, [Next]_vars
  PROVE  TermsInv'
<1>0. WorkInv /\ WorkInv' /\ OrderInv'
  BY OrderStep, WorkStep DEF TermsInv
<1>1. CASE Crash
  <2>1. /\ UNCHANGED <<deals, published, ledger>>
        /\ \A d \in Deals : purchases'[d] = None
        /\ \A c \in Callers : call'[c] = NoCall
    BY <1>1 DEF Crash, storeVars, NoResults
  <2>. QED BY <1>0, <2>1 DEF TermsInv
<1>2. CASE Restart \/ Rests
  <2>1. UNCHANGED <<deals, published, ledger, purchases, call>>
    BY <1>2 DEF Restart, Rests, storeVars, trustVars
  <2>. QED BY <1>0, <2>1 DEF TermsInv
<1>3. ASSUME NEW d \in Deals, NEW record, NEW new, TaskWrites(d, record, new)
      PROVE  TermsInv'
  BY <1>0, <1>3, TaskWritesTerms
<1>4. ASSUME NEW d \in Deals, NEW new, TaskKeeps(d, new)
      PROVE  TermsInv'
  BY <1>0, <1>4, TaskKeepsTask DEF TermsInv, trustVars
<1>5. ASSUME NEW c \in Callers, NEW d \in Deals, NEW this, Begins(c, d, this)
      PROVE  TermsInv'
  BY <1>0, <1>5, BeginsTerms
<1>6. ASSUME NEW c \in Callers, NEW row, Approves(c, row) \/ Signs(c, row)
      PROVE  TermsInv'
  BY <1>0, <1>6, ApprovesTerms, SignsTerms
<1>7. ASSUME NEW c \in Callers, NEW row, NEW e, Declines(c, row, e)
      PROVE  TermsInv'
  BY <1>0, <1>7, DeclinesTerms
<1>8. ASSUME NEW c \in Callers, NEW next, GoesOn(c, next)
      PROVE  TermsInv'
  BY <1>0, <1>8, GoesOnTerms
<1>. QED BY <1>0, <1>1, <1>2, <1>3, <1>4, <1>5, <1>6, <1>7, <1>8, StepForms

\* For clients that approve the snapshot the deal shows, the payment draft of a deal,
\* its snapshot, selected quote, decision and purchase intent are one offer, and that
\* offer is in the ledger at the anchor the deal names (approve, with the result cache
\* of TrustedInfrastructureService).  The hypothesis is needed: clients that hash a
\* quote themselves may get the artifacts of an earlier approval.
THEOREM TermsMatch ==
  ASSUME HashKnowledge = "shown"
  PROVE  Spec => []ApprovedTermsMatch
<1>1. TermsInv => ApprovedTermsMatch
  <2>. SUFFICES ASSUME TermsInv, NEW d \in Deals, deals[d].payment_draft # None
                PROVE  LET row == deals[d]
                           q == row.selected_quote
                       IN /\ row.payment_draft.quote = q
                          /\ row.approval_snapshot = q
                          /\ row.purchase_intent = q
                          /\ row.human_decision = [decision |-> "approve", snapshot |-> q]
                          /\ row.ledger_anchor \in 1 .. Len(ledger[d])
                          /\ ledger[d][row.ledger_anchor].payload_hash = q
    BY DEF ApprovedTermsMatch
  <2>1. /\ RowTerms(deals[d], published[d], ledger[d])
        /\ \A p, q \in published[d] : p = q
    BY DEF TermsInv
  <2>. QED BY <2>1 DEF RowTerms, Anchored
<1>2. TermsInv /\ [Next]_vars => TermsInv'
  BY TermsStep
<1>. QED BY TermsInit, <1>1, <1>2, PTL DEF Spec

-----------------------------------------------------------------------------
(* Awards.                                                                 *)

Shows(journal, e) == \E i \in 1 .. Len(journal) : journal[i] = e

ApprovedThenSigned(journal) ==
  \E i, j \in 1 .. Len(journal) :
    i < j /\ journal[i] = "quote_approved" /\ journal[j] = "payment_draft_signed"

\* The suppliers told that they won or lost, the shown quotes and the journal.
AwardFits(box, shown, journal) ==
  \A s \in Suppliers :
    /\ box[[type |-> "award", to |-> s]] # "absent" =>
         ApprovedThenSigned(journal) /\ \E q \in shown : q.supplier = s
    /\ box[[type |-> "rejection", to |-> s]] # "absent" => \E q \in shown : q.supplier # s

AwardInv ==
  /\ TermsInv
  /\ \A d \in Deals :
       /\ deals[d].status \in ApprovedStatus => Shows(log[d], "quote_approved")
       /\ AwardFits(outbox[d], published[d], log[d])
  /\ \A c \in Callers : call[c] # NoCall =>
       /\ call[c].op = "sign" => Shows(log[call[c].deal], "quote_approved")
       /\ call[c].pc = "append_outbox" => ApprovedThenSigned(log[call[c].deal])

\* At first nobody is told anything.
LEMMA AwardInit == Init => AwardInv
<1>. SUFFICES ASSUME Init
              PROVE  AwardInv
  OBVIOUS
<1>1. TermsInv
  BY TermsInit
<1>2. \A d \in Deals : deals[d].status = "absent" /\ outbox[d] = [m \in Message |-> "absent"]
  BY DEF Init, StoreInit, NoRecord, EmptyRow
<1>3. \A d \in Deals : AwardFits(outbox[d], published[d], log[d])
  BY <1>2, TypedMessages DEF AwardFits
<1>4. \A c \in Callers : call[c] = NoCall
  BY DEF Init
<1>. QED BY <1>1, <1>2, <1>3, <1>4 DEF AwardInv, ApprovedStatus

\* What a journal shows it shows ever after.
LEMMA ShownStays ==
  ASSUME NEW journal \in Seq(Event), NEW batch \in Seq(Event)
  PROVE  LET longer == journal \o batch
         IN /\ \A f : Shows(journal, f) => Shows(longer, f)
            /\ \A f : Shows(batch, f) => Shows(longer, f)
            /\ ApprovedThenSigned(journal) => ApprovedThenSigned(longer)
            /\ (Shows(journal, "quote_approved") /\ Shows(batch, "payment_draft_signed")) =>
                 ApprovedThenSigned(longer)
<1>. DEFINE longer == journal \o batch
<1>1. /\ Len(longer) = Len(journal) + Len(batch)
      /\ \A i \in 1 .. Len(journal) : longer[i] = journal[i]
      /\ \A i \in 1 .. Len(batch) : longer[Len(journal) + i] = batch[i]
      /\ Len(journal) \in Nat /\ Len(batch) \in Nat
  BY Joined
<1>. HIDE DEF longer
<1>2. /\ \A i \in 1 .. Len(journal) : i \in 1 .. Len(longer)
      /\ \A i \in 1 .. Len(batch) : Len(journal) + i \in 1 .. Len(longer)
      /\ \A i \in 1 .. Len(journal) : \A k \in 1 .. Len(batch) : i < Len(journal) + k
  BY <1>1
<1>3. \A f : Shows(journal, f) => Shows(longer, f)
  BY <1>1, <1>2 DEF Shows
<1>4. \A f : Shows(batch, f) => Shows(longer, f)
  BY <1>1, <1>2 DEF Shows
<1>5. ApprovedThenSigned(journal) => ApprovedThenSigned(longer)
  BY <1>1, <1>2 DEF ApprovedThenSigned
<1>6. (Shows(journal, "quote_approved") /\ Shows(batch, "payment_draft_signed")) =>
        ApprovedThenSigned(longer)
  BY <1>1, <1>2 DEF Shows, ApprovedThenSigned
<1>. QED BY <1>3, <1>4, <1>5, <1>6 DEF longer

\* A journal that grew.
Grew(journal, longer) ==
  /\ \A f : Shows(journal, f) => Shows(longer, f)
  /\ ApprovedThenSigned(journal) => ApprovedThenSigned(longer)

\* A journal that grows and a shown quote more take nothing from an award.
LEMMA AwardRemains ==
  ASSUME NEW box, NEW shown, NEW more, shown \subseteq more, NEW journal, NEW longer,
         Grew(journal, longer), AwardFits(box, shown, journal)
  PROVE  AwardFits(box, more, longer)
BY DEF AwardFits, Grew

\* No step takes anything from a journal, or from what a deal has shown.
LEMMA JournalKept ==
  ASSUME WorkInv, OrderInv, [Next]_vars, NEW d \in Deals
  PROVE  Grew(log[d], log'[d]) /\ published[d] \subseteq published'[d]
<1>0. log[d] \in Seq(Event)
  BY WorkTypes
<1>1. ASSUME log'[d] = log[d] \/ \E batch \in Seq(Event) : log'[d] = log[d] \o batch
      PROVE  Grew(log[d], log'[d])
  BY <1>0, <1>1, ShownStays DEF Grew
<1>2. ASSUME NEW f \in Deals, NEW record, NEW new, TaskWrites(f, record, new)
      PROVE  /\ log'[d] = log[d] \/ \E batch \in Seq(Event) : log'[d] = log[d] \o batch
             /\ published[d] \subseteq published'[d]
  <2>1. Grows(f, TaskEvent) /\ \A e \in TaskEvent : e \in Event
    BY <1>2 DEF TaskWrites, TaskEvent, WorkflowEvent, Event
  <2>2. \A e \in Event : <<e>> \in Seq(Event) /\ Append(log[d], e) = log[d] \o <<e>>
    BY <1>0, SingleBatch
  <2>3. f = d => log'[d] = log[d] \/ \E e \in Event : log'[d] = Append(log[d], e)
    BY <2>1 DEF Grows
  <2>4. f = d => log'[d] = log[d] \/ \E batch \in Seq(Event) : log'[d] = log[d] \o batch
    BY <2>2, <2>3
  <2>5. f # d => log'[d] = log[d] /\ published'[d] = published[d]
    BY <1>2, TaskWritesRow
  <2>6. f = d => published[d] \subseteq published'[d]
    BY <1>2, TaskWritesRow
  <2>. QED BY <2>4, <2>5, <2>6
<1>3. ASSUME NEW c \in Callers, NEW row, NEW batch, CallWrites(c, row, batch)
      PROVE  /\ log'[d] = log[d] \/ \E more \in Seq(Event) : log'[d] = log[d] \o more
             /\ published[d] \subseteq published'[d]
  BY <1>3, CallWritesEffect DEF CallWrites
<1>4. ASSUME NEW c \in Callers, NEW row, NEW e,
             Approves(c, row) \/ Declines(c, row, e) \/ Signs(c, row)
      PROVE  \E batch : CallWrites(c, row, batch)
  BY <1>4 DEF Approves, Declines, Signs
<1>5. ASSUME UNCHANGED <<log, published>>
      PROVE  Grew(log[d], log'[d]) /\ published[d] \subseteq published'[d]
  BY <1>1, <1>5
<1>6. ASSUME NEW f \in Deals, NEW new, TaskKeeps(f, new)
      PROVE  UNCHANGED <<log, published>>
  BY <1>6 DEF TaskKeeps, storeVars
<1>7. ASSUME NEW c \in Callers, NEW f \in Deals, NEW this, NEW next,
             Begins(c, f, this) \/ GoesOn(c, next)
      PROVE  UNCHANGED <<log, published>>
  BY <1>7 DEF Begins, GoesOn, storeVars
<1>8. ASSUME Crash \/ Restart \/ Rests
      PROVE  UNCHANGED <<log, published>>
  BY <1>8 DEF Crash, Restart, Rests, storeVars
<1>. QED BY <1>1, <1>2, <1>3, <1>4, <1>5, <1>6, <1>7, <1>8, StepForms

\* A call that writes a row queues nothing.
LEMMA CallWritesAward ==
  ASSUME AwardInv, TermsInv', [Next]_vars, NEW c \in Callers, NEW row, NEW batch,
         CallWrites(c, row, batch),
         row.status \in ApprovedStatus => Shows(log'[call[c].deal], "quote_approved"),
         call'[c] # NoCall => /\ call'[c].deal = call[c].deal
                              /\ ApprovedThenSigned(log'[call[c].deal])
                              /\ Shows(log'[call[c].deal], "quote_approved")
  PROVE  AwardInv'
<1>1. /\ WorkInv /\ OrderInv /\ \A f \in Callers \ {c} : call'[f] = NoCall
  BY DEF AwardInv, TermsInv, CallWrites
<1>2. /\ deals'[call[c].deal] = row /\ UNCHANGED outbox
      /\ \A f \in Deals \ {call[c].deal} : deals'[f] = deals[f]
  BY <1>1, CallWritesEffect
<1>3. \A d \in Deals : Grew(log[d], log'[d]) /\ published[d] \subseteq published'[d]
  BY <1>1, JournalKept
<1>4. \A d \in Deals : AwardFits(outbox'[d], published'[d], log'[d])
  BY <1>2, <1>3, AwardRemains DEF AwardInv
<1>5. \A d \in Deals : deals'[d].status \in ApprovedStatus => Shows(log'[d], "quote_approved")
  BY <1>2, <1>3 DEF AwardInv, Grew
<1>. QED BY <1>1, <1>4, <1>5 DEF AwardInv

\* The messages queued go where the awards may.
LEMMA QueuedAward ==
  ASSUME StoreTypeOK, NEW d \in Deals, NEW record, NEW q, NEW shown, q \in shown, NEW journal,
         ApprovedThenSigned(journal), AwardFits(outbox[d], shown, journal),
         AppendOutbox(d, OutboxMessages(record, q))
  PROVE  AwardFits(outbox'[d], shown, journal)
<1>. SUFFICES ASSUME NEW s \in Suppliers
              PROVE  /\ outbox'[d][[type |-> "award", to |-> s]] # "absent" =>
                          \E p \in shown : p.supplier = s
                     /\ outbox'[d][[type |-> "rejection", to |-> s]] # "absent" =>
                          \E p \in shown : p.supplier # s
  BY DEF AwardFits
<1>1. \A m \in Message : outbox'[d][m] # "absent" =>
        outbox[d][m] # "absent" \/ m \in OutboxMessages(record, q)
  BY OutboxKept
<1>2. [type |-> "award", to |-> s] \in Message /\ [type |-> "rejection", to |-> s] \in Message
  BY TypedMessages
<1>3. /\ outbox[d][[type |-> "award", to |-> s]] # "absent" => \E p \in shown : p.supplier = s
      /\ outbox[d][[type |-> "rejection", to |-> s]] # "absent" =>
           \E p \in shown : p.supplier # s
  BY DEF AwardFits
<1>4. /\ [type |-> "award", to |-> s] \in OutboxMessages(record, q) => s = q.supplier
      /\ [type |-> "rejection", to |-> s] \in OutboxMessages(record, q) => s # q.supplier
  BY MessagesTo
<1>. QED BY <1>1, <1>2, <1>3, <1>4

\* sign_payment queues the messages only after its put, to the winner and the others
\* (_append_and_publish_outbox).
LEMMA GoesOnAward ==
  ASSUME AwardInv, TermsInv', NEW c \in Callers, NEW next, GoesOn(c, next)
  PROVE  AwardInv'
<1>. DEFINE d == call[c].deal
<1>1. /\ WorkInv /\ StoreTypeOK /\ call[c] # NoCall /\ d \in Deals
      /\ CallTerms(call[c], published[d], ledger[d])
      /\ UNCHANGED <<deals, log, published>>
      /\ call'[c] = next /\ \A f \in Callers \ {c} : call'[f] = call[f]
  BY WorkTypes DEF GoesOn, AwardInv, TermsInv
<1>2. ASSUME NEW e \in Deals
      PROVE  AwardFits(outbox'[e], published[e], log[e])
  <2>0. AwardFits(outbox[e], published[e], log[e])
    BY DEF AwardInv
  <2>1. CASE outbox' = outbox
    BY <2>0, <2>1
  <2>2. CASE MarkOutboxPublished(d)
    <3>1. \A m \in Message : outbox'[e][m] # "absent" <=> outbox[e][m] # "absent"
      BY <1>1, <2>2, OutboxKept
    <3>. QED BY <2>0, <3>1, TypedMessages DEF AwardFits
  <2>3. CASE /\ call[c].pc = "append_outbox"
             /\ AppendOutbox(d, OutboxMessages(call[c].record, call[c].quote))
    <3>1. /\ ApprovedThenSigned(log[d]) /\ call[c].quote \in published[d]
          /\ AwardFits(outbox[d], published[d], log[d])
      BY <1>1, <2>3 DEF AwardInv, CallTerms
    <3>2. AppendOutbox(d, OutboxMessages(call[c].record, call[c].quote))
      BY <2>3
    <3>3. AwardFits(outbox'[d], published[d], log[d])
      <4>. HIDE DEF d
      <4>. QED BY <1>1, <3>1, <3>2, QueuedAward
    <3>4. e # d => outbox'[e] = outbox[e]
      BY <1>1, <3>2 DEF AppendOutbox
    <3>. QED BY <2>0, <3>3, <3>4
  <2>. QED BY <2>1, <2>2, <2>3 DEF GoesOn
<1>3. next # NoCall => /\ next.op = call[c].op /\ next.deal = d
                       /\ next.pc # "append_outbox"
  BY DEF GoesOn
<1>4. \A f \in Callers : call'[f] # NoCall =>
        /\ call'[f].op = "sign" => Shows(log'[call'[f].deal], "quote_approved")
        /\ call'[f].pc = "append_outbox" => ApprovedThenSigned(log'[call'[f].deal])
  BY <1>1, <1>3 DEF AwardInv
<1>5. \A e \in Deals : deals'[e].status \in ApprovedStatus => Shows(log'[e], "quote_approved")
  BY <1>1 DEF AwardInv
<1>. QED BY <1>1, <1>2, <1>4, <1>5 DEF AwardInv

\* The three writes of calls, and what they log.
LEMMA DecisionsAward ==
  ASSUME AwardInv, TermsInv', [Next]_vars, NEW c \in Callers, NEW row, NEW e,
         Approves(c, row) \/ Declines(c, row, e) \/ Signs(c, row)
  PROVE  AwardInv'
<1>. DEFINE d == call[c].deal
<1>1. /\ WorkInv /\ call[c] # NoCall /\ d \in Deals /\ log[d] \in Seq(Event)
  BY WorkTypes DEF AwardInv, TermsInv, Approves, Declines, Signs, CallWrites
<1>2. CASE Approves(c, row)
  <2>1. /\ CallWrites(c, row, ApprovalEvents) /\ call'[c] = NoCall
        /\ log'[d] = log[d] \o ApprovalEvents
    BY <1>2 DEF Approves, CallWrites
  <2>2. Shows(log'[d], "quote_approved")
    <3>1. Shows(ApprovalEvents, "quote_approved")
      BY ApprovalBatch DEF Shows
    <3>. QED BY <1>1, <2>1, <3>1, ApprovalBatch, ShownStays
  <2>. QED BY <2>1, <2>2, CallWritesAward
<1>3. CASE Declines(c, row, e)
  <2>1. CallWrites(c, row, <<e>>) /\ call'[c] = NoCall /\ row.status \notin ApprovedStatus
    BY <1>3 DEF Declines, ApprovedStatus
  <2>. QED BY <2>1, CallWritesAward
<1>4. CASE Signs(c, row)
  <2>. DEFINE batch == SignatureEvents(call[c].record.row)
              next == [call[c] EXCEPT !.pc = "append_outbox"]
  <2>1. /\ CallWrites(c, row, batch) /\ call'[c] = next
        /\ call[c].op = "sign"
        /\ log'[d] = log[d] \o batch
    BY <1>4 DEF Signs, CallWrites
  <2>2. call[c] \in Call
    BY <1>1, WorkTypes
  <2>3. next.deal = d
    BY <2>2 DEF Call
  <2>4. Shows(log[d], "quote_approved")
    BY <1>1, <2>1 DEF AwardInv
  <2>5. Shows(log'[d], "quote_approved") /\ ApprovedThenSigned(log'[d])
    <3>1. batch \in Seq(Event) /\ Shows(batch, "payment_draft_signed")
      BY SignatureBatch DEF Shows
    <3>. HIDE DEF batch
    <3>. QED BY <1>1, <2>1, <2>4, <3>1, ShownStays
  <2>. HIDE DEF next, batch
  <2>. QED BY <2>1, <2>3, <2>5, CallWritesAward
<1>. QED BY <1>2, <1>3, <1>4

\* A deal that can be signed was approved in its journal.
LEMMA BeginsAward ==
  ASSUME AwardInv, TermsInv', NEW c \in Callers, NEW d \in Deals, NEW this, Begins(c, d, this)
  PROVE  AwardInv'
<1>1. UNCHANGED <<deals, log, outbox, published>> /\ this.deal = d
  BY DEF Begins, storeVars
<1>2. \A f \in Callers : call'[f] = call[f] \/ call'[f] = this
  BY WorkTypes DEF Begins, AwardInv, TermsInv
<1>3. /\ this.pc # "append_outbox"
      /\ this.op = "sign" => deals[d].status = "payment_signature_required"
  BY DEF Begins
<1>4. this.op = "sign" => Shows(log[d], "quote_approved")
  BY <1>3 DEF AwardInv, ApprovedStatus
<1>. QED BY <1>1, <1>2, <1>3, <1>4 DEF AwardInv

\* A task makes no deal approved.
LEMMA TaskWritesAward ==
  ASSUME AwardInv, TermsInv', [Next]_vars, NEW d \in Deals, NEW record, NEW new,
         TaskWrites(d, record, new)
  PROVE  AwardInv'
<1>1. WorkInv /\ OrderInv
  BY DEF AwardInv, TermsInv
<1>2. /\ deals'[d].status \in ApprovedStatus => deals'[d] = deals[d]
      /\ UNCHANGED <<outbox, call>>
      /\ \A f \in Deals \ {d} : deals'[f] = deals[f]
  BY <1>1, TaskWritesRow DEF TaskWrites, ApprovedStatus
<1>3. \A f \in Deals : Grew(log[f], log'[f]) /\ published[f] \subseteq published'[f]
  BY <1>1, JournalKept
<1>4. \A f \in Deals : AwardFits(outbox'[f], published'[f], log'[f])
  BY <1>2, <1>3, AwardRemains DEF AwardInv
<1>5. \A f \in Deals : deals'[f].status \in ApprovedStatus => Shows(log'[f], "quote_approved")
  BY <1>2, <1>3 DEF AwardInv, Grew
<1>6. \A c \in Callers : call[c] # NoCall => call[c].deal \in Deals
  BY <1>1, WorkTypes
<1>7. \A c \in Callers : call'[c] # NoCall =>
        /\ call'[c].op = "sign" => Shows(log'[call'[c].deal], "quote_approved")
        /\ call'[c].pc = "append_outbox" => ApprovedThenSigned(log'[call'[c].deal])
  BY <1>2, <1>3, <1>6 DEF AwardInv, Grew
<1>. QED BY <1>4, <1>5, <1>7 DEF AwardInv

\* Every step of the service.
LEMMA AwardStep ==
  ASSUME HashKnowledge = "shown", AwardInv, [Next]_vars
  PROVE  AwardInv'
<1>0. TermsInv /\ WorkInv /\ TermsInv'
  BY TermsStep DEF AwardInv, TermsInv
<1>1. CASE Crash
  <2>1. UNCHANGED <<deals, log, outbox, published>> /\ \A c \in Callers : call'[c] = NoCall
    BY <1>1 DEF Crash, storeVars
  <2>. QED BY <1>0, <2>1 DEF AwardInv
<1>2. ASSUME UNCHANGED <<deals, log, outbox, published, call>>
      PROVE  AwardInv'
  BY <1>0, <1>2 DEF AwardInv
<1>3. ASSUME \/ Restart
             \/ Rests
             \/ \E d \in Deals : \E new : TaskKeeps(d, new)
      PROVE  UNCHANGED <<deals, log, outbox, published, call>>
  BY <1>3 DEF Restart, Rests, TaskKeeps, storeVars
<1>4. ASSUME NEW d \in Deals, NEW record, NEW new, TaskWrites(d, record, new)
      PROVE  AwardInv'
  BY <1>0, <1>4, TaskWritesAward
<1>5. ASSUME NEW c \in Callers, NEW d \in Deals, NEW this, Begins(c, d, this)
      PROVE  AwardInv'
  BY <1>0, <1>5, BeginsAward
<1>6. ASSUME NEW c \in Callers, NEW row, NEW e,
             Approves(c, row) \/ Declines(c, row, e) \/ Signs(c, row)
      PROVE  AwardInv'
  BY <1>0, <1>6, DecisionsAward
<1>7. ASSUME NEW c \in Callers, NEW next, GoesOn(c, next)
      PROVE  AwardInv'
  BY <1>0, <1>7, GoesOnAward
<1>. QED BY <1>0, <1>1, <1>2, <1>3, <1>4, <1>5, <1>6, <1>7, StepForms

\* For clients that approve what the deal shows, whether they wait for create or not:
\* an award goes to one supplier of the deal, who is not rejected as well, and the
\* journal shows the approval and after it the signature (sign_payment,
\* _append_and_publish_outbox), however often calls are repeated or cut short.
THEOREM AwardsFinal ==
  ASSUME HashKnowledge = "shown"
  PROVE  Spec => []AwardIsFinal
<1>1. AwardInv => AwardIsFinal
  <2>. SUFFICES ASSUME AwardInv, NEW d \in Deals, NEW s \in Suppliers,
                       outbox[d][[type |-> "award", to |-> s]] # "absent"
                PROVE  /\ outbox[d][[type |-> "rejection", to |-> s]] = "absent"
                       /\ \A t \in Suppliers \ {s} :
                            outbox[d][[type |-> "award", to |-> t]] = "absent"
                       /\ \E i \in Logged(d, {"quote_approved"}) :
                            \E j \in Logged(d, {"payment_draft_signed"}) : i < j
    BY DEF AwardIsFinal
  <2>1. /\ AwardFits(outbox[d], published[d], log[d])
        /\ \A p, q \in published[d] : p = q
    BY DEF AwardInv, TermsInv
  <2>2. ApprovedThenSigned(log[d]) /\ \E q \in published[d] : q.supplier = s
    BY <2>1 DEF AwardFits
  <2>3. \A q \in published[d] : q.supplier = s
    BY <2>1, <2>2
  <2>4. /\ outbox[d][[type |-> "rejection", to |-> s]] = "absent"
        /\ \A t \in Suppliers \ {s} : outbox[d][[type |-> "award", to |-> t]] = "absent"
    BY <2>1, <2>3 DEF AwardFits
  <2>5. \E i \in Logged(d, {"quote_approved"}) :
          \E j \in Logged(d, {"payment_draft_signed"}) : i < j
    BY <2>2 DEF ApprovedThenSigned, Logged
  <2>. QED BY <2>4, <2>5
<1>2. AwardInv /\ [Next]_vars => AwardInv'
  BY AwardStep
<1>. QED BY AwardInit, <1>1, <1>2, PTL DEF Spec

-----------------------------------------------------------------------------
(* The documented state machine.                                           *)

LifecycleInv == StandsInv /\ TermsInv

\* A step that changes the row of one deal is a move of that deal.
LEMMA RowMoves ==
  ASSUME NEW d \in Deals, NEW from, NEW to, deals[d].status = from, deals'[d].status = to,
         UNCHANGED outbox, \A e \in Deals \ {d} : deals'[e] = deals[e]
  PROVE  /\ Lifecycle!Move(d, from, to)
         /\ UNCHANGED [e \in Deals |-> Awarded(e)]
<1>1. /\ [e \in Deals |-> deals'[e].status] =
           [[e \in Deals |-> deals[e].status] EXCEPT ![d] = to]
      /\ [e \in Deals |-> deals[e].status][d] = from
  OBVIOUS
<1>. QED BY <1>1 DEF Lifecycle!Move, Awarded

\* A move that leaves the order.
LEMMA SameOrder ==
  ASSUME NEW d \in Deals, NEW from, NEW to, deals[d].status = from, deals'[d].status = to,
         UNCHANGED outbox, \A e \in Deals \ {d} : deals'[e] = deals[e],
         OrderOf(deals'[d]) = OrderOf(deals[d])
  PROVE  /\ Lifecycle!Move(d, from, to)
         /\ UNCHANGED <<[e \in Deals |-> OrderOf(deals[e])], [e \in Deals |-> Awarded(e)]>>
<1>1. [e \in Deals |-> OrderOf(deals'[e])] = [e \in Deals |-> OrderOf(deals[e])]
  OBVIOUS
<1>2. Lifecycle!Move(d, from, to) /\ UNCHANGED [e \in Deals |-> Awarded(e)]
  BY RowMoves
<1>. QED BY <1>1, <1>2 DEF OrderOf

\* A step that changes no row and awards nobody.
LEMMA Stutters ==
  ASSUME \A d \in Deals : deals'[d] = deals[d] /\ AwardedIn(outbox'[d]) = AwardedIn(outbox[d])
  PROVE  UNCHANGED Lifecycle!vars
<1>1. [e \in Deals |-> deals'[e].status] = [e \in Deals |-> deals[e].status]
  OBVIOUS
<1>2. [e \in Deals |-> OrderOf(deals'[e])] = [e \in Deals |-> OrderOf(deals[e])]
  OBVIOUS
<1>3. [e \in Deals |-> AwardedIn(outbox'[e])] = [e \in Deals |-> AwardedIn(outbox[e])]
  OBVIOUS
<1>. QED BY <1>1, <1>2, <1>3 DEF Lifecycle!vars, Awarded, AwardedIn, OrderOf

\* A task submits, offers or fails a draft; the final put changes nothing any more.
LEMMA TaskWritesRefines ==
  ASSUME LifecycleInv, NEW d \in Deals, NEW record, NEW new, TaskWrites(d, record, new)
  PROVE  Lifecycle!Next \/ UNCHANGED Lifecycle!vars
<1>1. /\ WorkInv /\ OrderInv /\ TaskStands(task[d], deals[d])
  BY DEF LifecycleInv, StandsInv
<1>2. /\ deals'[d] = record.row /\ record.row.payment_draft = None /\ UNCHANGED outbox
      /\ \A e \in Deals \ {d} : deals'[e] = deals[e]
  BY <1>1, TaskWritesRow
<1>3. CASE task[d].pc = "final_put" /\ record = RecordFromState(task[d].draft, task[d].state)
  <2>1. deals[d] = record.row
    BY <1>1, <1>3 DEF TaskStands
  <2>. QED BY <1>2, <2>1, Stutters
<1>4. ASSUME NEW from \in {"absent", "draft"}, deals[d].status = from,
             NEW to, record.row.status = to
      PROVE  /\ Lifecycle!Move(d, from, to)
             /\ UNCHANGED <<[e \in Deals |-> OrderOf(deals[e])], [e \in Deals |-> Awarded(e)]>>
  <2>1. deals[d].payment_draft = None
    BY <1>1, <1>4 DEF OrderInv, ApprovedStatus
  <2>2. OrderOf(deals'[d]) = OrderOf(deals[d]) /\ deals'[d].status = to
    BY <1>2, <1>4, <2>1 DEF OrderOf
  <2>. QED BY <1>2, <1>4, <2>2, SameOrder
<1>5. CASE deals[d].status = "absent" /\ record.row.status = "draft"
  <2>1. Lifecycle!Submit(d)
    BY <1>4, <1>5 DEF Lifecycle!Submit
  <2>. QED BY <2>1 DEF Lifecycle!Next
<1>6. CASE deals[d].status = "draft" /\ record.row.status = "awaiting_approval"
  <2>1. Lifecycle!Offer(d)
    BY <1>4, <1>6 DEF Lifecycle!Offer
  <2>. QED BY <2>1 DEF Lifecycle!Next
<1>7. CASE deals[d].status = "draft" /\ record.row.status = "failed"
  <2>1. Lifecycle!Fail(d)
    BY <1>4, <1>7 DEF Lifecycle!Fail
  <2>. QED BY <2>1 DEF Lifecycle!Next
<1>8. CASE deals[d].status = "draft" /\ record.row.status = "draft"
  <2>1. [e \in Deals |-> deals'[e].status] = [e \in Deals |-> deals[e].status]
    BY <1>2, <1>8
  <2>2. UNCHANGED <<[e \in Deals |-> OrderOf(deals[e])], [e \in Deals |-> Awarded(e)]>>
    BY <1>4, <1>8
  <2>. QED BY <2>1, <2>2 DEF Lifecycle!vars
<1>. QED BY <1>3, <1>5, <1>6, <1>7, <1>8 DEF TaskWrites

\* The write of a call is the move of its deal.
LEMMA DecisionsRefine ==
  ASSUME LifecycleInv, LifecycleInv', NEW c \in Callers, NEW row, NEW e,
         Approves(c, row) \/ Declines(c, row, e) \/ Signs(c, row)
  PROVE  Lifecycle!Next
<1>1. /\ WorkInv /\ OrderInv /\ OrderInv' /\ call[c] # NoCall /\ call[c].pc = "put"
      /\ \E x : CallWrites(c, row, x)
  BY DEF LifecycleInv, StandsInv, Approves, Declines, Signs, CallWrites
<1>2. PICK d \in Deals : /\ d = call[c].deal /\ deals'[d] = row /\ UNCHANGED outbox
                         /\ \A f \in Deals \ {d} : deals'[f] = deals[f]
  BY <1>1, CallWritesEffect
<1>3. CallStands(call[c], deals[d])
  BY <1>1, <1>2 DEF LifecycleInv, StandsInv
<1>4. CASE Approves(c, row)
  <2>1. /\ deals[d].status = "awaiting_approval"
        /\ deals'[d].status = "payment_signature_required"
    BY <1>1, <1>2, <1>3, <1>4 DEF Approves, CallStands
  <2>2. row.payment_draft \in PaymentDraft
    BY <1>1, <1>4, WorkTypes DEF Approves, CallReady, Artifacts
  <2>. DEFINE o == OrderOf(deals'[d])
  <2>3. o \in [draft : Lives, quote : Quote]
    BY <1>2, <2>2, NoneAssumption DEF OrderOf, PaymentDraft
  <2>4. [f \in Deals |-> OrderOf(deals'[f])] =
          [[f \in Deals |-> OrderOf(deals[f])] EXCEPT ![d] = o]
    BY <1>2
  <2>5. /\ Lifecycle!Move(d, "awaiting_approval", "payment_signature_required")
        /\ UNCHANGED [f \in Deals |-> Awarded(f)]
    BY <1>2, <2>1, RowMoves
  <2>. HIDE DEF o
  <2>6. Lifecycle!Approve(d)
    BY <2>3, <2>4, <2>5 DEF Lifecycle!Approve, OrderOf
  <2>. QED BY <2>6 DEF Lifecycle!Next
<1>5. CASE Declines(c, row, e)
  <2>. DEFINE to == row.status
  <2>1. /\ deals[d].status = "awaiting_approval" /\ deals'[d].status = to
        /\ to \in {"rejected", "changes_requested"}
    BY <1>1, <1>2, <1>3, <1>5 DEF Declines, CallStands
  <2>2. deals[d].payment_draft = None /\ deals'[d].payment_draft = None
    BY <1>1, <1>2, <2>1 DEF OrderInv, ApprovedStatus
  <2>3. OrderOf(deals'[d]) = OrderOf(deals[d])
    BY <2>2 DEF OrderOf
  <2>. HIDE DEF to
  <2>4. /\ Lifecycle!Move(d, "awaiting_approval", to)
        /\ UNCHANGED <<[f \in Deals |-> OrderOf(deals[f])], [f \in Deals |-> Awarded(f)]>>
    BY <1>2, <2>1, <2>3, SameOrder
  <2>5. Lifecycle!Decline(d)
    BY <2>1, <2>4 DEF Lifecycle!Decline
  <2>. QED BY <2>5 DEF Lifecycle!Next
<1>6. CASE Signs(c, row)
  <2>1. /\ deals[d].status = "payment_signature_required" /\ deals'[d].status = "completed"
        /\ call[c].record.row = deals[d]
    BY <1>1, <1>2, <1>3, <1>6 DEF Signs, CallStands
  <2>2. OrderOf(deals'[d]) = OrderOf(deals[d])
    BY <1>2, <1>6, <2>1, NoneAssumption DEF Signs, OrderOf
  <2>3. /\ Lifecycle!Move(d, "payment_signature_required", "completed")
        /\ UNCHANGED <<[f \in Deals |-> OrderOf(deals[f])], [f \in Deals |-> Awarded(f)]>>
    BY <1>2, <2>1, <2>2, SameOrder
  <2>4. Lifecycle!Sign(d)
    BY <2>3 DEF Lifecycle!Sign
  <2>. QED BY <2>4 DEF Lifecycle!Next
<1>. QED BY <1>4, <1>5, <1>6

\* The one award of a deal, or nothing a client of the lifecycle sees.
LEMMA GoesOnRefines ==
  ASSUME LifecycleInv, LifecycleInv', NEW c \in Callers, NEW next, GoesOn(c, next)
  PROVE  Lifecycle!Next \/ UNCHANGED Lifecycle!vars
<1>. DEFINE d == call[c].deal
<1>1. /\ WorkInv /\ StoreTypeOK /\ d \in Deals /\ UNCHANGED deals
  BY WorkTypes DEF LifecycleInv, StandsInv, GoesOn
<1>2. \A e \in Deals \ {d} : AwardedIn(outbox'[e]) = AwardedIn(outbox[e])
  BY <1>1, OutboxKept DEF GoesOn
<1>3. AwardedIn(outbox[d]) \subseteq AwardedIn(outbox'[d])
  BY <1>1, OutboxKept, TypedMessages DEF GoesOn, AwardedIn
<1>4. CASE AwardedIn(outbox'[d]) = AwardedIn(outbox[d])
  BY <1>1, <1>2, <1>4, Stutters
<1>5. CASE AwardedIn(outbox'[d]) # AwardedIn(outbox[d])
  <2>1. /\ RowStands(deals[d], log[d], issued[d], outbox[d])
        /\ RowStands(deals'[d], log'[d], issued'[d], outbox'[d])
        /\ OrderInv /\ RowTerms(deals[d], published[d], ledger[d])
        /\ \A p, q \in published[d] : p = q
    BY <1>1 DEF LifecycleInv, StandsInv, TermsInv
  <2>2. deals[d].status = "completed" /\ deals'[d] = deals[d]
    BY <1>1, <1>3, <1>5, <2>1 DEF RowStands
  <2>3. /\ deals[d].payment_draft # None
        /\ deals[d].payment_draft.quote = deals[d].selected_quote
    BY <1>1, <2>1, <2>2 DEF OrderInv, ApprovedStatus, RowTerms
  <2>4. OrderOf(deals[d]).quote = deals[d].selected_quote
    BY <2>3 DEF OrderOf
  <2>5. AwardedIn(outbox'[d]) = {OrderOf(deals[d]).quote.supplier}
    <3>. DEFINE before == AwardedIn(outbox[d])
                after == AwardedIn(outbox'[d])
                s == deals[d].selected_quote.supplier
    <3>1. after \subseteq {s} /\ before \subseteq after /\ before # after
      BY <1>3, <1>5, <2>1, <2>2 DEF RowStands
    <3>. HIDE DEF before, after, s
    <3>2. after = {s}
      BY <3>1
    <3>. QED BY <2>4, <3>2 DEF after, s
  <2>. HIDE DEF d
  <2>6. /\ [e \in Deals |-> AwardedIn(outbox'[e])] =
             [[e \in Deals |-> AwardedIn(outbox[e])]
                EXCEPT ![d] = {[e \in Deals |-> OrderOf(deals[e])][d].quote.supplier}]
        /\ [e \in Deals |-> deals[e].status][d] = "completed"
    BY <1>1, <1>2, <2>2, <2>5
  <2>7. Lifecycle!Award(d)
    BY <1>1, <2>6 DEF Lifecycle!Award, Awarded, AwardedIn, OrderOf
  <2>. QED BY <1>1, <2>7 DEF Lifecycle!Next
<1>. QED BY <1>4, <1>5

\* Every step of the service is one of the lifecycle or none.
LEMMA LifecycleStep ==
  ASSUME LifecycleInv, LifecycleInv', [Next]_vars
  PROVE  Lifecycle!Next \/ UNCHANGED Lifecycle!vars
<1>0. WorkInv
  BY DEF LifecycleInv, StandsInv
<1>1. ASSUME UNCHANGED <<deals, outbox>>
      PROVE  UNCHANGED Lifecycle!vars
  BY <1>1, Stutters
<1>2. ASSUME \/ Crash
             \/ Restart
             \/ Rests
             \/ \E d \in Deals : \E new : TaskKeeps(d, new)
             \/ \E c \in Callers : \E d \in Deals : \E this : Begins(c, d, this)
      PROVE  UNCHANGED <<deals, outbox>>
  BY <1>2 DEF Crash, Restart, Rests, TaskKeeps, Begins, storeVars
<1>3. ASSUME NEW d \in Deals, NEW record, NEW new, TaskWrites(d, record, new)
      PROVE  Lifecycle!Next \/ UNCHANGED Lifecycle!vars
  BY <1>3, TaskWritesRefines
<1>4. ASSUME NEW c \in Callers, NEW row, NEW e,
             Approves(c, row) \/ Declines(c, row, e) \/ Signs(c, row)
      PROVE  Lifecycle!Next
  BY <1>4, DecisionsRefine
<1>5. ASSUME NEW c \in Callers, NEW next, GoesOn(c, next)
      PROVE  Lifecycle!Next \/ UNCHANGED Lifecycle!vars
  BY <1>5, GoesOnRefines
<1>. QED BY <1>0, <1>1, <1>2, <1>3, <1>4, <1>5, StepForms

\* For clients that wait for create and approve what the deal shows, the service
\* with its tasks, calls, lock, outbox, ledger, crashes and restarts implements the
\* documented state machine: forward moves only, one decision, one order that never
\* changes afterwards, and an award to the supplier of that order alone
\* (DealService, docs/ARCHITECTURE.md).
THEOREM ServiceImplementsLifecycle ==
  ASSUME Synchronous, HashKnowledge = "shown"
  PROVE  Spec => ImplementsLifecycle
<1>1. Init => LifecycleInv
  BY StandsInit, TermsInit DEF LifecycleInv
<1>2. LifecycleInv /\ [Next]_vars => LifecycleInv'
  BY StandsStep, TermsStep DEF LifecycleInv
<1>3. Init => Lifecycle!Init
  <2>. SUFFICES ASSUME Init
                PROVE  Lifecycle!Init
    OBVIOUS
  <2>1. \A d \in Deals : /\ deals[d].status = "absent" /\ deals[d].payment_draft = None
                         /\ outbox[d] = [m \in Message |-> "absent"]
    BY DEF Init, StoreInit, NoRecord, EmptyRow
  <2>2. \A d \in Deals : Awarded(d) = {} /\ OrderOf(deals[d]) = None
    BY <2>1, TypedMessages DEF Awarded, OrderOf
  <2>. QED BY <2>1, <2>2 DEF Lifecycle!Init
<1>4. LifecycleInv /\ LifecycleInv' /\ [Next]_vars => [Lifecycle!Next]_(Lifecycle!vars)
  BY LifecycleStep
<1>. QED BY <1>1, <1>2, <1>3, <1>4, PTL DEF Spec, ImplementsLifecycle, Lifecycle!Spec

-----------------------------------------------------------------------------
(* The stream of the journal.                                              *)

\* A step that puts the events of a record of deal d, if it writes the journal.
JournalGrows(d) ==
  \/ UNCHANGED log
  \/ \E events \in Seq(Event) :
       log' = [log EXCEPT ![d] = @ \o NewEvents(@, events)]

\* What has been sent is the beginning of the journal.
Beginning(sent, journal) ==
  Len(sent) <= Len(journal) /\ sent = SubSeq(journal, 1, Len(sent))

\* A watcher without a deal was sent nothing, and the position of an open
\* stream is the number of the last event its watcher was sent.
PositionsHold ==
  \A w \in Watchers :
    /\ view[w].deal = None => view[w].events = << >>
    /\ stream[w].open => /\ view[w].deal # None
                         /\ stream[w].position = Len(view[w].events)

StreamInv == TypeInv /\ StreamTypeOK /\ StreamFollowsJournal /\ PositionsHold

-----------------------------------------------------------------------------
(* The journal.                                                            *)

LEMMA PutGrows ==
  ASSUME NEW d \in Deals, NEW record, record.events \in Seq(Event), Put(d, record)
  PROVE  JournalGrows(d)
BY DEF Put, JournalGrows

LEMMA EventAppended ==
  ASSUME NEW events \in Seq(Event), NEW e \in Event
  PROVE  Append(events, e) \in Seq(Event)
OBVIOUS

\* Every node appends an event to those of the state.
LEMMA NodesAppend ==
  ASSUME NEW state, state.events \in Seq(Event), NEW live, NEW answered, NEW n,
         NEW eligible, NEW best
  PROVE  /\ ValidateMandate(state, live).events \in Seq(Event)
         /\ DiscoverSuppliers(state).events \in Seq(Event)
         /\ RequestQuotes(state, answered, n).events \in Seq(Event)
         /\ Rank(state, eligible, best).events \in Seq(Event)
         /\ Explain(state).events \in Seq(Event)
         /\ Finalize(state).events \in Seq(Event)
<1>1. ASSUME NEW e \in Event, NEW row
      PROVE  After(state, e, row).events \in Seq(Event)
  BY EventAppended DEF After
<1>2. /\ "mandate_validated" \in Event /\ "suppliers_discovered" \in Event
      /\ "quotes_collected" \in Event /\ "quotes_ranked" \in Event
      /\ "comparison_explained" \in Event /\ "workflow_completed" \in Event
  BY DEF Event
<1>. QED BY <1>1, <1>2 DEF ValidateMandate, DiscoverSuppliers, RequestQuotes, Rank, Explain,
      Finalize

LEMMA EmitGrows ==
  ASSUME NEW d \in Deals, NEW draft, NEW state, state.events \in Seq(Event), NEW next,
         Emit(d, draft, state, next)
  PROVE  JournalGrows(d)
<1>1. RecordFromState(draft, state).events = state.events
  BY DEF RecordFromState
<1>. QED BY <1>1, PutGrows DEF Emit

LEMMA TaskGrows ==
  ASSUME ServiceInv, NEW d \in Deals, TaskStep(d)
  PROVE  JournalGrows(d)
<1>. DEFINE this == task[d]
<1>1. this.state.events \in Seq(Event) /\ this.draft.events \in Seq(Event)
  BY DEF ServiceInv, TypeOK, Task, DealRecord
<1>2. CASE StartProcess(d)
  <2>1. Get(d).events \in Seq(Event)
    BY DEF Get, ServiceInv, TypeOK, StoreTypeOK
  <2>. QED BY <1>2, <2>1, EmitGrows DEF StartProcess
<1>3. ASSUME NEW node, NEW state, state.events \in Seq(Event), NEW next,
             NodeStep(d, node, state, next)
      PROVE  JournalGrows(d)
  BY <1>3, EmitGrows DEF NodeStep
<1>4. CASE Validate(d)
  BY <1>1, <1>3, <1>4, NodesAppend DEF Validate
<1>5. CASE Discover(d)
  BY <1>1, <1>3, <1>5, NodesAppend DEF Discover
<1>6. CASE CollectQuotes(d)
  BY <1>1, <1>6, NodesAppend, EmitGrows DEF CollectQuotes
<1>7. CASE RankQuotes(d)
  BY <1>1, <1>3, <1>7, NodesAppend DEF RankQuotes
<1>8. CASE RankRaises(d)
  BY <1>8 DEF RankRaises, storeVars, JournalGrows
<1>9. CASE ExplainComparison(d)
  BY <1>1, <1>3, <1>9, NodesAppend DEF ExplainComparison
<1>10. CASE FinalizeWorkflow(d)
  BY <1>1, <1>3, <1>10, NodesAppend DEF FinalizeWorkflow
<1>11. CASE FinalPut(d)
  <2>1. RecordFromState(this.draft, this.state).events = this.state.events
    BY DEF RecordFromState
  <2>. QED BY <1>1, <1>11, <2>1, PutGrows DEF FinalPut
<1>12. CASE FailedPut(d)
  <2>1. FailedRecord(this.draft).events \in Seq(Event)
    BY <1>1, EventAppended DEF FailedRecord, Event
  <2>. QED BY <1>12, <2>1, PutGrows DEF FailedPut
<1>. QED BY <1>2, <1>4, <1>5, <1>6, <1>7, <1>8, <1>9, <1>10, <1>11, <1>12 DEF TaskStep

LEMMA CallGrows ==
  ASSUME ServiceInv, NEW c \in Callers, CallStep(c)
  PROVE  UNCHANGED log \/ \E d \in Deals : JournalGrows(d)
<1>. DEFINE this == call[c]
<1>1. ASSUME NEW record, record.events \in Seq(Event), Put(this.deal, record), this.pc # "idle"
      PROVE  \E d \in Deals : JournalGrows(d)
  <2>1. this.deal \in Deals
    BY <1>1, BusyCall DEF CallReady
  <2>. QED BY <1>1, <2>1, PutGrows
<1>2. ASSUME this.pc # "idle"
      PROVE  this.record.events \in Seq(Event)
  BY <1>2, BusyCall
<1>3. "human_reject" \in Event /\ "human_request_changes" \in Event
  BY DEF Event
<1>4. CASE PutApproval(c)
  <2>1. this.pc # "idle" /\ Put(this.deal, ApprovedRecord(this.record, this.quote, this.artifacts))
    BY <1>4 DEF PutApproval
  <2>2. ApprovedRecord(this.record, this.quote, this.artifacts).events \in Seq(Event)
    BY <1>2, <2>1, ApprovalBatch, Joined DEF ApprovedRecord
  <2>. QED BY <1>1, <2>1, <2>2
<1>5. CASE PutDecision(c)
  <2>1. this.pc # "idle" /\ Put(this.deal, DecidedRecord(this.record, this.op, this.quote))
    BY <1>5 DEF PutDecision
  <2>2. DecidedRecord(this.record, this.op, this.quote).events \in Seq(Event)
    BY <1>2, <1>3, <2>1, EventAppended DEF DecidedRecord
  <2>. QED BY <1>1, <2>1, <2>2
<1>6. CASE PutSigned(c)
  <2>1. this.pc # "idle" /\ Put(this.deal, SignedRecord(this.record))
    BY <1>6 DEF PutSigned
  <2>2. SignedRecord(this.record).events \in Seq(Event)
    BY <1>2, <2>1, SignatureBatch, Joined DEF SignedRecord, SignatureEvents
  <2>. QED BY <1>1, <2>1, <2>2
<1>7. CASE \/ AnchorIntent(c) \/ CreateDraft(c) \/ RefusePurchase(c)
           \/ QueueMessages(c) \/ MarkPublished(c)
  BY <1>7 DEF AnchorIntent, CreateDraft, RefusePurchase, QueueMessages, MarkPublished,
     AppendOutbox, MarkOutboxPublished, storeVars
<1>. QED BY <1>4, <1>5, <1>6, <1>7 DEF CallStep

LEMMA NextGrows ==
  ASSUME ServiceInv, Next
  PROVE  UNCHANGED log \/ \E d \in Deals : JournalGrows(d)
<1>1. ASSUME NEW d \in Deals, NEW request \in Requests, Submit(d, request)
      PROVE  JournalGrows(d)
  <2>1. <<"deal_created">> \in Seq(Event)
    BY DEF Event
  <2>. QED BY <1>1, <2>1, PutGrows DEF Submit
<1>2. ASSUME NEW d \in Deals, TaskFault(d) \/ \E what \in Lapses : Lapse(d, what)
      PROVE  UNCHANGED log
  BY <1>2 DEF TaskFault, Lapse, storeVars
<1>3. ASSUME NEW c \in Callers,
             \/ \E d \in Deals :
                  \/ BeginApprove(c, d)
                  \/ \E decision \in {"reject", "request_changes"} : BeginDecide(c, d, decision)
                  \/ BeginSign(c, d)
             \/ CallFault(c)
      PROVE  UNCHANGED log
  BY <1>3 DEF BeginApprove, BeginDecide, BeginSign, CallFault, storeVars
<1>4. CASE Crash \/ Restart
  BY <1>4 DEF Crash, Restart, storeVars
<1>. QED BY <1>1, <1>2, <1>3, <1>4, TaskGrows, CallGrows DEF Next

\* What was the beginning of a journal stays it.
LEMMA BeginningStays ==
  ASSUME NEW sent \in Seq(Event), NEW journal \in Seq(Event), Beginning(sent, journal),
         NEW more \in Seq(Event)
  PROVE  Beginning(sent, journal \o more)
BY DEF Beginning

LEMMA BeginningsStay ==
  ASSUME ServiceInv, Next, NEW e \in Deals, NEW sent \in Seq(Event), Beginning(sent, log[e])
  PROVE  Beginning(sent, log'[e])
<1>1. CASE UNCHANGED log
  BY <1>1
<1>2. ASSUME NEW d \in Deals, NEW events \in Seq(Event),
             log' = [log EXCEPT ![d] = @ \o NewEvents(@, events)]
      PROVE  Beginning(sent, log'[e])
  <2>1. log \in [Deals -> Seq(Event)]
    BY DEF ServiceInv, TypeOK, StoreTypeOK
  <2>2. log[d] \in Seq(Event) /\ NewEvents(log[d], events) \in Seq(Event)
    BY <2>1 DEF NewEvents
  <2>3. log'[e] = IF e = d THEN log[d] \o NewEvents(log[d], events) ELSE log[e]
    BY <1>2, <2>1
  <2>. QED BY <2>2, <2>3, BeginningStays
<1>. QED BY <1>1, <1>2, NextGrows DEF JournalGrows

-----------------------------------------------------------------------------
(* The streams.                                                            *)

\* A round sends all that is left of the journal.
LEMMA RoundCompletes ==
  ASSUME NEW sent \in Seq(Event), NEW journal \in Seq(Event), Beginning(sent, journal)
  PROVE  /\ sent \o SubSeq(journal, Len(sent) + 1, Len(journal)) = journal
         /\ Len(sent) + Len(SubSeq(journal, Len(sent) + 1, Len(journal))) = Len(journal)
BY DEF Beginning

LEMMA BeginningOfItself ==
  ASSUME NEW journal \in Seq(Event)
  PROVE  Beginning(journal, journal) /\ Beginning(<< >>, journal)
BY DEF Beginning

LEMMA ViewsBegin ==
  StreamFollowsJournal <=>
    \A w \in Watchers : view[w].deal # None => Beginning(view[w].events, log[view[w].deal])
BY DEF StreamFollowsJournal, Beginning

LEMMA StreamBegins == StreamInit => StreamInv
<1>. SUFFICES ASSUME StreamInit PROVE StreamInv
  OBVIOUS
<1>1. TypeInv
  BY TypeInit DEF StreamInit
<1>2. StreamTypeOK
  BY <1>1 DEF StreamInit, StreamTypeOK, TypeInv, ServiceInv, Stream, View, Closed
<1>3. PositionsHold /\ StreamFollowsJournal
  BY DEF StreamInit, Closed, PositionsHold, StreamFollowsJournal
<1>. QED BY <1>1, <1>2, <1>3 DEF StreamInv

\* The stream and the view of every watcher.
LEMMA WatcherFields ==
  ASSUME StreamInv, NEW w \in Watchers
  PROVE  /\ stream[w] \in Stream /\ stream[w].position \in Nat /\ stream[w].open \in BOOLEAN
         /\ view[w] \in View /\ view[w].deal \in Deals \cup {None}
         /\ view[w].events \in Seq(Event)
         /\ view[w].deal # None =>
              /\ log[view[w].deal] \in Seq(Event)
              /\ Beginning(view[w].events, log[view[w].deal])
<1>1. view[w] \in View /\ stream[w] \in Stream
  BY DEF StreamInv, StreamTypeOK
<1>2. log \in [Deals -> Seq(Event)]
  BY DEF StreamInv, TypeInv, ServiceInv, TypeOK, StoreTypeOK
<1>. QED BY <1>1, <1>2, ViewsBegin DEF StreamInv, View, Stream

\* A step of one watcher: what is new is the stream and the view it gets.
LEMMA WatcherStep ==
  ASSUME StreamInv, NEW w \in Watchers, NEW newStream \in Stream, NEW newView \in View,
         stream' = [stream EXCEPT ![w] = newStream],
         view' = [view EXCEPT ![w] = newView],
         UNCHANGED vars,
         newView.deal = None => newView.events = << >>,
         newStream.open => newView.deal # None /\ newStream.position = Len(newView.events),
         newView.deal # None => Beginning(newView.events, log[newView.deal])
  PROVE  StreamInv'
<1>1. TypeInv' /\ TypeOK'
  BY TypeStep DEF StreamInv, TypeInv, ServiceInv
<1>2. log' = log
  BY DEF vars, storeVars
<1>3. /\ stream' \in [Watchers -> Stream] /\ view' \in [Watchers -> View]
      /\ stream'[w] = newStream /\ view'[w] = newView
      /\ \A v \in Watchers \ {w} : stream'[v] = stream[v] /\ view'[v] = view[v]
  BY DEF StreamInv, StreamTypeOK
<1>4. StreamTypeOK'
  BY <1>1, <1>3 DEF StreamTypeOK
<1>5. PositionsHold'
  BY <1>3 DEF StreamInv, PositionsHold
<1>6. StreamFollowsJournal'
  <2>1. \A v \in Watchers : view'[v].deal # None => Beginning(view'[v].events, log[view'[v].deal])
    BY <1>3, ViewsBegin DEF StreamInv
  <2>. QED BY <1>2, <2>1 DEF Beginning, StreamFollowsJournal
<1>. QED BY <1>1, <1>4, <1>5, <1>6 DEF StreamInv

LEMMA OpenHolds ==
  ASSUME StreamInv, NEW w \in Watchers, NEW d \in Deals, Open(w, d)
  PROVE  StreamInv'
<1>. DEFINE newStream == [open |-> TRUE, position |-> Len(view[w].events)]
            newView == [view[w] EXCEPT !.deal = d]
<1>1. /\ view[w] \in View /\ view[w].events \in Seq(Event) /\ d # None
      /\ view[w].deal \in {None, d} /\ log[d] \in Seq(Event)
  BY WatcherFields, NoneAssumption DEF Open, StreamInv, TypeInv, ServiceInv, TypeOK, StoreTypeOK
<1>2. newStream \in Stream /\ newStream.open /\ newStream.position = Len(view[w].events)
  BY <1>1 DEF Stream
<1>3. newView \in View /\ newView.deal = d /\ newView.events = view[w].events
  BY <1>1 DEF View
<1>4. Beginning(newView.events, log[newView.deal])
  <2>1. CASE view[w].deal = None
    <3>1. view[w].events = << >>
      BY <2>1 DEF StreamInv, PositionsHold
    <3>. QED BY <1>1, <1>3, <3>1, BeginningOfItself
  <2>2. CASE view[w].deal = d
    BY <1>1, <1>3, <2>2, WatcherFields
  <2>. QED BY <1>1, <2>1, <2>2
<1>5. /\ stream' = [stream EXCEPT ![w] = newStream]
      /\ view' = [view EXCEPT ![w] = newView]
      /\ UNCHANGED vars
  BY DEF Open
<1>. HIDE DEF newStream, newView
<1>. QED BY <1>1, <1>2, <1>3, <1>4, <1>5, WatcherStep

LEMMA PollHolds ==
  ASSUME StreamInv, NEW w \in Watchers, Poll(w)
  PROVE  StreamInv'
<1>. DEFINE d == view[w].deal
            events == Beyond(d, stream[w].position)
            newStream == [open |-> ~Ends(deals[d].status),
                          position |-> Advance(stream[w].position, events)]
            newView == [view[w] EXCEPT !.events = view[w].events \o events]
<1>1. /\ view[w] \in View /\ view[w].events \in Seq(Event) /\ d # None /\ d \in Deals
      /\ log[d] \in Seq(Event) /\ stream[w].position = Len(view[w].events)
      /\ Beginning(view[w].events, log[d])
  BY WatcherFields DEF Poll, StreamInv, PositionsHold
<1>2. /\ view[w].events \o events = log[d]
      /\ Advance(stream[w].position, events) = Len(log[d])
  BY <1>1, RoundCompletes DEF Beyond, Advance
<1>3. newStream \in Stream /\ newStream.position = Len(log[d])
  BY <1>1, <1>2 DEF Stream
<1>4. newView \in View /\ newView.deal = d /\ newView.events = log[d]
  BY <1>1, <1>2 DEF View
<1>5. /\ stream' = [stream EXCEPT ![w] = newStream]
      /\ view' = [view EXCEPT ![w] = newView]
      /\ UNCHANGED vars
  BY DEF Poll
<1>. HIDE DEF newStream, newView, d
<1>. QED BY <1>1, <1>3, <1>4, <1>5, BeginningOfItself, WatcherStep

LEMMA DisconnectHolds ==
  ASSUME StreamInv, NEW w \in Watchers, Disconnect(w)
  PROVE  StreamInv'
<1>1. /\ view[w] \in View /\ view' = [view EXCEPT ![w] = view[w]]
      /\ view[w].deal # None => Beginning(view[w].events, log[view[w].deal])
  BY WatcherFields DEF Disconnect, StreamInv, StreamTypeOK
<1>2. Closed \in Stream /\ ~Closed.open
  BY DEF Closed, Stream
<1>3. /\ view[w].deal = None => view[w].events = << >>
      /\ stream' = [stream EXCEPT ![w] = Closed] /\ UNCHANGED vars
  BY DEF Disconnect, StreamInv, PositionsHold
<1>. QED BY <1>1, <1>2, <1>3, WatcherStep

LEMMA ServiceHolds ==
  ASSUME StreamInv, ServiceStep
  PROVE  StreamInv'
<1>1. ServiceInv /\ Next /\ view' = view
  BY DEF ServiceStep, StreamInv, TypeInv
<1>2. TypeInv' /\ TypeOK'
  BY <1>1, TypeStep DEF StreamInv, TypeInv, ServiceInv
<1>3. stream' \in [Watchers -> Stream]
  BY DEF ServiceStep, StreamInv, StreamTypeOK, Closed, Stream
<1>4. StreamTypeOK'
  BY <1>1, <1>2, <1>3 DEF StreamInv, StreamTypeOK
<1>5. PositionsHold'
  <2>1. \A w \in Watchers : stream'[w].open => stream'[w] = stream[w]
    BY DEF ServiceStep, Closed
  <2>. QED BY <1>1, <2>1 DEF StreamInv, PositionsHold
<1>6. StreamFollowsJournal'
  <2>1. \A w \in Watchers :
          view[w].deal # None => Beginning(view[w].events, log'[view[w].deal])
    BY <1>1, WatcherFields, BeginningsStay
  <2>. QED BY <1>1, <2>1 DEF Beginning, StreamFollowsJournal
<1>. QED BY <1>2, <1>4, <1>5, <1>6 DEF StreamInv

LEMMA StreamStep == StreamInv /\ [StreamNext]_allVars => StreamInv'
<1>. SUFFICES ASSUME StreamInv, [StreamNext]_allVars PROVE StreamInv'
  OBVIOUS
<1>1. CASE ServiceStep
  BY <1>1, ServiceHolds
<1>2. ASSUME NEW w \in Watchers, (\E d \in Deals : Open(w, d)) \/ Poll(w) \/ Disconnect(w)
      PROVE  StreamInv'
  BY <1>2, OpenHolds, PollHolds, DisconnectHolds
<1>3. CASE UNCHANGED allVars
  <2>1. TypeInv'
    BY <1>3, TypeStep DEF allVars, StreamInv
  <2>2. log' = log /\ view' = view /\ stream' = stream
    BY <1>3 DEF allVars, vars, storeVars, streamVars
  <2>. QED BY <2>1, <2>2 DEF StreamInv, StreamTypeOK, StreamFollowsJournal, PositionsHold,
        TypeInv, ServiceInv
<1>. QED BY <1>1, <1>2, <1>3 DEF StreamNext

\* What a watcher has been sent, over all its streams and across crashes of the
\* server, is the beginning of the journal of its deal (stream_deal_events).
THEOREM StreamsFollow == StreamSpec => []StreamFollowsJournal
<1>1. StreamInv => StreamFollowsJournal
  BY DEF StreamInv
<1>. QED BY <1>1, StreamBegins, StreamStep, PTL DEF StreamSpec
=============================================================================
