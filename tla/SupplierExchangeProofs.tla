----------------------- MODULE SupplierExchangeProofs -----------------------
(***************************************************************************)
(* Proofs about SupplierExchange, for any suppliers, any number of         *)
(* attempts and any lifetime of envelopes.                                 *)
(***************************************************************************)
EXTENDS SupplierExchange, FiniteSetTheorems, TLAPS

\* What a message on its way says of the clock and of its sender.
MessagesInTime ==
  \A m \in net :
    /\ m.kind = "rfq" => m.at = m.asked
    /\ m.kind = "quote" => m.at < m.asked + TTL /\ m.supplier \in Sellers

\* A call that ended with a quote holds one of this life, made by its supplier.
CallsHoldQuotes ==
  \A s \in Suppliers : call[s].pc = "quote" =>
    /\ call[s].taken # None
    /\ call[s].taken.quote.life = life
    /\ s \in Sellers

\* The attempt under way is the one after the failures so far.
FailuresCounted ==
  \A s \in Suppliers :
    /\ call[s].pc \in {"idle", "send", "waiting"} => failures[s] + 1 = call[s].attempt
    /\ call[s].pc = "idle" => call[s].attempt = 1

\* Nothing is collected, and before asking nothing is under way.
PhaseInv ==
  /\ phase # "collected" => batch = None
  /\ phase = "before" => \A s \in Suppliers : call[s].pc = "idle"

Inv ==
  /\ TypeOK
  /\ MessagesInTime
  /\ QuoteIsFresh
  /\ RetriesMaskFailures
  /\ CallsHoldQuotes
  /\ FailuresCounted
  /\ PhaseInv

-----------------------------------------------------------------------------
LEMMA IdleType == Idle \in Call
BY ExchangeAssumption DEF Idle, Call, Attempts

LEMMA InitInv == Init => Inv
<1>. SUFFICES ASSUME Init PROVE Inv
  OBVIOUS
<1>1. TypeOK
  BY IdleType, ExchangeAssumption DEF Init, TypeOK, Time, Lives
<1>2. QuoteIsFresh /\ RetriesMaskFailures /\ CallsHoldQuotes /\ FailuresCounted
  BY DEF Init, QuoteIsFresh, RetriesMaskFailures, CallsHoldQuotes, FailuresCounted, Idle
<1>. QED BY <1>1, <1>2 DEF Init, Inv, MessagesInTime, PhaseInv, Idle

LEMMA BeginInv ==
  ASSUME Inv, NEW asked \in SUBSET Suppliers, Ask(asked)
  PROVE  Inv'
<1>. DEFINE sending == [Idle EXCEPT !.pc = "send"]
<1>1. sending \in Call
  BY IdleType DEF Call
<1>2. /\ sending = [pc |-> "send", attempt |-> 1, taken |-> None]
      /\ \A s \in Suppliers : call'[s] = IF s \in asked THEN sending ELSE Idle
  BY DEF Ask, Idle
<1>3. TypeOK'
  BY <1>1, IdleType DEF Inv, TypeOK, Ask
<1>4. \A s \in Suppliers : failures'[s] = 0
  BY ExchangeAssumption DEF Inv, TypeOK, FailuresCounted, PhaseInv, Ask
<1>5. (QuoteIsFresh /\ RetriesMaskFailures /\ CallsHoldQuotes /\ FailuresCounted)'
  BY <1>2, <1>4 DEF QuoteIsFresh, RetriesMaskFailures, CallsHoldQuotes, FailuresCounted, Idle
<1>. QED BY <1>3, <1>5 DEF Inv, MessagesInTime, PhaseInv, Ask

LEMMA SendInv ==
  ASSUME Inv, NEW s \in Suppliers, Send(s)
  PROVE  Inv'
<1>. DEFINE rfq == [supplier |-> s, life |-> life, attempt |-> call[s].attempt,
                    kind |-> "rfq", asked |-> now, at |-> now]
<1>0. call[s] \in Call /\ life \in Lives /\ now \in Time
  BY DEF Inv, TypeOK
<1>1. rfq \in Message
  BY <1>0 DEF Message, Call
<1>2. /\ call'[s] = [call[s] EXCEPT !.pc = "waiting"]
      /\ \A t \in Suppliers \ {s} : call'[t] = call[t]
      /\ net' = net \cup {rfq}
      /\ UNCHANGED <<now, life, phase, batch, made, failures>>
  BY DEF Send, Inv, TypeOK
<1>3. call' \in [Suppliers -> Call]
  <2>1. [call[s] EXCEPT !.pc = "waiting"] \in Call
    BY <1>0 DEF Call
  <2>. QED BY <2>1 DEF Send, Inv, TypeOK
<1>4. TypeOK'
  BY <1>1, <1>2, <1>3 DEF Inv, TypeOK
<1>5. MessagesInTime'
  BY <1>2 DEF Inv, MessagesInTime
<1>6. /\ call'[s].pc = "waiting" /\ call[s].pc = "send"
      /\ call'[s].attempt = call[s].attempt
      /\ call'[s].taken = call[s].taken
  BY <1>0, <1>2 DEF Call, Send
<1>7. (QuoteIsFresh /\ RetriesMaskFailures /\ CallsHoldQuotes /\ FailuresCounted)'
  <2>1. ASSUME NEW t \in Suppliers
        PROVE  /\ call'[t].pc = call[t].pc \/ (call[t].pc = "send" /\ call'[t].pc = "waiting")
               /\ call'[t].attempt = call[t].attempt
               /\ call'[t].taken = call[t].taken
    <3>1. CASE t = s
      BY <3>1, <1>6
    <3>2. CASE t # s
      <4>1. call'[t] = call[t]
        BY <3>2, <1>2, Zenon
      <4>. QED BY <4>1
    <3>. QED BY <3>1, <3>2
  <2>2. QuoteIsFresh'
    BY <2>1 DEF Inv, QuoteIsFresh
  <2>3. (RetriesMaskFailures /\ CallsHoldQuotes)'
    BY <1>2, <2>1 DEF Inv, RetriesMaskFailures, CallsHoldQuotes
  <2>4. FailuresCounted'
    BY <1>2, <2>1 DEF Inv, FailuresCounted
  <2>. QED BY <2>2, <2>3, <2>4
<1>8. PhaseInv'
  BY <1>2, <1>6 DEF Inv, PhaseInv
<1>. QED BY <1>4, <1>5, <1>7, <1>8 DEF Inv

LEMMA ReceiveInv ==
  ASSUME Inv, NEW s \in Suppliers, NEW m \in net, Receive(s, m)
  PROVE  Inv'
<1>. DEFINE taken == IF m.kind = "quote" THEN [quote |-> m, at |-> now] ELSE None
<1>0. call[s] \in Call /\ now \in Time /\ m \in Message
  BY DEF Inv, TypeOK
<1>1. taken \in Taken \cup {None}
  BY <1>0 DEF Taken
<1>2. /\ call'[s] = [pc |-> m.kind, attempt |-> call[s].attempt, taken |-> taken]
      /\ \A t \in Suppliers \ {s} : call'[t] = call[t]
      /\ net' = net \ {m}
      /\ UNCHANGED <<now, life, phase, batch, made, failures>>
  <2>. HIDE DEF taken
  <2>1. call' = [call EXCEPT ![s].pc = m.kind, ![s].taken = taken]
    BY DEF Receive, taken
  <2>. QED BY <1>0, <2>1 DEF Receive, Inv, TypeOK, Call
<1>3. m.kind \in {"no_quote", "quote"} /\ m.supplier = s /\ m.life = life
  BY DEF Receive, Current
<1>4. TypeOK'
  <2>1. call'[s] \in Call
    BY <1>0, <1>1, <1>2, <1>3 DEF Call
  <2>2. call' \in [Suppliers -> Call]
    BY <1>2, <2>1 DEF Receive, Inv, TypeOK
  <2>. QED BY <1>2, <2>2 DEF Inv, TypeOK
<1>5. QuoteIsFresh'
  <2>1. SUFFICES ASSUME m.kind = "quote"
                 PROVE  now < m.asked + 2 * TTL
    BY <1>2, <1>3 DEF QuoteIsFresh, Inv
  <2>2. now < m.at + TTL
    BY <1>0, <2>1, ExchangeAssumption DEF Receive, Expired, Message, Time
  <2>3. m.at < m.asked + TTL
    BY <2>1 DEF Inv, MessagesInTime
  <2>. QED BY <1>0, <2>2, <2>3, ExchangeAssumption DEF Message, Time
<1>6. CallsHoldQuotes'
  <2>1. call'[s].pc = "quote" =>
          call'[s].taken # None /\ call'[s].taken.quote.life = life /\ s \in Sellers
    <3>1. SUFFICES ASSUME m.kind = "quote"
                   PROVE  taken # None /\ taken.quote.life = life /\ s \in Sellers
      BY <1>2
    <3>2. taken = [quote |-> m, at |-> now]
      BY <3>1
    <3>3. taken \in Taken
      BY <1>0, <3>2 DEF Taken
    <3>4. taken.quote = m
      BY <3>2
    <3>5. s \in Sellers
      BY <1>3, <3>1 DEF Inv, MessagesInTime
    <3>. QED BY <1>3, <3>3, <3>4, <3>5, NoneAssumption
  <2>. QED BY <1>2, <2>1 DEF Inv, CallsHoldQuotes
<1>7. (RetriesMaskFailures /\ FailuresCounted /\ MessagesInTime)'
  BY <1>2, <1>3 DEF Inv, RetriesMaskFailures, FailuresCounted, MessagesInTime
<1>8. PhaseInv'
  BY <1>2, <1>3 DEF Inv, PhaseInv, Receive, Current
<1>. QED BY <1>4, <1>5, <1>6, <1>7, <1>8 DEF Inv

\* A failed attempt: the next one, or the end of the call.
LEMMA FailInv ==
  ASSUME Inv, NEW s \in Suppliers, AttemptFails(s) \/ AttemptRaises(s)
  PROVE  Inv'
<1>0. /\ call[s] \in Call /\ call[s].pc \in {"send", "waiting"}
      /\ failures \in [Suppliers -> Nat]
  BY DEF Inv, TypeOK, AttemptFails, AttemptRaises
<1>1. /\ \A t \in Suppliers \ {s} : call'[t] = call[t] /\ failures'[t] = failures[t]
      /\ failures'[s] = failures[s] + 1
      /\ net' \subseteq net
      /\ UNCHANGED <<now, life, phase, batch, made>>
  BY DEF Inv, TypeOK, AttemptFails, AttemptRaises, Closed
<1>2. \/ /\ call[s].attempt < MaxAttempts
         /\ call'[s] = [call[s] EXCEPT !.pc = "send", !.attempt = @ + 1]
      \/ /\ ~(call[s].attempt < MaxAttempts)
         /\ call'[s] = [call[s] EXCEPT !.pc = "error"]
      \/ call'[s] = [call[s] EXCEPT !.pc = "raised"]
  <2>1. CASE AttemptFails(s)
    <3>1. call'[s] = Retry(call[s])
      BY <2>1 DEF Inv, TypeOK, AttemptFails
    <3>. QED BY <3>1 DEF Retry
  <2>2. CASE AttemptRaises(s)
    BY <2>2 DEF Inv, TypeOK, AttemptRaises
  <2>. QED BY <2>1, <2>2
<1>6. call[s].attempt \in Attempts /\ call[s].taken \in Taken \cup {None}
  BY <1>0 DEF Call
<1>7. /\ call'[s] \in Call
      /\ call'[s].taken = call[s].taken
      /\ \/ call'[s].pc = "send" /\ call'[s].attempt = call[s].attempt + 1
         \/ call'[s].pc = "error" /\ call[s].attempt = MaxAttempts
         \/ call'[s].pc = "raised"
  <2>1. /\ call[s].attempt + 1 \in Attempts \/ ~(call[s].attempt < MaxAttempts)
        /\ ~(call[s].attempt < MaxAttempts) => call[s].attempt = MaxAttempts
    BY <1>6, ExchangeAssumption DEF Attempts
  <2>2. call[s] = [pc |-> call[s].pc, attempt |-> call[s].attempt, taken |-> call[s].taken]
    BY <1>0 DEF Call
  <2>3. CASE /\ call[s].attempt < MaxAttempts
             /\ call'[s] = [call[s] EXCEPT !.pc = "send", !.attempt = @ + 1]
    <3>1. call'[s] = [pc |-> "send", attempt |-> call[s].attempt + 1, taken |-> call[s].taken]
      BY <2>2, <2>3
    <3>. QED BY <1>6, <2>1, <2>3, <3>1 DEF Call
  <2>4. CASE /\ ~(call[s].attempt < MaxAttempts)
             /\ call'[s] = [call[s] EXCEPT !.pc = "error"]
    <3>1. call'[s] = [pc |-> "error", attempt |-> call[s].attempt, taken |-> call[s].taken]
      BY <2>2, <2>4
    <3>. QED BY <1>6, <2>1, <2>4, <3>1 DEF Call
  <2>5. CASE call'[s] = [call[s] EXCEPT !.pc = "raised"]
    <3>1. call'[s] = [pc |-> "raised", attempt |-> call[s].attempt, taken |-> call[s].taken]
      BY <2>2, <2>5
    <3>. QED BY <1>6, <3>1 DEF Call
  <2>. QED BY <1>2, <2>3, <2>4, <2>5
<1>4. TypeOK'
  <2>1. call' \in [Suppliers -> Call]
    BY <1>7 DEF Inv, TypeOK, AttemptFails, AttemptRaises
  <2>2. failures' \in [Suppliers -> Nat]
    BY <1>0 DEF AttemptFails, AttemptRaises
  <2>. QED BY <1>1, <2>1, <2>2 DEF Inv, TypeOK
<1>5. failures[s] + 1 = call[s].attempt
  BY <1>0 DEF Inv, FailuresCounted
<1>8. /\ call'[s].pc = "error" => failures'[s] = MaxAttempts
      /\ call'[s].pc = "send" => failures'[s] + 1 = call'[s].attempt
  <2>1. CASE call'[s].pc = "send" /\ call'[s].attempt = call[s].attempt + 1
    BY <1>1, <1>5, <2>1
  <2>2. CASE call'[s].pc = "error" /\ call[s].attempt = MaxAttempts
    BY <1>1, <1>5, <2>2
  <2>3. CASE call'[s].pc = "raised"
    BY <2>3
  <2>. QED BY <1>7, <2>1, <2>2, <2>3
<1>9. (RetriesMaskFailures /\ FailuresCounted)'
  BY <1>1, <1>7, <1>8 DEF Inv, RetriesMaskFailures, FailuresCounted
<1>10. (QuoteIsFresh /\ CallsHoldQuotes /\ MessagesInTime)'
  BY <1>1, <1>7 DEF Inv, QuoteIsFresh, CallsHoldQuotes, MessagesInTime
<1>11. PhaseInv'
  BY <1>0, <1>1 DEF Inv, PhaseInv
<1>. QED BY <1>4, <1>9, <1>10, <1>11 DEF Inv

LEMMA ExecuteInv ==
  ASSUME Inv, NEW m \in net, Execute(m)
  PROVE  Inv'
<1>0. m \in Message /\ now \in Time /\ m.kind = "rfq" /\ made \in [Suppliers -> Nat]
  BY DEF Inv, TypeOK, Execute
<1>1. Answer(m) \in Message
  BY <1>0 DEF Answer, Message
<1>2. /\ net' \subseteq net \cup {Answer(m)}
      /\ UNCHANGED <<now, life, phase, call, batch, failures>>
  BY DEF Execute
<1>3. made' \in [Suppliers -> Nat]
  BY <1>0 DEF Execute, Message
<1>4. TypeOK'
  BY <1>1, <1>2, <1>3 DEF Inv, TypeOK
<1>5. MessagesInTime'
  <2>1. Answer(m).kind # "rfq"
    BY <1>0 DEF Answer, Message
  <2>2. Answer(m).kind = "quote" =>
          Answer(m).at < Answer(m).asked + TTL /\ Answer(m).supplier \in Sellers
    <3>1. m.at = m.asked
      BY <1>0 DEF Inv, MessagesInTime
    <3>2. SUFFICES ASSUME Answer(m).kind = "quote"
                   PROVE  /\ Answer(m).at < Answer(m).asked + TTL
                          /\ Answer(m).supplier \in Sellers
      OBVIOUS
    <3>3. ~Expired(m) /\ m.supplier \in Sellers
      BY <1>0, <3>2 DEF Answer, Message
    <3>4. Answer(m).at = now /\ Answer(m).asked = m.asked /\ Answer(m).supplier = m.supplier
      BY <1>0 DEF Answer, Message
    <3>. QED BY <1>0, <3>1, <3>3, <3>4, ExchangeAssumption DEF Expired, Message, Time
  <2>. QED BY <1>2, <2>1, <2>2 DEF Inv, MessagesInTime
<1>. QED
  BY <1>2, <1>4, <1>5
  DEF Inv, QuoteIsFresh, RetriesMaskFailures, CallsHoldQuotes, FailuresCounted, PhaseInv

LEMMA CollectInv ==
  ASSUME Inv, Collect
  PROVE  Inv'
<1>1. Quotes \in Batch
  <2>1. ASSUME NEW s \in Suppliers, call[s].pc = "quote"
        PROVE  call[s].taken.quote.life \in Lives
    BY <2>1 DEF Inv, CallsHoldQuotes, TypeOK
  <2>. QED BY <2>1 DEF Quotes, Batch
<1>2. TypeOK'
  BY <1>1 DEF Inv, TypeOK, Collect
<1>. QED
  BY <1>2
  DEF Collect, Inv, MessagesInTime, QuoteIsFresh, RetriesMaskFailures, CallsHoldQuotes,
      FailuresCounted, PhaseInv

LEMMA RestartInv ==
  ASSUME Inv, Restart
  PROVE  Inv'
<1>1. TypeOK'
  BY IdleType, ExchangeAssumption DEF Inv, TypeOK, Restart, Lives
<1>2. (QuoteIsFresh /\ RetriesMaskFailures /\ CallsHoldQuotes /\ FailuresCounted /\ PhaseInv)'
  BY DEF Restart, QuoteIsFresh, RetriesMaskFailures, CallsHoldQuotes, FailuresCounted,
         PhaseInv, Idle
<1>3. MessagesInTime'
  BY DEF Inv, MessagesInTime, Restart
<1>. QED BY <1>1, <1>2, <1>3 DEF Inv

LEMMA TickInv ==
  ASSUME Inv, Tick
  PROVE  Inv'
<1>1. TypeOK'
  BY ExchangeAssumption DEF Inv, TypeOK, Tick, Time
<1>. QED
  BY <1>1
  DEF Tick, Inv, MessagesInTime, QuoteIsFresh, RetriesMaskFailures, CallsHoldQuotes,
      FailuresCounted, PhaseInv

LEMMA NextInv == Inv /\ [Next]_vars => Inv'
<1>. SUFFICES ASSUME Inv, [Next]_vars PROVE Inv'
  OBVIOUS
<1>1. CASE Begin
  BY <1>1, BeginInv DEF Begin
<1>2. CASE \E s \in Suppliers : CallStep(s)
  BY <1>2, SendInv, ReceiveInv, FailInv DEF CallStep
<1>3. CASE \E m \in net : Execute(m)
  BY <1>3, ExecuteInv
<1>4. CASE Collect
  BY <1>4, CollectInv
<1>5. CASE Restart
  BY <1>5, RestartInv
<1>6. CASE Tick
  BY <1>6, TickInv
<1>7. CASE UNCHANGED vars
  BY <1>7
  DEF vars, Inv, TypeOK, MessagesInTime, QuoteIsFresh, RetriesMaskFailures,
      CallsHoldQuotes, FailuresCounted, PhaseInv, Expired
<1>. QED BY <1>1, <1>2, <1>3, <1>4, <1>5, <1>6, <1>7 DEF Next

LEMMA SpecInv == Spec => []Inv
<1>. QED BY InitInv, NextInv, PTL DEF Spec

-----------------------------------------------------------------------------
\* Type correctness: what a supplier answers and what a retry leaves behind are
\* of the shapes the module states.
THEOREM TypeCorrect == Spec => []TypeOK
<1>1. Inv => TypeOK
  BY DEF Inv
<1>. QED BY <1>1, SpecInv, PTL

\* Every quote the buyer takes was asked for less than two envelope lifetimes
\* before (verify_envelope on both sides).
THEOREM QuotesAreFresh == Spec => []QuoteIsFresh
<1>1. Inv => QuoteIsFresh
  BY DEF Inv
<1>. QED BY <1>1, SpecInv, PTL

\* The error of a last attempt is raised only when all attempts failed
\* (RemoteSupplierAgent.create_quote).
THEOREM AllAttemptsAreMade == Spec => []RetriesMaskFailures
<1>1. Inv => RetriesMaskFailures
  BY DEF Inv
<1>. QED BY <1>1, SpecInv, PTL

\* A collection is one step of QuoteCollection.
LEMMA CollectRefines ==
  ASSUME Inv, Collect
  PROVE  \E answered \in SUBSET Sellers : Promised!Collect(answered)
<1>. DEFINE answered == {s \in Suppliers : call[s].pc = "quote"}
<1>1. answered \in SUBSET Sellers
  BY DEF Inv, CallsHoldQuotes
<1>2. \A s \in answered : call[s].taken.quote.life = life
  BY DEF Inv, CallsHoldQuotes
<1>3. Quotes = {[supplier |-> s, life |-> life] : s \in answered}
  BY <1>2 DEF Quotes
<1>4. Quotes = [supplier : answered, life : {life}]
  <2>. HIDE DEF answered
  <2>1. ASSUME NEW q \in [supplier : answered, life : {life}]
        PROVE  q \in {[supplier |-> s, life |-> life] : s \in answered}
    <3>1. q = [supplier |-> q.supplier, life |-> life] /\ q.supplier \in answered
      BY <2>1
    <3>. QED BY <3>1
  <2>2. ASSUME NEW s \in answered
        PROVE  [supplier |-> s, life |-> life] \in [supplier : answered, life : {life}]
    OBVIOUS
  <2>. QED BY <1>3, <2>1, <2>2
<1>5. batch = None /\ batch' = Quotes /\ life' = life
  BY DEF Collect, Inv, PhaseInv
<1>. QED BY <1>1, <1>4, <1>5 DEF Promised!Collect

\* What the workflow collects is what QuoteCollection promises: of the present
\* life, of suppliers that sell, once per life (workflow/graph.py, request_quotes).
THEOREM ExchangeImplementsCollection == Spec => ImplementsCollection
<1>1. Init => Promised!Init
  BY DEF Init, Promised!Init
<1>2. Inv /\ [Next]_vars => [Promised!Next]_(Promised!collectionVars)
  <2>. SUFFICES ASSUME Inv, [Next]_vars
                PROVE  Promised!Next \/ UNCHANGED Promised!collectionVars
    OBVIOUS
  <2>1. CASE Collect
    BY <2>1, CollectRefines DEF Promised!Next
  <2>2. CASE Restart
    BY <2>2 DEF Restart, Promised!Next, Promised!StartAgain
  <2>3. CASE Begin
    BY <2>3 DEF Begin, Ask, Promised!collectionVars
  <2>4. CASE \E s \in Suppliers : CallStep(s)
    BY <2>4 DEF CallStep, Send, Receive, AttemptFails, AttemptRaises, Promised!collectionVars
  <2>5. CASE \E m \in net : Execute(m)
    BY <2>5 DEF Execute, Promised!collectionVars
  <2>6. CASE Tick
    BY <2>6 DEF Tick, Promised!collectionVars
  <2>7. CASE UNCHANGED vars
    BY <2>7 DEF vars, Promised!collectionVars
  <2>. QED BY <2>1, <2>2, <2>3, <2>4, <2>5, <2>6, <2>7 DEF Next
<1>. QED BY <1>1, <1>2, SpecInv, PTL DEF Spec, ImplementsCollection, Promised!Spec
-----------------------------------------------------------------------------
(* How many quotes a supplier makes.                                       *)

\* The RFQs of a supplier it has not answered yet.
Open(s) == {m \in net : m.kind = "rfq" /\ m.supplier = s}

\* The attempts of this life that may have sent an RFQ.
Tried(s) ==
  CASE call[s].pc = "idle" -> 0
    [] call[s].pc = "send" -> call[s].attempt - 1
    [] OTHER -> call[s].attempt

\* Every quote made or still to be made answers an RFQ of its own, and every
\* attempt sends one RFQ.
QuotesCounted ==
  /\ Inv
  /\ IsFiniteSet(net)
  /\ \A s \in Suppliers :
       made[s] + Cardinality(Open(s)) <= MaxAttempts * (life - 1) + Tried(s)

\* The RFQs with a supplier are finitely many, and attempts are at most
\* max_attempts.
LEMMA CountTypes ==
  ASSUME Inv, IsFiniteSet(net), NEW s \in Suppliers
  PROVE  /\ made[s] \in Nat /\ Tried(s) \in 0 .. MaxAttempts
         /\ IsFiniteSet(Open(s)) /\ Cardinality(Open(s)) \in Nat
         /\ MaxAttempts * (life - 1) \in Nat
         /\ MaxAttempts * life = MaxAttempts * (life - 1) + MaxAttempts
<1>1. call[s] \in Call /\ made[s] \in Nat /\ life \in Nat \ {0}
  BY DEF Inv, TypeOK, Lives
<1>2. Tried(s) \in 0 .. MaxAttempts
  BY <1>1, ExchangeAssumption DEF Tried, Call, Attempts
<1>3. IsFiniteSet(Open(s)) /\ Cardinality(Open(s)) \in Nat
  <2>1. Open(s) \in SUBSET net
    BY DEF Open
  <2>. QED BY <2>1, FS_Subset, FS_CardinalityType
<1>4. /\ MaxAttempts * (life - 1) \in Nat
      /\ MaxAttempts * life = MaxAttempts * (life - 1) + MaxAttempts
  BY <1>1, ExchangeAssumption
<1>. QED BY <1>1, <1>2, <1>3, <1>4

\* A step of the buyer that leaves the RFQs of a supplier where they are.
LEMMA SameQuotesCounted ==
  ASSUME QuotesCounted, Inv', IsFiniteSet(net'), life' = life, made' = made,
         \A s \in Suppliers : Open(s)' = Open(s) /\ Tried(s) <= Tried(s)'
  PROVE  QuotesCounted'
<1>1. ASSUME NEW s \in Suppliers
      PROVE  made'[s] + Cardinality(Open(s)') <= MaxAttempts * (life' - 1) + Tried(s)'
  <2>1. made[s] + Cardinality(Open(s)) <= MaxAttempts * (life - 1) + Tried(s)
    BY DEF QuotesCounted
  <2>2. /\ made[s] \in Nat /\ Cardinality(Open(s)) \in Nat /\ Tried(s) \in 0 .. MaxAttempts
        /\ MaxAttempts * (life - 1) \in Nat
    BY CountTypes DEF QuotesCounted
  <2>3. Tried(s)' \in 0 .. MaxAttempts
    <3>1. call'[s] \in Call
      BY DEF Inv, TypeOK
    <3>. QED BY <3>1, ExchangeAssumption DEF Tried, Call, Attempts
  <2>. DEFINE p == MaxAttempts * (life - 1)
              n == Cardinality(Open(s))
              before == Tried(s)
              after == Tried(s)'
  <2>4. made[s] + n <= p + after
    <3>1. /\ made[s] + n <= p + before /\ before <= after /\ made[s] \in Nat /\ n \in Nat
          /\ p \in Nat /\ before \in 0 .. MaxAttempts /\ after \in 0 .. MaxAttempts
      BY <2>1, <2>2, <2>3
    <3>. HIDE DEF p, n, before, after
    <3>. QED BY <3>1, ExchangeAssumption
  <2>5. Cardinality(Open(s)') = n
    BY DEF Open
  <2>. QED BY <2>4, <2>5
<1>. QED BY <1>1 DEF QuotesCounted

\* Sending an RFQ uses up one attempt.
LEMMA SendCounted ==
  ASSUME QuotesCounted, Inv', NEW s \in Suppliers, Send(s)
  PROVE  QuotesCounted'
<1>. DEFINE rfq == [supplier |-> s, life |-> life, attempt |-> call[s].attempt,
                    kind |-> "rfq", asked |-> now, at |-> now]
<1>0. call[s] \in Call /\ Inv /\ IsFiniteSet(net)
  BY DEF QuotesCounted, Inv, TypeOK
<1>1. /\ net' = net \cup {rfq} /\ rfq.supplier = s /\ UNCHANGED <<life, made>>
      /\ call[s].pc = "send" /\ call'[s].pc = "waiting"
      /\ call'[s].attempt = call[s].attempt
      /\ \A t \in Suppliers \ {s} : call'[t] = call[t]
  BY <1>0 DEF Send, Inv, TypeOK, Call
<1>. HIDE DEF rfq
<1>2. IsFiniteSet(net')
  BY <1>0, <1>1, FS_AddElement
<1>3. ASSUME NEW t \in Suppliers \ {s}
      PROVE  Open(t)' = Open(t) /\ Tried(t)' = Tried(t)
  BY <1>1, <1>3 DEF Open, Tried
<1>4. Tried(s)' = Tried(s) + 1
  <2>1. call[s].attempt \in Attempts
    BY <1>0 DEF Call
  <2>. QED BY <1>1, <2>1, ExchangeAssumption DEF Tried, Attempts
<1>5. Cardinality(Open(s)') <= Cardinality(Open(s)) + 1
  <2>1. Open(s)' \subseteq Open(s) \cup {rfq}
    BY <1>1 DEF Open
  <2>2. IsFiniteSet(Open(s)) /\ Cardinality(Open(s)) \in Nat
    BY <1>0, CountTypes
  <2>3. /\ IsFiniteSet(Open(s) \cup {rfq})
        /\ Cardinality(Open(s) \cup {rfq}) <= Cardinality(Open(s)) + 1
        /\ Cardinality(Open(s) \cup {rfq}) \in Nat
    <3>1. /\ IsFiniteSet(Open(s) \cup {rfq})
          /\ Cardinality(Open(s) \cup {rfq}) =
               IF rfq \in Open(s) THEN Cardinality(Open(s)) ELSE Cardinality(Open(s)) + 1
      BY <2>2, FS_AddElement
    <3>. QED BY <2>2, <3>1
  <2>4. Cardinality(Open(s)') <= Cardinality(Open(s) \cup {rfq}) /\ IsFiniteSet(Open(s)')
    BY <2>1, <2>3, FS_Subset
  <2>5. Cardinality(Open(s)') \in Nat
    BY <2>4, FS_CardinalityType
  <2>. QED BY <2>2, <2>3, <2>4, <2>5
<1>6. ASSUME NEW t \in Suppliers
      PROVE  made'[t] + Cardinality(Open(t)') <= MaxAttempts * (life' - 1) + Tried(t)'
  <2>1. made[t] + Cardinality(Open(t)) <= MaxAttempts * (life - 1) + Tried(t)
    BY DEF QuotesCounted
  <2>2. CASE t # s
    BY <1>1, <1>3, <2>1, <2>2
  <2>3. CASE t = s
    <3>. DEFINE p == MaxAttempts * (life - 1)
                n == Cardinality(Open(s))
                more == Cardinality(Open(s)')
                tried == Tried(s)
    <3>1. /\ p \in Nat /\ n \in Nat /\ tried \in 0 .. MaxAttempts /\ made[s] \in Nat
          /\ made[s] + n <= p + tried /\ more <= n + 1
      BY <1>0, <1>5, <2>1, <2>3, CountTypes
    <3>2. more \in Nat
      <4>1. Open(s)' \in SUBSET net'
        BY DEF Open
      <4>. QED BY <1>2, <4>1, FS_Subset, FS_CardinalityType
    <3>3. made[s] + more <= p + (tried + 1)
      <4>. HIDE DEF p, n, more, tried
      <4>. QED BY <3>1, <3>2, ExchangeAssumption
    <3>4. made'[s] = made[s] /\ life' = life /\ Tried(s)' = tried + 1
      BY <1>1, <1>4
    <3>. QED BY <2>3, <3>3, <3>4
  <2>. QED BY <2>2, <2>3
<1>. QED BY <1>2, <1>6 DEF QuotesCounted

\* A supplier makes at most one quote of an RFQ and takes it out of the channel.
LEMMA ExecuteCounted ==
  ASSUME QuotesCounted, Inv', NEW m \in net, Execute(m)
  PROVE  QuotesCounted'
<1>0. /\ Inv /\ IsFiniteSet(net) /\ m \in Message /\ m.kind = "rfq" /\ m.supplier \in Suppliers
      /\ UNCHANGED <<call, life>>
  BY DEF QuotesCounted, Inv, TypeOK, Execute, Message
<1>1. Answer(m).kind # "rfq"
  BY <1>0 DEF Answer, Message
<1>2. IsFiniteSet(net')
  <2>1. IsFiniteSet(net \ {m}) /\ IsFiniteSet((net \ {m}) \cup {Answer(m)})
    BY <1>0, FS_RemoveElement, FS_AddElement
  <2>2. net' \subseteq (net \ {m}) \cup {Answer(m)}
    BY DEF Execute
  <2>. QED BY <2>1, <2>2, FS_Subset
<1>3. ASSUME NEW t \in Suppliers
      PROVE  Open(t)' = IF t = m.supplier THEN Open(t) \ {m} ELSE Open(t)
  BY <1>0, <1>1 DEF Open, Execute
<1>4. ASSUME NEW t \in Suppliers
      PROVE  /\ Tried(t)' = Tried(t)
             /\ made'[t] = made[t] \/ (t = m.supplier /\ made'[t] = made[t] + 1)
  BY <1>0 DEF Tried, Execute, Inv, TypeOK
<1>5. ASSUME NEW t \in Suppliers
      PROVE  made'[t] + Cardinality(Open(t)') <= MaxAttempts * (life' - 1) + Tried(t)'
  <2>1. made[t] + Cardinality(Open(t)) <= MaxAttempts * (life - 1) + Tried(t)
    BY DEF QuotesCounted
  <2>2. CASE t # m.supplier
    BY <1>0, <1>3, <1>4, <2>1, <2>2
  <2>3. CASE t = m.supplier
    <3>1. m \in Open(t) /\ Open(t)' = Open(t) \ {m}
      BY <1>0, <1>3, <2>3 DEF Open
    <3>. DEFINE p == MaxAttempts * (life - 1)
                n == Cardinality(Open(t))
                less == Cardinality(Open(t)')
                tried == Tried(t)
    <3>2. /\ p \in Nat /\ n \in Nat /\ tried \in 0 .. MaxAttempts /\ made[t] \in Nat
          /\ made[t] + n <= p + tried /\ IsFiniteSet(Open(t))
      BY <1>0, <2>1, CountTypes
    <3>3. less = n - 1
      BY <3>1, <3>2, FS_RemoveElement
    <3>4. made'[t] + less <= p + tried
      <4>. HIDE DEF p, n, less, tried
      <4>. QED BY <1>4, <3>2, <3>3, ExchangeAssumption
    <3>. QED BY <1>0, <1>4, <3>4
  <2>. QED BY <2>2, <2>3
<1>. QED BY <1>2, <1>5 DEF QuotesCounted

\* A new life of A1 has all its attempts before it; the old RFQs stay counted.
LEMMA RestartCounted ==
  ASSUME QuotesCounted, Inv', Restart
  PROVE  QuotesCounted'
<1>0. /\ Inv /\ IsFiniteSet(net) /\ life' = life + 1 /\ made' = made
      /\ net' = {m \in net : m.kind = "rfq"} /\ life \in Nat \ {0}
      /\ \A s \in Suppliers : call'[s] = Idle
  BY DEF QuotesCounted, Inv, TypeOK, Lives, Restart
<1>1. IsFiniteSet(net')
  BY <1>0, FS_Subset
<1>2. \A s \in Suppliers : Open(s)' = Open(s) /\ Tried(s)' = 0
  BY <1>0 DEF Open, Tried, Idle
<1>3. ASSUME NEW s \in Suppliers
      PROVE  made'[s] + Cardinality(Open(s)') <= MaxAttempts * (life' - 1) + Tried(s)'
  <2>. DEFINE p == MaxAttempts * (life - 1)
              q == MaxAttempts * life
              n == Cardinality(Open(s))
              tried == Tried(s)
  <2>1. /\ p \in Nat /\ n \in Nat /\ tried \in 0 .. MaxAttempts /\ made[s] \in Nat
        /\ made[s] + n <= p + tried /\ q = p + MaxAttempts
    BY <1>0, CountTypes DEF QuotesCounted
  <2>2. made[s] + n <= q + 0
    <3>. HIDE DEF p, q, n, tried
    <3>. QED BY <2>1, ExchangeAssumption
  <2>3. life' - 1 = life
    BY <1>0
  <2>. QED BY <1>0, <1>2, <2>2, <2>3
<1>. QED BY <1>1, <1>3 DEF QuotesCounted

\* The other steps send no RFQ and make no quote.
LEMMA OthersCounted ==
  ASSUME QuotesCounted, Inv',
         \/ Begin
         \/ \E s \in Suppliers : \/ \E m \in net : Receive(s, m)
                                 \/ AttemptFails(s)
                                 \/ AttemptRaises(s)
         \/ Collect
         \/ Tick
         \/ UNCHANGED vars
  PROVE  QuotesCounted'
<1>0. Inv /\ IsFiniteSet(net)
  BY DEF QuotesCounted
<1>1. CASE Begin
  <2>1. PICK asked \in SUBSET Suppliers : Ask(asked)
    BY <1>1 DEF Begin
  <2>2. /\ UNCHANGED <<net, life, made>>
        /\ \A s \in Suppliers : call[s].pc = "idle" /\ call'[s].attempt = 1
                                /\ call'[s].pc \in {"idle", "send"}
    BY <1>0, <2>1 DEF Ask, Idle, Inv, PhaseInv
  <2>3. \A s \in Suppliers : Open(s)' = Open(s) /\ Tried(s) <= Tried(s)'
    BY <2>2 DEF Open, Tried
  <2>. QED BY <1>0, <2>2, <2>3, SameQuotesCounted
<1>2. CASE \E s \in Suppliers : \/ \E m \in net : Receive(s, m)
                                \/ AttemptFails(s)
                                \/ AttemptRaises(s)
  <2>1. PICK s \in Suppliers : \/ \E m \in net : Receive(s, m)
                               \/ AttemptFails(s)
                               \/ AttemptRaises(s)
    BY <1>2
  <2>2. /\ call[s] \in Call /\ call[s].pc \in {"send", "waiting"}
        /\ call[s].attempt \in Attempts
    BY <1>0, <2>1 DEF Inv, TypeOK, Receive, Current, AttemptFails, AttemptRaises, Call
  <2>3. /\ UNCHANGED <<life, made>> /\ net' \subseteq net
        /\ \A m \in net : m.kind = "rfq" => m \in net'
        /\ \A t \in Suppliers \ {s} : call'[t] = call[t]
    BY <1>0, <2>1 DEF Receive, AttemptFails, AttemptRaises, Closed, Inv, TypeOK
  <2>4. IsFiniteSet(net')
    BY <1>0, <2>3, FS_Subset
  <2>5. \/ call'[s].attempt = call[s].attempt /\ call'[s].pc \notin {"idle", "send"}
        \/ call'[s].attempt = call[s].attempt + 1 /\ call'[s].pc = "send"
    <3>1. CASE \E m \in net : Receive(s, m)
      BY <1>0, <2>2, <3>1 DEF Receive, Inv, TypeOK, Call
    <3>2. CASE AttemptFails(s)
      <4>1. call'[s] = Retry(call[s])
        BY <1>0, <3>2 DEF AttemptFails, Inv, TypeOK
      <4>. QED BY <2>2, <4>1 DEF Retry, Call
    <3>3. CASE AttemptRaises(s)
      <4>1. call'[s] = [call[s] EXCEPT !.pc = "raised"]
        BY <1>0, <3>3 DEF AttemptRaises, Inv, TypeOK
      <4>. QED BY <2>2, <4>1 DEF Call
    <3>. QED BY <2>1, <3>1, <3>2, <3>3
  <2>6. Tried(s) <= Tried(s)'
    BY <2>2, <2>5, ExchangeAssumption DEF Tried, Attempts
  <2>7. ASSUME NEW t \in Suppliers \ {s}
        PROVE  Tried(t) <= Tried(t)'
    <3>1. Tried(t)' = Tried(t)
      BY <2>3 DEF Tried
    <3>2. Tried(t) \in 0 .. MaxAttempts
      BY <1>0, CountTypes
    <3>. QED BY <3>1, <3>2
  <2>8. \A t \in Suppliers : Open(t)' = Open(t)
    BY <2>3 DEF Open
  <2>. QED BY <2>3, <2>4, <2>6, <2>7, <2>8, SameQuotesCounted
<1>3. CASE Collect \/ Tick \/ UNCHANGED vars
  <2>1. UNCHANGED <<net, life, made, call>>
    BY <1>3 DEF Collect, Tick, vars
  <2>2. \A s \in Suppliers : Open(s)' = Open(s) /\ Tried(s)' = Tried(s)
    BY <2>1 DEF Open, Tried
  <2>3. \A s \in Suppliers : Tried(s) \in 0 .. MaxAttempts
    BY <1>0, CountTypes
  <2>4. \A s \in Suppliers : Tried(s) <= Tried(s)'
    BY <2>2, <2>3
  <2>. QED BY <1>0, <2>1, <2>2, <2>4, SameQuotesCounted
<1>. QED BY <1>1, <1>2, <1>3

\* A supplier makes one quote per attempt at most, and max_attempts of them in a
\* life of A1 (RemoteSupplierAgent.create_quote, SupplierQuoteExecutor.execute).
THEOREM QuotesAreBounded == Spec => []QuotesBounded
<1>1. Init => QuotesCounted
  <2>. SUFFICES ASSUME Init
                PROVE  QuotesCounted
    OBVIOUS
  <2>1. Inv
    BY InitInv
  <2>2. \A s \in Suppliers : /\ Open(s) = {} /\ Tried(s) = 0 /\ made[s] = 0
                             /\ life = 1
    BY DEF Init, Open, Tried, Idle
  <2>3. MaxAttempts * (1 - 1) = 0
    BY ExchangeAssumption
  <2>. QED BY <2>1, <2>2, <2>3, FS_EmptySet DEF QuotesCounted, Init
<1>2. QuotesCounted /\ [Next]_vars => QuotesCounted'
  <2>. SUFFICES ASSUME QuotesCounted, [Next]_vars
                PROVE  QuotesCounted'
    OBVIOUS
  <2>1. Inv'
    BY NextInv DEF QuotesCounted
  <2>. QED BY <2>1, SendCounted, ExecuteCounted, RestartCounted, OthersCounted DEF Next, CallStep
<1>3. QuotesCounted => QuotesBounded
  <2>. SUFFICES ASSUME QuotesCounted, NEW s \in Suppliers
                PROVE  made[s] <= MaxAttempts * life
    BY DEF QuotesBounded
  <2>. DEFINE p == MaxAttempts * (life - 1)
              q == MaxAttempts * life
              n == Cardinality(Open(s))
              tried == Tried(s)
  <2>1. /\ p \in Nat /\ n \in Nat /\ tried \in 0 .. MaxAttempts /\ made[s] \in Nat
        /\ made[s] + n <= p + tried /\ q = p + MaxAttempts
    BY CountTypes DEF QuotesCounted
  <2>2. made[s] <= q
    <3>. HIDE DEF p, q, n, tried
    <3>. QED BY <2>1, ExchangeAssumption
  <2>. QED BY <2>2
<1>. QED BY <1>1, <1>2, <1>3, PTL DEF Spec
=============================================================================
