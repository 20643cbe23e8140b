-------------------------- MODULE SupplierExchange --------------------------
(***************************************************************************)
(* The node request_quotes of one deal: A1 asks every supplier at the same *)
(* time, each through RemoteSupplierAgent.create_quote, which tries again  *)
(* after an error, and SupplierQuoteExecutor on the side of A2 answers.    *)
(* An attempt is one HTTP exchange.  Its answer reaches the client only    *)
(* while that exchange is open, which is why no step compares correlation  *)
(* IDs: an exchange is named by the life of A1 and the attempt, as its     *)
(* envelopes are by their correlation ID.  A supplier remembers nothing    *)
(* between attempts.  Keys and signatures are taken to be in order.        *)
(***************************************************************************)
EXTENDS Naturals

CONSTANTS
  Suppliers,
  Sellers,      \* suppliers with the product in their catalog
  MaxAttempts,  \* network.max_attempts
  TTL,          \* security.nonce_ttl_seconds: how long an envelope lives
  MaxLives,     \* bound: runs of the A1 process
  MaxTime,      \* bound: ticks of the clock
  None

ASSUME ExchangeAssumption ==
  /\ Sellers \subseteq Suppliers
  /\ MaxAttempts \in Nat \ {0}
  /\ TTL \in Nat \ {0}
  /\ MaxLives \in Nat \ {0}
  /\ MaxTime \in Nat

VARIABLES
  now,       \* the clock A1 and its suppliers share
  life,      \* the number of the current run of A1
  phase,     \* of request_quotes in this life: "before", "asking", "collected"
  call,      \* per supplier: its create_quote
  net,       \* requests and answers on their way; one that is lost stays there
  batch,     \* the collected quotes
  made,      \* history: per supplier, quotes it made for the deal
  failures   \* history: per supplier, attempts that failed in this life

vars == <<now, life, phase, call, net, batch, made, failures>>

Time == 0 .. MaxTime
Lives == 1 .. MaxLives
Attempts == 1 .. MaxAttempts

\* An RFQ or its answer: the exchange it belongs to, when the RFQ was signed
\* and when the message itself was.
Message == [supplier : Suppliers, life : Lives, attempt : Attempts,
            kind : {"rfq", "quote", "no_quote", "refusal"},
            asked : Time, at : Time]

\* A quote taken, and when.
Taken == [quote : Message, at : Time]

ASSUME NoneAssumption == None \notin Taken

Call == [pc : {"idle", "send", "waiting", "quote", "no_quote", "error", "raised"},
         attempt : Attempts,
         taken : Taken \cup {None}]

\* The outcomes of create_quote: a quote, no quote, the error of the last
\* attempt, an exception it does not catch.
Outcomes == {"quote", "no_quote", "error", "raised"}

\* Bug: attempts are counted from zero.
IdleFromZero == [pc |-> "idle", attempt |-> 0, taken |-> None]

Idle == [pc |-> "idle", attempt |-> 1, taken |-> None]

Batch == SUBSET [supplier : Suppliers, life : Lives]

TypeOK ==
  /\ now \in Time
  /\ life \in Lives
  /\ phase \in {"before", "asking", "collected"}
  /\ call \in [Suppliers -> Call]
  /\ net \subseteq Message
  /\ batch \in Batch \cup {None}
  /\ made \in [Suppliers -> Nat]
  /\ failures \in [Suppliers -> Nat]

Init ==
  /\ now = 0
  /\ life = 1
  /\ phase = "before"
  /\ call = [s \in Suppliers |-> Idle]
  /\ net = {}
  /\ batch = None
  /\ made = [s \in Suppliers |-> 0]
  /\ failures = [s \in Suppliers |-> 0]

-----------------------------------------------------------------------------
\* Bug: expiry is not checked.
NeverExpired(m) == FALSE

\* verify_envelope: a message is refused once its lifetime is over.
Expired(m) == m.at + TTL <= now

\* Bug: the answer to an earlier request is taken for that to the present one.
FromSupplier(m, s) == m.supplier = s /\ call[s].pc = "waiting"

\* The message belongs to the exchange the client of s has open.
Current(m, s) ==
  /\ m.supplier = s
  /\ m.life = life
  /\ m.attempt = call[s].attempt
  /\ call[s].pc = "waiting"

\* Closing the exchange of s drops its answer; an RFQ is with the supplier.
Closed(s) == {m \in net : m.kind = "rfq" \/ m.supplier # s}

-----------------------------------------------------------------------------
\* gather(...): one create_quote for every discovered supplier still registered.
Ask(asked) ==
  /\ phase = "before"
  /\ phase' = "asking"
  /\ call' = [s \in Suppliers |-> IF s \in asked THEN [Idle EXCEPT !.pc = "send"] ELSE Idle]
  /\ UNCHANGED <<now, life, net, batch, made, failures>>

\* _request_quote signs an RFQ of its own for every attempt and posts it.
Send(s) ==
  /\ call[s].pc = "send"
  /\ call' = [call EXCEPT ![s].pc = "waiting"]
  /\ net' = net \cup {[supplier |-> s, life |-> life, attempt |-> call[s].attempt,
                       kind |-> "rfq", asked |-> now, at |-> now]}
  /\ UNCHANGED <<now, life, phase, batch, made, failures>>

\* What the supplier answers an RFQ: an error once it expired, no quote when
\* the product is not in the catalog, else a quote.
Answer(m) ==
  [m EXCEPT !.at = now,
            !.kind = IF Expired(m) THEN "refusal"
                     ELSE IF m.supplier \in Sellers THEN "quote" ELSE "no_quote"]

\* SupplierQuoteExecutor.execute.  It does not notice that nobody waits any
\* more; the answer to a closed exchange is dropped.
Execute(m) ==
  /\ m.kind = "rfq"
  /\ net' = (net \ {m}) \cup (IF Current(m, m.supplier) THEN {Answer(m)} ELSE {})
  /\ made' = IF Answer(m).kind = "quote"
             THEN [made EXCEPT ![m.supplier] = @ + 1] ELSE made
  /\ UNCHANGED <<now, life, phase, call, batch, failures>>

\* An answer arrives that ends create_quote: no_quote, which is not signed and
\* has no expiry, or a quote.
Receive(s, m) ==
  /\ Current(m, s)
  /\ \/ m.kind = "no_quote"
     \/ m.kind = "quote" /\ ~Expired(m)
  /\ call' = [call EXCEPT ![s].pc = m.kind,
                          ![s].taken = IF m.kind = "quote"
                                       THEN [quote |-> m, at |-> now] ELSE None]
  /\ net' = net \ {m}
  /\ UNCHANGED <<now, life, phase, batch, made, failures>>

\* Bug: the last attempt is never made.
RetryTooSeldom(c) ==
  IF c.attempt + 1 < MaxAttempts
  THEN [c EXCEPT !.pc = "send", !.attempt = @ + 1]
  ELSE [c EXCEPT !.pc = "error"]

\* Bug: attempts are not counted.
RetryForEver(c) == [c EXCEPT !.pc = "send"]

\* The next attempt follows after a pause; the error of the last one is raised.
Retry(c) ==
  IF c.attempt < MaxAttempts
  THEN [c EXCEPT !.pc = "send", !.attempt = @ + 1]
  ELSE [c EXCEPT !.pc = "error"]

\* An attempt fails with an exception create_quote catches: it times out, the
\* connection breaks, the answer is a refusal or did not verify in time, or the
\* endpoint was refused before anything was sent.
AttemptFails(s) ==
  /\ call[s].pc \in {"send", "waiting"}
  /\ call' = [call EXCEPT ![s] = Retry(@)]
  /\ failures' = [failures EXCEPT ![s] = @ + 1]
  /\ net' = Closed(s)
  /\ UNCHANGED <<now, life, phase, batch, made>>

\* An attempt fails with any other exception, as the client library may raise.
AttemptRaises(s) ==
  /\ call[s].pc \in {"send", "waiting"}
  /\ call' = [call EXCEPT ![s].pc = "raised"]
  /\ failures' = [failures EXCEPT ![s] = @ + 1]
  /\ net' = Closed(s)
  /\ UNCHANGED <<now, life, phase, batch, made>>

\* The quotes among the results of gather.
Quotes ==
  {[supplier |-> s, life |-> call[s].taken.quote.life] :
     s \in {t \in Suppliers : call[t].pc = "quote"}}

\* Bug: suppliers that failed are waited for without end.
CollectWithoutErrors ==
  /\ phase = "asking"
  /\ \A s \in Suppliers : call[s].pc \in {"idle", "quote", "no_quote"}
  /\ phase' = "collected"
  /\ batch' = Quotes
  /\ UNCHANGED <<now, life, call, net, made, failures>>

\* gather returns when every call has ended, exceptions among the results.
Collect ==
  /\ phase = "asking"
  /\ \A s \in Suppliers : call[s].pc \in Outcomes \cup {"idle"}
  /\ phase' = "collected"
  /\ batch' = Quotes
  /\ UNCHANGED <<now, life, call, net, made, failures>>

\* A1 stops and starts again; the deal is still a draft and its workflow begins
\* anew.  An RFQ that is with a supplier stays there.
Restart ==
  /\ phase # "before"
  /\ life < MaxLives
  /\ life' = life + 1
  /\ phase' = "before"
  /\ call' = [s \in Suppliers |-> Idle]
  /\ batch' = None
  /\ failures' = [s \in Suppliers |-> 0]
  /\ net' = {m \in net : m.kind = "rfq"}
  /\ UNCHANGED <<now, made>>

Tick ==
  /\ now < MaxTime
  /\ now' = now + 1
  /\ UNCHANGED <<life, phase, call, net, batch, made, failures>>

Begin == \E asked \in SUBSET Suppliers : Ask(asked)

CallStep(s) ==
  \/ Send(s)
  \/ \E m \in net : Receive(s, m)
  \/ AttemptFails(s)
  \/ AttemptRaises(s)

Next ==
  \/ Begin
  \/ \E s \in Suppliers : CallStep(s)
  \/ \E m \in net : Execute(m)
  \/ Collect
  \/ Restart
  \/ Tick

Spec == Init /\ [][Next]_vars

\* Tasks that can run are run, and a request that gets no answer times out.
FairSpec ==
  /\ Spec
  /\ WF_vars(Begin)
  /\ \A s \in Suppliers : WF_vars(CallStep(s))
  /\ WF_vars(Collect)

-----------------------------------------------------------------------------
\* A quote is taken less than two envelope lifetimes after its RFQ was signed:
\* both sides check expiry, and a late answer to an old attempt is not taken.
QuoteIsFresh ==
  \A s \in Suppliers : call[s].taken # None =>
    call[s].taken.at < call[s].taken.quote.asked + 2 * TTL

\* create_quote raises an error it has caught only after every attempt failed,
\* however late answers, expiries and restarts fall between them.  An error it
\* does not catch is another matter: that ends the call after one attempt.
RetriesMaskFailures ==
  \A s \in Suppliers : call[s].pc = "error" => failures[s] = MaxAttempts

\* A supplier that remembers no idempotency key makes a quote per attempt, and
\* no more than max_attempts of them in a life of A1.
QuotesBounded ==
  \A s \in Suppliers : made[s] <= MaxAttempts * life

\* Retries, late answers and restarts cannot be seen in what is collected: no
\* quote of an earlier life, none of a supplier that does not sell, one
\* collection per life (workflow/graph.py, request_quotes).
Promised == INSTANCE QuoteCollection
ImplementsCollection == Promised!Spec

\* No supplier can keep the workflow waiting for ever: once A1 stays up, the
\* quotes are collected.
CollectionEnds == <>[](phase = "collected")
=============================================================================
