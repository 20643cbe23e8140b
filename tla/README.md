# A2A-mvp: TLA+ models and proofs

A2A-mvp is a procurement service. A buyer agent (A1) takes a need and a mandate
from a client, asks supplier agents (A2) for quotes, ranks them, waits for a
human to approve one, passes the approved purchase through a set of trust
controls, and after a second human act, the signature of a payment draft, queues
the business messages. This directory models the parts of it that keep state or
decide something: the deal service, its store, its workflow, the ranking of quotes,
the trust controls, the hash-chained ledger, the exchange of requests and quotes
with the suppliers, the event stream a client follows, the onboarding of suppliers,
and the tool runtime. TLC checks the models on small instances, TLAPS proves the
theorems for all of them.

All paths below are relative to `src/src/sber_a2a/` unless they start with
`docs/`, `tests/` or `frontend/`.

Contents: [1 The system](#1-the-system) ·
[2 The modules](#2-the-modules) ·
[3 Properties and runs](#3-properties-and-runs) ·
[4 Where code and documents disagree](#4-where-code-and-documents-disagree) ·
[5 What is proved](#5-what-is-proved) ·
[6 What is not modelled](#6-what-is-not-modelled) ·
[7 Plan](#7-plan) ·
[8 Running it](#8-running-it)

## 1 The system

### 1.1 Parts, state and operations

| Part | Source | State | Operations |
|---|---|---|---|
| Deal service | `services/deals.py` | one `asyncio.Task` per deal, `_approval_lock` | `submit`, `create`, `_process`, `approve`, `decide`, `sign_payment`, `resume_incomplete` |
| Workflow graph | `workflow/graph.py` | the graph state of one run | six nodes, four conditional edges |
| Deal store | `services/store.py` | tables `deals`, `deal_events`, `outbox_messages`, `organizations`, `agent_registrations` | `put`, `get`, `list`, `append_outbox`, `mark_outbox_published`, onboarding queries |
| Trusted infrastructure | `trust_infrastructure/service.py` | `_purchase_results`, `_payment_results` (memory only) | `process_approved_purchase` |
| Anchor ledger | `trust_infrastructure/ledger.py` | table `ledger_anchors`, `_append_lock` | `append`, `verify` |
| Ranking | `domain/ranking.py` | none | `compare_quotes` |
| Remote supplier client | `suppliers/remote.py` | one HTTP exchange per attempt | `create_quote` with retries |
| Supplier agent A2 | `suppliers/a2a_service.py` | none kept between requests | `execute` |
| Envelopes | `shared/security/envelopes.py`, `signatures.py` | keys on disk | `create_envelope`, `verify_envelope` |
| Supplier registry | `suppliers/mock.py` | `_agents` | `discover`, `register`, `unregister` |
| Onboarding | `services/onboarding.py` | rows of the store, the registry | `register_supplier`, `update_agent_status`, `check_agent`, `restore` |
| Tool runtime | `trust_infrastructure/tool_runtime.py` | `_idempotency` (memory only), `_lock` | `register`, `execute` |
| REST API, event stream | `api.py` | position of each stream | endpoints, `stream_deal_events` |
| Gateways | `a2a_gateway.py`, `mcp.py`, `trust_api.py` | none | adapters to the above |
| LLM adapters | `services/llm.py` | none | parse a request, explain a comparison |
| Configuration, wiring, migrations, scripts, frontend | `config.py`, `container.py`, ... | none at run time | - |

### 1.2 How they interact

```
 client --REST/A2A--> DealService --get/put--> deal store <--- resume at startup
                       |  ^   |
          schedules    |  |   '--approve--> TrustedInfrastructureService --append/verify--> ledger
                       v  | put after every node        (two result caches in memory)
                  _process task --astream--> workflow graph --create_quote--> remote suppliers
```

* `submit` stores a draft and schedules a task, `create` stores a draft and awaits
  its processing. The REST API (`api.py:204-205`) and the A2A gateway call `submit`,
  so their clients see the deal while the task is still at work; `create` is what
  the demo and the tests call.
* A client follows a deal by its event stream, which reads the deal every 250 ms.
* Onboarding writes the tables of organizations and registrations and changes the
  registry that `discover` reads; at a start `restore` fills it from the table.
* The task streams the states of the graph. After every node it overwrites the
  deal's row, and after the stream it does so once more (`deals.py:113-140`).
  It holds no lock.
* `approve`, `decide` and `sign_payment` hold one `_approval_lock` for all deals,
  read the row, check it, and overwrite it. Between the read and the write of
  `approve` lies the purchase.
* `put` overwrites the row, whatever it holds, and adds to the journal those
  events whose positions the journal has not reached (`store.py:255-310`).
* A deal's purchase is remembered in two dictionaries keyed by the deal id. They
  die with the process; the anchors do not.
* At startup `resume_incomplete` schedules at most 200 drafts again.

### 1.3 What is hard here

The service is one event loop, so between two `await`s nothing else runs; but
every database access is an `await`. The hard behaviours follow from that:

* the unlocked background task against the locked calls, on one row;
* the same row read before an `await` and written after it, with only the terms
  checked that were read;
* one business step made of several transactions (purchase and row, row and
  outbox), with a crash or a failing transaction in between;
* results that live in memory next to facts that live in the database;
* repeated requests: by a client that got no answer, or by two clients;
* several processes appending to the same chains, ordered only by a unique
  constraint.

`PROJECT.json` lists each hazard with its line and with the properties that would
catch it.

### 1.4 What makes each part correct

* *Deal service*: a decision stands once it is in the journal; a deal gets one
  order and payment draft, for the terms a human approved; nothing is awarded
  before approval and signature, and only to one supplier; a draft always comes
  to a result; the lock is always released.
* *Workflow*: a deal offered for approval has a recommended, approvable quote.
* *Store*: the journal grows only, and shows what happened.
* *Trust controls*: a payment draft is bound to an anchored intent; a deal's
  purchase is anchored once per process.
* *Ledger*: chains verify, however many processes append; damage shows; an
  append fails only on account of another process.
* *Remote client and supplier*: the quote taken answers the attempt under way and
  is of recent terms; a supplier is given up only after all attempts; the attempts
  of all suppliers together end.
* *Event stream*: a client is sent the journal, without gaps or repetitions, and
  its stream ends.
* *Onboarding*: the registry follows the stored registrations, however requests
  overlap; a suspended or revoked agent stays out; one organization per tax id.
* *Tool runtime*: a key has one result; an effect is repeated only after a failure
  was reported; what a caller is given is audited.
* *Ranking*: the recommendation is the eligible offer with the best score, and never
  one that another offer beats in every respect.

## 2 The modules

| Module | Models | Extends |
|---|---|---|
| `HashChain` | the chain as operators on a sequence of anchors: what `append` derives, what `verify` checks | - |
| `AnchorLedger` | `ledger_anchors` under concurrent appends of several processes | `HashChain` |
| `DealStore` | the tables of a deal and the transactions on them | - |
| `ProcurementGraph` | the nodes and edges of the workflow, as operators on a deal record | `DealStore` |
| `TrustInfrastructure` | the controls of an approved purchase, the ledger and the two caches | `DealStore`, `HashChain` |
| `DealService` | the A1 process: tasks, calls, lock, crash, restart, faults, expiry | `ProcurementGraph`, `TrustInfrastructure` |
| `DealLifecycle` | the abstract specification: what a client is promised about a deal | - |
| `SupplierExchange` | `create_quote` with its attempts, the supplier's answers, the `gather` around them | - |
| `QuoteCollection` | the abstract specification: what the workflow relies on when it asks for quotes | - |
| `DealStream` | the event stream of a deal, next to everything that changes the deal | `DealService` |
| `Onboarding` | organizations, registrations and the registry in memory | - |
| `ToolRuntime` | `execute`: checks, lock, remembered results, handler, audit hook | - |
| `Ranking` | `compare_quotes` as operators on a sequence of offers | - |
| `MCAnchorLedger`, `MCDealService`, `MCDealStream`, `MCSupplierExchange`, `MCOnboarding`, `MCToolRuntime`, `MCRanking` | instances for TLC | |
| `HashChainProofs`, `AnchorLedgerProofs`, `DealServiceProofs`, `DealHistoryProofs`, `SupplierExchangeProofs`, `OnboardingProofs`, `ToolRuntimeProofs`, `RankingProofs` | theorems | |

### 2.1 AnchorLedger

A *writer* is a coroutine inside `append`. `ReadLatest` is everything up to
`session.add`: it takes the lock of its process, reads the latest row and builds
the anchor. `Commit`, `Collide` and `Rollback` are the three ends of the
transaction; each also releases the lock, since both context managers end there.
Two writers of different processes may hold anchors built from the same row: the
guard `Unique` (the two unique constraints) lets one of them commit.
`EditRow` and `DeleteRow` are damage from outside: the runbook forbids it and
asks to verify the chain after a restore. SHA-256 is taken to be free of
collisions, so a digest *is* the sequence of what went into it; that makes
`Verifies` the recomputation it is in the code, and makes injectivity a lemma
(`AnchorHashInjective`) rather than an assumption.

### 2.2 DealStore, ProcurementGraph, TrustInfrastructure

`deals[d]` is the row as JSON payload and status, `log[d]` the journal,
`outbox[d]` the fate of each possible message. `Put` has the code's two effects:
it overwrites the row, and appends `NewEvents`, the events at positions the
journal has not reached. `published` and `issued` are history variables: the
approval snapshots and the payment draft ids the rows of a deal ever showed. They
stand for what clients know (a client can only send a hash or an id it has seen)
and for what must not happen twice.

A quote is named by its supplier and the *life* (the run of the process) that
collected it, because every run of the workflow collects quotes with new ids.
Everything that copies the terms of one quote (snapshot hash, purchase intent,
order, payment draft) is modelled by that quote. A payment draft also has an
`id`, the life that created it: `uuid4` makes a new id, and within a life the
cache returns the old one.

Each node of the graph is an operator from record to record; a choice that comes
from outside is a parameter (`answered`: which suppliers sent a quote;
`eligible`: which quotes passed the hard constraints; `best`: which of them
scored highest). The routers are the code's conditions.

`TrustInfrastructure` keeps the order of the code: cache, policies, anchor,
oracle, kill switch, draft. `AppendAnchor` is one step here; `AnchorLedger` is
the place where it is taken apart.

### 2.3 DealService

A step is the code between two database transactions together with the second
one. The task: `StartProcess` (read the draft; the graph emits its input),
one action per node, `FinalPut`; `RankRaises` and `FailedPut` for an exception
inside the stream; `TaskFault` for a failing transaction, with the difference the
code makes between the inside and the outside of its `try`. A call: a `Begin...`
action takes the lock, reads the row and makes all checks; then come the steps
of the purchase (`AnchorIntent`, then `CreateDraft` or `RefusePurchase`), the put,
and for a signature the two outbox transactions; `CallFault` is a failing
transaction in any of them, after which the exception leaves the lock. What a call
logs it logs in one batch: `approve` four events (`ApprovalEvents`), a decision one, and
`sign_payment` the signature followed by the message log of the purchase
(`LifecycleEvents`), in which the approval appears once more (`deals.py:590-599`).
Events of one kind that are logged in a row, such as a rejection per supplier, are
one event of the model.

A request that the code answers with an error before it changes anything is no
step. Requests by somebody other than the approver the mandate names are such
requests and are left out.

`Crash` loses the tasks, the calls, the lock and both caches. `Restart` begins a
life with a kill switch value of its own (it is read from the configuration) and
schedules the drafts it lists, at most `ResumeLimit` of them. `Lapse` is the clock
passing the mandate's or the quotes' date.

Two constants say what clients do. `Synchronous`: they act on a deal only when its
task has ended, as callers of `create` do, or as soon as they see it, as clients of
`submit`, and so of the REST API, can. `HashKnowledge`: they send snapshot hashes the deal has shown, as the
frontend does, or compute the hash of any quote of the deal themselves, which the
API permits.

### 2.4 DealLifecycle

The state diagram of `docs/ARCHITECTURE.md` with the terms fixed at approval: a
deal moves forward only, is decided once, its order never changes afterwards, and
an award goes to the order's supplier after the signature. `DealService`
instantiates it (`Lifecycle`) with the status, order and awards it stores, and
`ImplementsLifecycle` is its specification.

### 2.5 SupplierExchange and QuoteCollection

One node of the workflow, `request_quotes`, taken apart. `Ask` is the `gather` that
starts one `create_quote` per supplier; which suppliers the registry still knows is
its choice. An attempt is an HTTP exchange, named by the life of A1 and the number
of the attempt as its envelopes are by their correlation ID. `Send` signs an RFQ of
its own for the attempt. `Execute` is the whole of the supplier's `execute`: it
refuses an expired RFQ, and else looks the product up. It remembers no idempotency
key, and it does not notice that the client has gone. `Receive` ends the call with
a quote that has not expired or with `no_quote`, which is not signed and has no
lifetime. `AttemptFails` is every exception `create_quote` catches (`httpx.HTTPError`,
`TimeoutError`, `ValueError`), `AttemptRaises` every other one, which ends the call
at once: what the A2A client library raises is not decided in this repository, so
both are possible whenever an attempt is under way. `Collect` is the end of the
`gather`, with exceptions among its results.

A message that is lost simply stays in `net`. An answer to a closed exchange is
dropped, because the HTTP connection is closed. `Current` stands for both that and
the comparison of correlation IDs. A1 and the suppliers share one clock.

`QuoteCollection` says the same thing in one step, the step `RequestQuotes` of
`ProcurementGraph`: some of the suppliers that sell the product, with a quote of
this life each. `ImplementsCollection` is what allows `DealService` to be checked
with that one step.

### 2.6 DealStream

`DealStream` extends `DealService`, so a stream reads a deal between any two steps of
tasks, calls, crashes and restarts. `Poll` is one round of the generator of
`stream_deal_events`: it reads the deal, sends the events beyond its position and
ends at a state of its list. `Open` is the request; its `after` is the number of the
last event the client has, as the `id:` of each event tells it. `Disconnect` is a
connection lost or closed. A crash ends all streams. The frontend opens one stream
per deal and sends no `after` (`frontend/src/App.tsx`), which is the first `Open` of
a watcher. That a client receives the closing event is not claimed: the
connection may be lost with it.

### 2.7 Onboarding

A request of an administrator is three transactions long at most: read, write, and
then the change of the registry in memory. Between them it waits for the agent card
and the contract check. `BeginUpdate` and `BeginCheck` read the whole registration,
`Verify` is the answer of card and check, `Put` overwrites the row with what was read
and changed, `Apply` registers or unregisters. `Fail` is a failing transaction, or an
exception of the card request that `check_agent` does not catch. Nothing orders two
requests. A registration is its status and its contract status; the organization,
endpoint and categories change no step.

The contract check asks the agent for a quote without a mandate and a deal
(`onboarding.py:210`), and `RemoteSupplierAgent.create_quote` refuses that before
it sends anything (`remote.py:61-62`). `Contract` says so: no check passes. The
registrations of `Init` are arbitrary, because the table is older than the check
(`docs/CURRENT_AUDIT.md:10`): rows that passed an earlier one are restored.

### 2.8 ToolRuntime

Calls that pass the static checks are numbered; the number also names the run of the
handler and its result. `queue` is the lock with its waiters in order. `Fail` is a
handler that raises, one that `asyncio.timeout` ends, and one whose result the
output schema refuses; in each case it may have had its effect. `Succeed` remembers
the result and gives up the lock, and only then comes the audit hook (`Audit`,
`AuditFails`). `Repeat` returns a remembered result without it. Nothing in the running
service calls the runtime yet; its tests do.

### 2.9 Ranking

`compare_quotes` keeps no state, so `Ranking` has no steps: it is the hard constraints
(`Acceptable`), the five component scores, each clamped to 0..100 and rounded half up
to a hundredth, their weighted sum, clamped and rounded again, and the stable sort by
score and then by lower cost. Decimals are integers in their smallest unit. `SortKey`
is `total_score or -1`, `DividesByZero` the exception of a zero cost, the case
`RankRaises` of `DealService`. SKU, quantity and currency are one value, `goods`.

## 3 Properties and runs

| Run | Instance | What it shows |
|---|---|---|
| `anchor_ledger` | 2 deals, 2 payloads, 3 writers in 2 processes, 2 anchors per deal, 1 failed transaction, 1 damaged row | `TypeOK`, `ChainVerifies`, `TamperEvident`, `OnlyOtherProcessesCollide` |
| `deal_submit` | clients of `submit`; 1 deal, 3 suppliers, 2 callers, 2 lives, 2 faults, both expiries, both kill switch values, mandates that stop a deal at each gate | `TypeOK`, `ApprovedTermsMatch`, `PaymentIsAnchored`, `LedgerVerifies`, `AwardIsFinal`, `PurchaseAnchoredOnce` |
| `deal_create` | clients that wait for the task, as those of `create`; as above with 3 lives and one permissive mandate | `HumanDecisionStands`, `OnePaymentDraft`, `ImplementsLifecycle` |
| `deal_progress` | 1 deal, 2 callers, a watcher, 2 lives, fairness | `StreamFollowsJournal`, `DraftsAreProcessed`, `LockIsReleased`, `StreamsEnd`; the assumptions of `MCRanking` |
| `onboarding` | an agent and a seed, 1 tax id, 2 administrators, 2 lives, every registration at first | `TypeOK`, `OneOrganizationPerTaxId`, `RegistryFollowsStore`, `RevokedStaysOut` |
| `tool_runtime` | a model and a person, a tool for both, one for the person, one that needs a human; 3 calls, 2 keys, 2 lives, fairness | `TypeOK`, `OneResultPerKey`, `NoSilentRepetition`, `AnswersAreAudited`, `CallsEnd` |
| `supplier_exchange` | a supplier that sells and one that does not, 2 attempts, 2 lives, envelopes of one tick, 2 ticks, fairness | `TypeOK`, `QuoteIsFresh`, `RetriesMaskFailures`, `QuotesBounded`, `ImplementsCollection`, `CollectionEnds` |
| five `violation` runs | see section 4 | |

Why each property is worth its run:

* **ApprovedTermsMatch.** The row, the cache and the ledger are written by
  different steps, and the cache outlives a failed put. The property relates six
  fields of the row and the ledger: they all speak of one offer. It depends on
  what clients know (`HashKnowledge`), and fails without it (section 4).
* **PaymentIsAnchored.** Between the anchor and the draft lie the oracle, the
  kill switch, a fault or a crash; still no draft is remembered whose intent is
  not at the position its purchase names.
* **PurchaseAnchoredOnce.** Two approvals of one deal, or a repeated one, are one
  purchase per process. Across a crash they are not: the cache is gone and a
  second anchor is written. That is why the property speaks of `purchases`.
* **AwardIsFinal.** Award and rejections are computed from different fields of a
  record read before two transactions; the property also orders approval and
  signature in the journal.
* **HumanDecisionStands, OnePaymentDraft, ImplementsLifecycle.** They hold only
  for clients that wait for the task, and that they do so through crashes, resumed
  drafts and failing transactions is not obvious: a resumed draft overwrites rows
  too. `HumanDecisionStands` says that the decisions a journal tells of are the one the
  row shows, and that a second one is told only between the deal's one signature and
  its messages; it counts positions and not events because the signature really does
  log the approval again. A crash between `CreateDraft` and `PutApproval` loses a draft that no row has
  shown, so the second one is the only one.
* **ChainVerifies, OnlyOtherProcessesCollide.** Processes race between read and
  insert. Constraint and lock divide the work: the constraint keeps the chain
  whole, the lock keeps a single process from ever being refused.
* **TamperEvident.** What `verify` really exposes: a row whose payload hash was
  changed, or a hole. A chain cut short at its end still verifies, and since the hash
  has no key so does one whose last row was rewritten with a digest of its own; the
  first is in the model, the second is left out of it (`EditRow`), and the property
  claims neither.
* **QuoteIsFresh.** Each side checks the lifetime of the one envelope it receives;
  that together they bound the age of the terms a buyer ranks, across any delay
  on the way, is stated nowhere.
* **RetriesMaskFailures.** The count of attempts against the failures that really
  happened: with fewer failures than attempts a caught error never ends a call. An
  error that `create_quote` does not catch (`AttemptRaises`) ends it at once, and the
  property says nothing of such a call.
* **QuotesBounded.** The other side of a retry: the supplier quotes again for each
  attempt, also for those nobody waits for and those of a crashed buyer, and never
  more often than that.
* **ImplementsCollection.** Late answers and restarts cannot be seen in the result.
* **StreamFollowsJournal.** The position of a stream, the journal and a client's
  memory belong to three parties; the journal is extended by a task that may have
  started over with events of its own at positions the client has passed.
* **StreamsEnd.** The stream looks only every 250 ms, so it never sees states that
  pass in between, and would go on for ever if a later state were not on its list.
* **RegistryFollowsStore.** An onboarded agent that is asked for quotes is active in
  the table, or about to be taken out, although requests overwrite each other's
  rows and the registry is changed after the row.
* **RevokedStaysOut.** A check that read the registration before its suspension
  writes the old status back. The agent stays out all the same, but only since what
  is written back carries a failed contract, because no check passes (section 4);
  with a check that can pass, TLC finds the agent in the registry again.
* **OneOrganizationPerTaxId.** Both requests have looked before either inserts.
* **OneResultPerKey, NoSilentRepetition.** The remembered result, the lock and a
  handler with effects: whoever overlaps with whom, and whatever failed before, a
  caller that was not told of a failure has caused one effect.
* **AnswersAreAudited.** It says exactly how far the audit goes: a result reaches a
  caller without an audit record only as a repetition, while the hook is at work
  on the first call or after it failed.
* **DraftsAreProcessed, LockIsReleased, CollectionEnds, CallsEnd.** Section 3.2.

### 3.1 Bounds

`MaxLives` bounds the runs of the process, `MaxFaults` failing transactions,
`MaxAnchors` the anchors of a deal, `MaxEdits` damaged rows. They are guards of
`Crash`, the fault actions, `BeginApprove`/`ReadLatest` and the edits.

* Two lives are one crash at every possible point and everything after it; the
  run with three has a resumed run crash too. Two faults let a retry fail as well.
* Three suppliers are the fewest with which a deal can have a winner, a losing
  quote and a supplier that sent none, with `MinimumQuotes = 2`.
* Two callers are all the lock can tell apart. One deal is enough for safety,
  since deals share only the lock, which one caller on another deal would hold
  exactly as one on the same deal does. In `deal_progress` the second caller is what
  another deal's call would be: somebody who holds the lock.
* Three anchors per deal are one more than the two faults or crashes of an
  instance can leave behind, so the bound cuts off no retry.
* Two processes with two writers in one of them have a race inside a process and
  a race between processes. One damaged row suffices to break a chain; later
  damage only adds to it.
* `ResumeLimit` is 200 in the code. In `deal_create` and `deal_submit` it is one,
  and with one deal always suffices. Beyond the limit drafts wait for a later start, which is a limit of the code
  and no property.
* In `supplier_exchange` an envelope lives one tick, so that with two ticks an RFQ
  can expire at the supplier and an answer on its way; two attempts have a first,
  a retry and a last one; two lives let answers of a crashed buyer come late. The
  two suppliers share nothing but the `gather`.
* In `onboarding` one agent is a seed and one is not, which is all that tells agents
  apart; rows of different agents meet only in the registry. Two administrators are a
  race; `MaxOrganizations` is one more than the property allows.
* In `tool_runtime` three calls are a call, a repetition and one in between, with the
  second key for a call that shares only the lock; a restart loses the results.
* `MCRanking` lists all pairs of 72 offers under three weightings.

Callers, administrators and suppliers are symmetric in the safety runs; no run with a liveness
property uses symmetry. Deadlock checking is off since every deal of an
instance may reach its end.

### 3.2 Fairness

`FairSpec` assumes weak fairness of `TaskStep(d)` for every deal, of `CallStep(c)`
for every caller, and of `Restart`. The first two are the event loop: a scheduled
task or a coroutine whose database call has returned is run. The third is
whoever operates the process and starts it again: `compose.yaml` sets no restart
policy, so the repository itself does not promise it, and the property is about
what the code does once it is started.
Nothing is assumed of clients, of the clock, of faults or of crashes. Each actor
has one step enabled at a time, so weak fairness of its disjunction suffices.

`FairStreamSpec` adds weak fairness of `Poll` for every watcher: the event loop wakes
the generator after its sleep. `StreamsEnd` therefore rests on `DraftsAreProcessed`.

`FairSpec` of `ToolRuntime` assumes weak fairness of `LockStep(n)` for every call: the
event loop runs it, `asyncio.timeout` ends a handler that hangs, and `asyncio.Lock`
wakes its waiters in turn, which the queue models. Nothing is assumed of the audit
hook, which has no timeout: `CallsEnd` takes a call to its own hook and says that no
call waits behind another's.

`FairSpec` of `SupplierExchange` assumes weak fairness of `Begin`, of `CallStep(s)` for
every supplier, and of `Collect`. Nothing is assumed of suppliers or the network: the
HTTP client's timeout (`timeout_seconds`, always set) is what makes a call without
an answer take a step. (It limits each read; a supplier that sent its answer byte
by byte for ever is left out.) `CollectionEnds` is what the fairness of `CollectQuotes` in
`DealService` rests on.

`deal_progress` allows a crash but no failing transaction, because with one
`DraftsAreProcessed` is false: the first read and the last put of the task are
outside its `try`, and a fault there leaves a draft until the next start.

## 4 Where code and documents disagree

Each of these is a run that TLC must find violated; `PROJECT.json` quotes the
document, test or comment.

1. **A lost decision** (`LostDecision.cfg`, `HumanDecisionStands`). A client of
   `submit` decides a deal between the last put of the stream and the put after
   it; the second put stores the deal as awaiting approval again, while the
   journal keeps the decision. No crash or fault is needed.
2. **A stale snapshot** (`StaleSnapshot.cfg`, `AwaitingIsApprovable`). A crash
   after ranking leaves a draft that already shows a snapshot. The resumed run
   collects new quotes and keeps the old snapshot, which no approval can match.
3. **An unlogged failure** (`UnloggedFailure.cfg`, `FailureIsLogged`). The
   `workflow_failed` event is placed after the events of the draft, at a position
   the journal has reached, and is skipped.
4. **Lost messages** (`LostMessages.cfg`, `CompletedIsQueued`). A crash between
   the put of the completed deal and its outbox transaction: the messages are
   never written, and the repeated signature returns early.
5. **A shared purchase** (`SharedPurchase.cfg`, `ApprovedTermsMatch`). The put of
   an approval fails; approving another quote then gets the cached purchase of
   the first. It takes a client that computes a snapshot hash itself.

Two more disagreements have no run of their own:

* **Onboarding cannot complete.** `docs/REAL_A2A_CONTOUR.md:56-63` says of registration
  that it will "Activate the agent only if the endpoint returns a valid `quote` or
  `no_quote` artifact" and "Add the agent to the live supplier registry without code
  changes", and `docs/IMPLEMENTED_MVP.md:56-62` says the same. But the contract check
  (`onboarding.py:182-210`) asks for its quote without a mandate and a deal, and
  `RemoteSupplierAgent.create_quote` refuses that before it sends anything
  (`remote.py:61-62`), so no check passes, no registration becomes active, and no agent
  joins the registry while A1 runs. The test of a successful registration
  (`tests/test_onboarding.py:30-66`) replaces `_check_agent_contract` by a function that
  passes. This is read off the two functions: `Contract` states the refusal, and a
  property that it keeps agents out would only repeat it. What does not follow from it
  alone is checked: `RevokedStaysOut` holds because of it, and a repaired check needs a
  guard against the stale row as well.
* **A remembered result hides a failed audit.** `AnswersAreAudited` names the case:
  the first caller saw an exception, every later one gets the result.

## 5 What is proved

Apart from five theorems of `DealHistoryProofs`, which say which clients they are
about, no theorem assumes anything but the named assumptions on the constants
(`LedgerAssumption`, `StoreAssumption`, `NoneAssumption`, `ExchangeAssumption`, `TrustAssumption`,
`GraphAssumption`, `ServiceAssumption`, `WatcherAssumption`, `OnboardingAssumption`, `RegistrationAssumption`,
`RuntimeAssumption`, `OneAssumption`): constants have their types and `None` is
not a value. So the theorems hold for any number of deals, suppliers, callers,
processes and lives, and, but for those five, for both kinds of clients.

**The chain** (`HashChainProofs`). `AnchorHashInjective`: a digest determines
number, predecessor and payload. `NextAnchorVerifies`: `append` keeps a chain
verifying. `PayloadBound`: two anchors of a deal that carry their own digests and
agree on number, predecessor and digest are equal.

**The ledger** (`AnchorLedgerProofs`).

* `TamperEvidence`. The inductive invariant `EvidenceInv` says that every row has
  the number, predecessor and digest of some committed anchor, and that committed
  anchors carry their own digest. An edit can change a payload hash but not
  those; a row that verifies carries its own digest, so by `PayloadBound` it is
  the committed one. `TamperEvident` alone is not inductive: it says nothing of
  rows while a chain does not verify.
* `ChainsVerify` and `OthersCollide`. `ChainInv` adds that a busy writer holds the
  lock of its process (`LockHeld`) and that its anchor continues the chain as it
  was read, while everything after that point was committed by other processes
  (`WritersContinue`). A commit whose number is free can only continue the whole
  chain; a number that is taken was taken by another process.

**The deal service** (`DealServiceProofs`).

* `TypeCorrect`. Not a formality: an approval writes the artifacts its call
  carries and a workflow writes the request of the draft it read, so `TypeOK`
  needs that no call reaches its put without them. `TypeInv` says that every deal
  beyond `absent`, and every task and call, has a request (`RequestsKnown`), that
  a call under way holds the lock and what its next step needs (`CallsHold`), and
  that the process is down only between two lives.
* `LedgersVerify`, `PaymentsAnchored`, `AnchoredOnlyOnce`. `TrustInv` adds that
  both caches of a deal are filled together with one purchase (`CachesAgree`) and
  that a call between the cache lookup and the draft works on a deal without a
  purchase, and from the anchor on with its intent in the ledger
  (`PurchaseUnderWay`). Since only the holder of the lock is under way
  (`OnlyCall`), no other call can fill the caches meanwhile.

* *Who writes a row* (no theorem of its own, but every one of the next module rests on
  it). `WorkInv` says that a deal is a `draft` while its task is scheduled, runs or has just
  failed, and no call touches a draft; while the workflow runs the row is the record of its last
  state; the put after the workflow repeats a record whose events are all logged; and no
  node but the ranking shows a snapshot, and only where none was shown, however often the
  deal is resumed. `StepForms` then states what all steps come to: a task writes a row or
  keeps it, a call begins, approves, declines, signs or goes on, the process crashes,
  starts or rests. The proofs below have one step per form instead of one per action.

**The history of a deal** (`DealHistoryProofs`). Some of it is true only for clients that
behave as the documents describe, and those theorems say so in their `ASSUME`:
`Synchronous` (clients wait for the task, as callers of `create` do) and
`HashKnowledge = "shown"` (they send hashes the deal has shown, as the frontend does).
Both describe the environment, not the code, and neither is idle: the runs `LostDecision`
and `SharedPurchase` refute the same properties for other clients. Of `Crash`, `Restart`,
failing transactions and expiry nothing is assumed away.

* `OrderInv`, for all clients: a row shows a payment draft if and only if the deal is
  approved, and no task or deciding call carries one. Every theorem below starts from it.
* `DecisionsStand`, `OneDraftPerDeal` (`Synchronous`). `HumanDecisionStands` relates the
  row to the journal, but a step that overwrites the row starts from what a task or a call
  has read before. `StandsInv` adds that nobody has touched the row since: the final put
  repeats the row (`TaskStands`), a call under way holds the row as it is
  (`CallStands`), and a call is under way only where no task is. The journal of an
  undecided deal tells of no decision, that of a decided one of the decision the row
  shows (`Decided`), and that of a completed one of an approval, the signature, and the
  approval again two events later (`Concluded`); the drafts ever
  issued for a deal are the one its row shows, and nobody but the selected supplier of
  a completed deal is awarded.
* `TermsMatch` (`"shown"`). `TermsInv` says that all snapshots a deal has ever shown are one
  and the same, and that whatever is cached, carried by a call, stored or signed for it
  was shown; hence the six fields of the row and the anchored intent agree. That a
  resumed deal shows no second snapshot is the part that `WorkInv` supplies. It holds for
  clients of `submit` too, whose decisions can be lost: a repeated approval is of the
  same terms.
* `AwardsFinal` (`"shown"`). `AwardInv` adds that a row that can be signed was approved
  in its journal, and that a message in the outbox is about a shown quote: as all of them
  are one, nobody is both awarded and rejected, even when a signature is repeated.
* `ServiceImplementsLifecycle` (both). Under `StandsInv` and `TermsInv` every form of step
  is a move of `DealLifecycle` or a stutter: the puts of nodes stutter or end the
  analysis, `Declines` and `Approves` are the decision, `Signs` completes, and the outbox
  transaction is the award. A crash or restart stutters.

**The event stream** (`DealHistoryProofs`), for any number of watchers and all clients.

* `StreamsFollow`. Whatever record a task or a call puts, the journal keeps what it
  has and grows at its end (`NextGrows`, from `TypeInv`), so the beginning of a journal
  stays its beginning (`BeginningsStay`). `PositionsHold` says that the position of an
  open stream is the number of the last event sent; a round then sends exactly the rest
  (`RoundCompletes`). `StreamFollowsJournal` alone says nothing of positions.

**The exchange with suppliers** (`SupplierExchangeProofs`), from `ExchangeAssumption` and
`NoneAssumption`, for any suppliers, number of attempts and lifetime.

* `QuotesAreFresh`. `MessagesInTime` says that an RFQ on its way was signed when its
  exchange began and a quote less than one lifetime later; the check of the buyer
  adds the second lifetime.
* `AllAttemptsAreMade`. `FailuresCounted` ties the number of the attempt under way to
  the failures so far; the property alone says nothing of a call that has not ended.
* `ExchangeImplementsCollection`. `CallsHoldQuotes` says that a call that ended with a
  quote holds one of this life from a supplier that sells; then `Collect` is the
  abstract `Collect` for the suppliers whose calls did, `Restart` is `StartAgain`, and
  every other step stutters.
* `QuotesAreBounded`. `QuotesCounted` counts, for each supplier, the quotes made and the
  RFQs it may still answer, which together are at most the attempts made in this life and
  `MaxAttempts` for each life before. The property alone is not inductive: an RFQ that a
  crash left with a supplier becomes a quote in a later life.

**Onboarding** (`OnboardingProofs`), for any agents, seeds, tax ids and number of
requests at a time: all four properties of the run. `RequestsHold` says what a request
carries at each point of its way. `WritesCannotBeRestored` is the heart: no request
writes a row that is both active and passed, and from its put until it is applied no
other request makes the row so; hence `RevokedCannotBeRestored`, and a restart
restores none of them. `RegistryFollowsStore` alone is not inductive: a check that
read a suspended row writes it back over the status of another request. `ReadersKnow`
says that whoever read such a row comes after the request that wrote it, so that the
agent is out of the registry or about to leave it.

**The tool runtime** (`ToolRuntimeProofs`), for any callers, tools, keys, calls and lives:
its four invariants. `CallsUnderWay` says that a running handler holds the lock, for a
key without a result; `ResultsRemembered` that a remembered result is that of a run of
this life which had its effect, `AnswersRemembered` that what a call was answered in
this life is what its key remembers. So a handler that starts is the first of its key
to end well, whoever overlaps with it. `EffectsAreOver` and `LivesPast` let a restart,
which forgets the results, leave the properties of earlier lives alone.

**The ranking** (`RankingProofs`), for any number of offers, any weights and limits,
when some offer is eligible and none costs nothing.

* `RecommendationIsBest`. That an offer sorts before all others needs three nested
  minima (`SomeOfferSortsFirst`): the least lack of score, the least cost, the first
  position. `SortKeyFollowsScore` makes minus one for zero harmless.
* `RecommendationIsUndominated`. A rounded quotient grows with its numerator and
  shrinks with its denominator (`ScoreOfMonotone`, `ScoreOfAntitone`), so each component
  and the total follow dominance weakly (`ScoreFollowsDominance`); at equal totals the
  cheaper offer comes first.
* `RecommendationIgnoresOrder`. The minima depend on the set of offers only.

Every invariant and every action property of the passing runs is stated by a theorem, and
so are both refinements. *Only model-checked* are the liveness properties
(`DraftsAreProcessed`, `LockIsReleased`, `StreamsEnd`, `CallsEnd`, `CollectionEnds`),
because the prover handles neither fairness nor ENABLED, and the five violations, which
are traces. The assumptions of `MCRanking` evaluate the functions of `Ranking` on given
offers and remain tests of the translation.

## 6 What is not modelled

* *LLM adapters*: an explanation has a deterministic fallback on every error and
  changes no decision; parsing text is I/O.
* *Integration mocks*: pure functions in every call the service makes; the order
  gateway is not called at all.
* *Outbound policy, configuration, wiring, migrations, schemas, frontend, scripts*:
  no state of their own at run time. What the frontend sends is an input.
* *Cryptography*: hashes are free of collisions; signatures are not modelled. The
  states of A2A tasks, which no client reads, and `cancel` are left out.
* *MCP, trust API*: they read. The A2A gateway calls `submit`.
* *The in-memory store of the tests*, and `initialize` of the store.
* *A caller that is cancelled* inside the tool runtime or a request of onboarding: the
  lock is given up as after any other exception.
* *The seed that comes back*: a seed that was revoked is in the registry again after a
  start, and a stored registration replaces a seed by an agent without a key store.
  Both are visible in `StartedRegistry`; no document promises otherwise.
* Concurrent `create` requests for one deal: ids are fresh, so a deal is created
  once (`Submit` needs status `absent`).

## 7 Plan

Modelled, in this order: `HashChain`, `AnchorLedger`; `DealStore`, `ProcurementGraph`,
`TrustInfrastructure`; `DealService`; `DealLifecycle` and its refinement;
`SupplierExchange`, `QuoteCollection` and theirs; `DealStream`; `Onboarding`;
`ToolRuntime`; `Ranking`. No component that keeps state is left.

Proved, in this order: types; the chain and the ledger; the trust controls; the exchange
and its refinement; stream, onboarding, tool runtime and ranking; the history of a deal
and the refinement of `DealLifecycle`. Left: an abstract log that only grows, which `AnchorLedger` implements while
nobody edits its rows; `TrustInfrastructure` takes an append for one step of it.

## 8 Running it

```
tlc -workers 2 -config DealSubmit.cfg MCDealService
tlc -workers 2 -config AnchorLedger.cfg MCAnchorLedger
tlc -workers 2 -config SupplierExchange.cfg MCSupplierExchange
tlc -workers 2 -config DealProgress.cfg MCDealStream
tlc -workers 2 -config Onboarding.cfg MCOnboarding
tlc -workers 2 -config ToolRuntime.cfg MCToolRuntime
tlapm DealServiceProofs.tla
tlapm DealHistoryProofs.tla
```

The larger runs (`DealSubmit.cfg`, about 460,000 states, `DealCreate.cfg`, about
710,000, `SupplierExchange.cfg`, about 980,000, and `Onboarding.cfg`, about 1,570,000) take a minute or two, the proofs together about ten minutes.
