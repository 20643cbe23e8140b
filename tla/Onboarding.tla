----------------------------- MODULE Onboarding -----------------------------
(***************************************************************************)
(* AgentOnboardingService (services/onboarding.py) with the tables of      *)
(* organizations and agent registrations (services/store.py) and the       *)
(* registry in the memory of A1 (suppliers/mock.py), whose agents are      *)
(* asked for quotes.                                                       *)
(*                                                                         *)
(* A request of an administrator reads a registration, waits for the agent *)
(* card and the contract check, and writes the whole registration as it    *)
(* was read with its changes.  No lock orders two requests.  A request the *)
(* code answers with an error before it waits for anything is no step.     *)
(*                                                                         *)
(* The contract check asks a remote agent for a quote without a mandate    *)
(* and a deal, which RemoteSupplierAgent.create_quote refuses before it    *)
(* sends anything.  So in this version no check passes; the registrations  *)
(* the tables hold at first are those of earlier versions.                 *)
(***************************************************************************)
EXTENDS Naturals

CONSTANTS
  Agents,    \* agent ids
  Seeds,     \* the agents of the configuration
  TaxIds,    \* tax ids of organizations
  Admins,    \* concurrent requests
  MaxLives,  \* bound: runs of the A1 process
  MaxOrganizations,  \* bound: organizations inserted per tax id
  None       \* no row, no agent

ASSUME OnboardingAssumption ==
  /\ Seeds \subseteq Agents
  /\ None \notin Agents \cup TaxIds
  /\ MaxLives \in Nat \ {0}
  /\ MaxOrganizations \in Nat

Status == {"pending", "active", "suspended", "revoked"}

ContractStatus == {"unknown", "passed", "failed"}

\* Endpoint, categories and the snapshot of the card do not matter here.
Registration == [status : Status, contract : ContractStatus]

\* A seed can sign requests; a restored agent has no key store.
Entry == {"seed", "restored"}

ASSUME RegistrationAssumption == None \notin Registration \cup Entry

VARIABLES
  organizations,  \* per tax id: the rows of the table organizations
  rows,           \* per agent: its row of agent_registrations, or None
  registry,       \* per agent: what the registry holds for it, or None
  request,        \* per admin: the request under way
  up,             \* the A1 process runs
  life,           \* the number of its current run
  revoked         \* history: agents a request has taken out of the registry

vars == <<organizations, rows, registry, request, up, life, revoked>>

Operation == {"none", "organization", "register", "update", "check"}

\* verify: the card and the contract are next; apply: the registry is.
PC == {"idle", "insert", "verify", "put", "apply"}

Request ==
  [op : Operation, pc : PC, taxId : TaxIds \cup {None}, agent : Agents \cup {None},
   row : Registration]

NewRow == [status |-> "pending", contract |-> "unknown"]

NoRequest ==
  [op |-> "none", pc |-> "idle", taxId |-> None, agent |-> None, row |-> NewRow]

\* The registry at a start: build_container takes the seeds, restore puts the
\* active registrations that passed their check over them.
Restorable(row) == row = [status |-> "active", contract |-> "passed"]

StartedRegistry ==
  [a \in Agents |->
     IF Restorable(rows[a]) THEN "restored" ELSE IF a \in Seeds THEN "seed" ELSE None]

Init ==
  /\ organizations = [t \in TaxIds |-> 0]
  /\ rows \in [Agents -> Registration \cup {None}]
  /\ registry = StartedRegistry
  /\ request = [c \in Admins |-> NoRequest]
  /\ up = TRUE
  /\ life = 1
  /\ revoked = {}

Begin(c, new) ==
  /\ up
  /\ request[c] = NoRequest
  /\ request' = [request EXCEPT ![c] = new]

End(c) == request' = [request EXCEPT ![c] = NoRequest]

-----------------------------------------------------------------------------
(* Organizations.                                                          *)

\* put_organization finds no row with the tax id.
BeginOrganization(c, t) ==
  /\ organizations[t] = 0
  /\ Begin(c, [NoRequest EXCEPT !.op = "organization", !.pc = "insert", !.taxId = t])
  /\ UNCHANGED <<organizations, rows, registry, up, life, revoked>>

\* Bug: the column tax_id is not unique.
AnyTaxId(t) == TRUE

\* The unique constraint of the column tax_id.
UniqueTaxId(t) == organizations[t] = 0

\* The row is inserted, unless another transaction has inserted one since.
InsertOrganization(c) ==
  LET t == request[c].taxId
  IN /\ request[c].pc = "insert"
     /\ organizations[t] < MaxOrganizations
     /\ organizations' =
          IF UniqueTaxId(t) THEN [organizations EXCEPT ![t] = @ + 1] ELSE organizations
     /\ End(c)
     /\ UNCHANGED <<rows, registry, up, life, revoked>>

-----------------------------------------------------------------------------
(* Registrations.                                                          *)

\* register_supplier, of an organization that exists.
BeginRegister(c, a) ==
  /\ \E t \in TaxIds : organizations[t] > 0
  /\ Begin(c, [NoRequest EXCEPT !.op = "register", !.pc = "verify", !.agent = a])
  /\ UNCHANGED <<organizations, rows, registry, up, life, revoked>>

\* update_agent_status: only an activation verifies the agent.
BeginUpdate(c, a, status) ==
  /\ rows[a] # None
  /\ Begin(c, [NoRequest EXCEPT
                 !.op = "update", !.agent = a, !.row = [rows[a] EXCEPT !.status = status],
                 !.pc = IF status = "active" THEN "verify" ELSE "put"])
  /\ UNCHANGED <<organizations, rows, registry, up, life, revoked>>

BeginCheck(c, a) ==
  /\ rows[a] # None
  /\ Begin(c, [NoRequest EXCEPT
                 !.op = "check", !.pc = "verify", !.agent = a, !.row = rows[a]])
  /\ UNCHANGED <<organizations, rows, registry, up, life, revoked>>

\* Bug: the check passes an agent that it has not asked for a quote.
LenientContract(mandated) == {"passed", "failed"}

\* _check_agent_contract: create_quote raises when it is given no mandate.
Contract(mandated) == IF mandated THEN {"passed", "failed"} ELSE {"failed"}

\* Bug: the result of the check is stored as the status.
VerifiedAsStatus(row, op, result) ==
  IF op = "check" THEN [row EXCEPT !.status = result]
  ELSE [row EXCEPT !.contract = result, !.status = "active"]

\* The registration with the result of its verification.
Verified(row, op, result) ==
  IF op = "check" THEN [row EXCEPT !.contract = result]
  ELSE [row EXCEPT !.contract = result, !.status = "active"]

\* The card and the contract have an answer.  Only a check writes a failed
\* one down; register and update end with an error.
Verify(c) ==
  LET this == request[c]
  IN /\ this.pc = "verify"
     /\ \E result \in {"failed"} \cup Contract(FALSE) :
          IF result = "passed" \/ this.op = "check"
          THEN request' = [request EXCEPT
                 ![c].pc = "put", ![c].row = Verified(this.row, this.op, result)]
          ELSE End(c)
     /\ UNCHANGED <<organizations, rows, registry, up, life, revoked>>

\* put_agent_registration: the row is overwritten, whatever it holds by now.
Put(c) ==
  LET this == request[c]
  IN /\ this.pc = "put"
     /\ rows' = [rows EXCEPT ![this.agent] = this.row]
     /\ IF this.op = "check" THEN End(c) ELSE request' = [request EXCEPT ![c].pc = "apply"]
     /\ UNCHANGED <<organizations, registry, up, life, revoked>>

\* The card cannot be loaded for a reason check_agent does not catch, or the
\* transaction fails.
Fail(c) ==
  /\ request[c].pc \in {"insert", "verify", "put"}
  /\ End(c)
  /\ UNCHANGED <<organizations, rows, registry, up, life, revoked>>

\* Bug: a suspended agent is left in the registry.
EntryUnlessRevoked(a, status) ==
  IF status = "active" THEN "restored"
  ELSE IF status = "revoked" THEN None ELSE registry[a]

\* What the registry holds for an agent whose status was written.
EntryFor(a, status) == IF status = "active" THEN "restored" ELSE None

\* register or unregister, in the memory of the process.
Apply(c) ==
  LET this == request[c]
  IN /\ this.pc = "apply"
     /\ registry' = [registry EXCEPT ![this.agent] = EntryFor(this.agent, this.row.status)]
     /\ revoked' =
          IF this.row.status = "active" THEN revoked \ {this.agent}
          ELSE revoked \cup {this.agent}
     /\ End(c)
     /\ UNCHANGED <<organizations, rows, up, life>>

-----------------------------------------------------------------------------
Crash ==
  /\ up
  /\ life < MaxLives
  /\ up' = FALSE
  /\ request' = [c \in Admins |-> NoRequest]
  /\ registry' = [a \in Agents |-> None]
  /\ UNCHANGED <<organizations, rows, life, revoked>>

\* The lifespan of the application restores before it serves requests.
Restart ==
  /\ ~up
  /\ up' = TRUE
  /\ life' = life + 1
  /\ registry' = StartedRegistry
  /\ UNCHANGED <<organizations, rows, request, revoked>>

Next ==
  \/ \E c \in Admins :
       \/ \E t \in TaxIds : BeginOrganization(c, t)
       \/ InsertOrganization(c)
       \/ \E a \in Agents :
            \/ BeginRegister(c, a)
            \/ \E status \in Status : BeginUpdate(c, a, status)
            \/ BeginCheck(c, a)
       \/ Verify(c)
       \/ Put(c)
       \/ Fail(c)
       \/ Apply(c)
  \/ Crash
  \/ Restart

Spec == Init /\ [][Next]_vars

-----------------------------------------------------------------------------
TypeOK ==
  /\ organizations \in [TaxIds -> Nat]
  /\ rows \in [Agents -> Registration \cup {None}]
  /\ registry \in [Agents -> Entry \cup {None}]
  /\ request \in [Admins -> Request]
  /\ up \in BOOLEAN
  /\ life \in 1 .. MaxLives
  /\ revoked \subseteq Agents

\* Two administrators who create an organization with one tax id at the same
\* time both find none; still only one is stored.
OneOrganizationPerTaxId == \A t \in TaxIds : organizations[t] <= 1

\* An onboarded agent that is asked for quotes is active in the table, or the
\* request that changed its status is about to take it out of the registry.
\* Other requests overwrite the row meanwhile with what they have read before.
RegistryFollowsStore ==
  \A a \in Agents :
    registry[a] = "restored" =>
      \/ rows[a].status = "active"
      \/ \E c \in Admins : request[c].pc = "apply" /\ request[c].agent = a

\* An onboarded agent that an administrator suspended or revoked is not asked
\* for quotes again until it is activated: neither in this life nor after a
\* restart, although a check that read its registration before may write the
\* status back.  What is written back carries the failed contract, and restore
\* wants a passed one.  (A seed comes back with the next start.)
RevokedStaysOut == \A a \in revoked \ Seeds : registry[a] = None
=============================================================================
