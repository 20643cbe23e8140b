-------------------------- MODULE OnboardingProofs --------------------------
(***************************************************************************)
(* Proofs about Onboarding, for any agents, seeds, tax ids and requests at *)
(* a time.                                                                 *)
(***************************************************************************)
EXTENDS Onboarding, TLAPS

\* What a request carries at each point of its way.
RequestsHold ==
  \A c \in Admins :
    LET this == request[c]
    IN /\ this.pc \in {"verify", "put"} /\ this.op = "check" => rows[this.agent] # None
       /\ this.pc \in {"verify", "put", "apply"} => this.agent \in Agents
       /\ this.pc = "apply" => this.op # "check"
       /\ this.pc \in {"put", "apply"} /\ this.op # "check" => this.row.status # "active"

\* What is written, and what is applied, cannot be restored: a check writes a
\* failed contract, the other requests a status that is not active.
WritesCannotBeRestored ==
  \A c \in Admins :
    LET this == request[c]
    IN /\ this.pc = "put" => ~Restorable(this.row)
       /\ this.pc = "apply" => ~Restorable(rows[this.agent])

\* Neither can the row of an agent that was taken out.
RevokedCannotBeRestored == \A a \in revoked : ~Restorable(rows[a])

\* A request to take the agent out of the registry is about to do so.
LeavesRegistry(a) == \E c \in Admins : request[c].pc = "apply" /\ request[c].agent = a

\* A check that read a status other than active read it after the request that
\* wrote it, so that the agent is out of the registry, or about to leave it.
ReadersKnow ==
  \A c \in Admins :
    LET this == request[c]
    IN (/\ this.pc \in {"verify", "put"} /\ this.op = "check"
        /\ this.row.status # "active" /\ registry[this.agent] = "restored")
       => LeavesRegistry(this.agent)

DownBetweenLives ==
  ~up => /\ life < MaxLives
         /\ request = [c \in Admins |-> NoRequest]
         /\ registry = [a \in Agents |-> None]

Inv ==
  /\ TypeOK
  /\ RequestsHold
  /\ WritesCannotBeRestored
  /\ RevokedCannotBeRestored
  /\ ReadersKnow
  /\ DownBetweenLives
  /\ RegistryFollowsStore
  /\ RevokedStaysOut
  /\ OneOrganizationPerTaxId

-----------------------------------------------------------------------------
LEMMA NoRequestType == NoRequest \in Request
BY DEF NoRequest, Request, NewRow, Registration, Status, ContractStatus, Operation, PC

LEMMA StartedRegistryType == StartedRegistry \in [Agents -> Entry \cup {None}]
BY DEF StartedRegistry, Entry

LEMMA RestorableRow ==
  ASSUME NEW row, Restorable(row)
  PROVE  row.status = "active" /\ row.contract = "passed"
BY DEF Restorable

\* A request that is not about to take an agent out leaves those that are.
LEMMA OthersLeave ==
  ASSUME TypeOK, NEW c \in Admins, NEW new, request[c].pc # "apply",
         request' = [request EXCEPT ![c] = new], NEW a, LeavesRegistry(a)
  PROVE  LeavesRegistry(a)'
BY DEF TypeOK, LeavesRegistry

\* A request that changes nothing but itself: what Inv says of the tables and the
\* registry stays, and of the requests only the new one is to be looked at.
LEMMA RequestChanges ==
  ASSUME Inv, NEW c \in Admins, NEW new \in Request,
         request[c].pc # "apply", new.pc # "apply", up,
         request' = [request EXCEPT ![c] = new],
         UNCHANGED <<rows, registry, up, life, revoked>>,
         organizations' \in [TaxIds -> Nat], OneOrganizationPerTaxId',
         new.pc \in {"verify", "put"} /\ new.op = "check" => rows[new.agent] # None,
         new.pc \in {"verify", "put"} => new.agent \in Agents,
         new.pc = "put" /\ new.op # "check" => new.row.status # "active",
         new.pc = "put" => ~Restorable(new.row),
         (/\ new.pc \in {"verify", "put"} /\ new.op = "check"
          /\ new.row.status # "active" /\ registry[new.agent] = "restored")
         => LeavesRegistry(new.agent)
  PROVE  Inv'
<1>1. request \in [Admins -> Request] /\ request'[c] = new
  BY DEF Inv, TypeOK
<1>2. \A d \in Admins \ {c} : request'[d] = request[d]
  BY <1>1
<1>3. \A a : LeavesRegistry(a) => LeavesRegistry(a)'
  BY OthersLeave DEF Inv
<1>4. TypeOK'
  BY <1>1 DEF Inv, TypeOK
<1>5. RequestsHold'
  BY <1>1, <1>2 DEF Inv, RequestsHold
<1>6. WritesCannotBeRestored'
  BY <1>1, <1>2 DEF Inv, WritesCannotBeRestored, Restorable
<1>7. ReadersKnow'
  BY <1>1, <1>2, <1>3 DEF Inv, ReadersKnow
<1>8. RegistryFollowsStore'
  BY <1>3 DEF Inv, RegistryFollowsStore, LeavesRegistry
<1>9. RevokedCannotBeRestored' /\ RevokedStaysOut' /\ DownBetweenLives'
  BY DEF Inv, RevokedCannotBeRestored, RevokedStaysOut, DownBetweenLives, Restorable
<1> QED BY <1>4, <1>5, <1>6, <1>7, <1>8, <1>9 DEF Inv

LEMMA InitInv == Init => Inv
<1> SUFFICES ASSUME Init PROVE Inv
  OBVIOUS
<1>1. TypeOK
  BY NoRequestType, StartedRegistryType, OnboardingAssumption DEF Init, TypeOK
<1>2. RegistryFollowsStore
  BY <1>1, RegistrationAssumption, RestorableRow
     DEF Init, TypeOK, RegistryFollowsStore, StartedRegistry, Entry
<1>3. RequestsHold /\ WritesCannotBeRestored /\ ReadersKnow
  BY DEF Init, RequestsHold, WritesCannotBeRestored, ReadersKnow, NoRequest
<1> QED BY <1>1, <1>2, <1>3
        DEF Init, Inv, RevokedCannotBeRestored, DownBetweenLives, RevokedStaysOut,
            OneOrganizationPerTaxId

\* A request that begins is at its first point, up while the process is.
LEMMA BeginInv ==
  ASSUME Inv, NEW c \in Admins, NEW new \in Request, Begin(c, new),
         UNCHANGED <<organizations, rows, registry, up, life, revoked>>,
         new.pc # "apply",
         new.pc \in {"verify", "put"} /\ new.op = "check" => rows[new.agent] # None,
         new.pc \in {"verify", "put"} => new.agent \in Agents,
         new.pc = "put" /\ new.op # "check" => new.row.status # "active",
         new.pc = "put" => ~Restorable(new.row),
         new.pc \in {"verify", "put"} /\ new.op = "check" /\ new.row.status # "active" =>
           registry[new.agent] # "restored" \/ LeavesRegistry(new.agent)
  PROVE  Inv'
<1>1. request[c].pc # "apply" /\ up /\ request' = [request EXCEPT ![c] = new]
  BY DEF Begin, NoRequest
<1>2. organizations' \in [TaxIds -> Nat] /\ OneOrganizationPerTaxId'
  BY DEF Inv, TypeOK, OneOrganizationPerTaxId
<1> QED BY <1>1, <1>2, RequestChanges

LEMMA BeginOrganizationInv ==
  ASSUME Inv, NEW c \in Admins, NEW t \in TaxIds, BeginOrganization(c, t)
  PROVE  Inv'
<1> DEFINE new == [NoRequest EXCEPT !.op = "organization", !.pc = "insert", !.taxId = t]
<1>1. new \in Request /\ new.pc = "insert"
  BY NoRequestType DEF Request, Operation, PC
<1>2. Begin(c, new) /\ UNCHANGED <<organizations, rows, registry, up, life, revoked>>
  BY DEF BeginOrganization
<1> HIDE DEF new
<1> QED BY <1>1, <1>2, BeginInv

LEMMA BeginRegisterInv ==
  ASSUME Inv, NEW c \in Admins, NEW a \in Agents, BeginRegister(c, a)
  PROVE  Inv'
<1> DEFINE new == [NoRequest EXCEPT !.op = "register", !.pc = "verify", !.agent = a]
<1>1. new \in Request /\ new.pc = "verify" /\ new.op = "register" /\ new.agent = a
  BY NoRequestType DEF Request, Operation, PC, NoRequest
<1>2. Begin(c, new) /\ UNCHANGED <<organizations, rows, registry, up, life, revoked>>
  BY DEF BeginRegister
<1> HIDE DEF new
<1> QED BY <1>1, <1>2, BeginInv

LEMMA BeginUpdateInv ==
  ASSUME Inv, NEW c \in Admins, NEW a \in Agents, NEW status \in Status,
         BeginUpdate(c, a, status)
  PROVE  Inv'
<1> DEFINE row == [rows[a] EXCEPT !.status = status]
           new == [NoRequest EXCEPT
                     !.op = "update", !.agent = a, !.row = row,
                     !.pc = IF status = "active" THEN "verify" ELSE "put"]
<1>1. rows[a] \in Registration
  BY DEF BeginUpdate, Inv, TypeOK
<1>2. row \in Registration /\ row.status = status
  BY <1>1 DEF Registration
<1> HIDE DEF row
<1>3. /\ new \in Request /\ new.op = "update" /\ new.agent = a /\ new.row = row
      /\ new.pc = IF status = "active" THEN "verify" ELSE "put"
  BY <1>2, NoRequestType DEF Request, Operation, PC, NoRequest
<1>4. Begin(c, new) /\ UNCHANGED <<organizations, rows, registry, up, life, revoked>>
  BY DEF BeginUpdate, row
<1> HIDE DEF new
<1>5. new.pc = "put" => new.row.status # "active" /\ ~Restorable(new.row)
  BY <1>2, <1>3, RestorableRow
<1> QED BY <1>3, <1>4, <1>5, BeginInv

LEMMA BeginCheckInv ==
  ASSUME Inv, NEW c \in Admins, NEW a \in Agents, BeginCheck(c, a)
  PROVE  Inv'
<1> DEFINE new == [NoRequest EXCEPT
                     !.op = "check", !.pc = "verify", !.agent = a, !.row = rows[a]]
<1>1. rows[a] \in Registration /\ rows[a] # None
  BY DEF BeginCheck, Inv, TypeOK
<1>2. /\ new \in Request /\ new.op = "check" /\ new.pc = "verify" /\ new.agent = a
      /\ new.row = rows[a]
  BY <1>1, NoRequestType DEF Request, Operation, PC, NoRequest
<1>3. Begin(c, new) /\ UNCHANGED <<organizations, rows, registry, up, life, revoked>>
  BY DEF BeginCheck
<1>4. rows[a].status # "active" => registry[a] # "restored" \/ LeavesRegistry(a)
  BY DEF Inv, RegistryFollowsStore, LeavesRegistry
<1> HIDE DEF new
<1> QED BY <1>1, <1>2, <1>3, <1>4, BeginInv

-----------------------------------------------------------------------------
(* The steps of a request under way.                                       *)

LEMMA BusyIsUp ==
  ASSUME Inv, NEW c \in Admins, request[c].pc # "idle"
  PROVE  up
BY DEF Inv, DownBetweenLives, NoRequest

\* A request ends without a change of rows and registry.
LEMMA EndInv ==
  ASSUME Inv, NEW c \in Admins, request[c].pc \in {"insert", "verify", "put"}, End(c),
         UNCHANGED <<rows, registry, up, life, revoked>>,
         organizations' \in [TaxIds -> Nat], OneOrganizationPerTaxId'
  PROVE  Inv'
<1>1. up
  BY BusyIsUp
<1>2. NoRequest \in Request /\ NoRequest.pc = "idle"
  BY NoRequestType DEF NoRequest
<1> QED BY <1>1, <1>2, RequestChanges DEF End

LEMMA InsertOrganizationInv ==
  ASSUME Inv, NEW c \in Admins, InsertOrganization(c)
  PROVE  Inv'
<1> DEFINE t == request[c].taxId
<1>1. organizations' \in [TaxIds -> Nat] /\ OneOrganizationPerTaxId'
  <2>1. CASE ~UniqueTaxId(t)
    BY <2>1 DEF InsertOrganization, Inv, TypeOK, OneOrganizationPerTaxId
  <2>2. CASE UniqueTaxId(t)
    <3>1. organizations' = [organizations EXCEPT ![t] = @ + 1]
      BY <2>2 DEF InsertOrganization
    <3>2. \A u \in TaxIds : organizations'[u] \in Nat /\ organizations'[u] <= 1
      BY <2>2, <3>1 DEF UniqueTaxId, Inv, TypeOK, OneOrganizationPerTaxId
    <3>3. organizations' = [u \in TaxIds |-> organizations'[u]]
      BY <3>1 DEF Inv, TypeOK
    <3> QED BY <3>2, <3>3 DEF OneOrganizationPerTaxId
  <2> QED BY <2>1, <2>2
<1> QED BY <1>1, EndInv DEF InsertOrganization

LEMMA VerifyInv ==
  ASSUME Inv, NEW c \in Admins, Verify(c)
  PROVE  Inv'
<1> DEFINE this == request[c]
<1>1. this.pc = "verify" /\ UNCHANGED <<organizations, rows, registry, up, life, revoked>>
  BY DEF Verify
<1>2. organizations' \in [TaxIds -> Nat] /\ OneOrganizationPerTaxId'
  BY <1>1 DEF Inv, TypeOK, OneOrganizationPerTaxId
<1>3. CASE End(c)
  BY <1>1, <1>2, <1>3, EndInv
<1>4. CASE /\ this.op = "check"
           /\ request' = [request EXCEPT
                ![c].pc = "put", ![c].row = Verified(this.row, this.op, "failed")]
  <2> DEFINE row == [this.row EXCEPT !.contract = "failed"]
             new == [this EXCEPT !.pc = "put", !.row = row]
  <2>1. this \in Request /\ this.row \in Registration
    BY DEF Inv, TypeOK, Request
  <2>2. row \in Registration /\ row.contract = "failed" /\ row.status = this.row.status
    BY <2>1 DEF Registration, ContractStatus
  <2>3. request' = [request EXCEPT ![c] = new]
    BY <1>4 DEF Verified, Inv, TypeOK
  <2>4. ~Restorable(row)
    BY <2>2, RestorableRow
  <2> HIDE DEF row
  <2>5. /\ new \in Request /\ new.pc = "put" /\ new.op = "check" /\ new.row = row
        /\ new.agent = this.agent
    BY <1>4, <2>1, <2>2 DEF Request, PC
  <2>6. this.agent \in Agents /\ rows[this.agent] # None
    BY <1>1, <1>4 DEF Inv, RequestsHold
  <2>7. row.status # "active" /\ registry[this.agent] = "restored" => LeavesRegistry(this.agent)
    BY <1>1, <1>4, <2>2 DEF Inv, ReadersKnow
  <2>8. up
    BY <1>1, BusyIsUp
  <2> HIDE DEF new
  <2> QED BY <1>1, <1>2, <2>3, <2>4, <2>5, <2>6, <2>7, <2>8, RequestChanges
<1> QED BY <1>3, <1>4 DEF Verify, Contract

LEMMA FailInv ==
  ASSUME Inv, NEW c \in Admins, Fail(c)
  PROVE  Inv'
<1>1. organizations' \in [TaxIds -> Nat] /\ OneOrganizationPerTaxId'
  BY DEF Fail, Inv, TypeOK, OneOrganizationPerTaxId
<1> QED BY <1>1, EndInv DEF Fail

LEMMA PutInv ==
  ASSUME Inv, NEW c \in Admins, Put(c)
  PROVE  Inv'
<1> DEFINE this == request[c]
<1>1. /\ this.pc = "put" /\ UNCHANGED <<organizations, registry, up, life, revoked>>
      /\ rows' = [rows EXCEPT ![this.agent] = this.row]
  BY DEF Put
<1>2. PICK new \in Request :
        /\ request' = [request EXCEPT ![c] = new]
        /\ \/ this.op = "check" /\ new.pc = "idle"
           \/ /\ this.op # "check" /\ new.pc = "apply" /\ new.op = this.op
              /\ new.agent = this.agent /\ new.row = this.row
  <2>1. CASE this.op = "check"
    BY <2>1, NoRequestType DEF Put, End, NoRequest
  <2>2. CASE this.op # "check"
    <3> DEFINE applying == [this EXCEPT !.pc = "apply"]
    <3>1. applying \in Request /\ request' = [request EXCEPT ![c] = applying]
      BY <2>2 DEF Put, Inv, TypeOK, Request, PC
    <3>2. /\ applying.pc = "apply" /\ applying.op = this.op /\ applying.agent = this.agent
          /\ applying.row = this.row
      BY DEF Inv, TypeOK, Request
    <3> QED BY <2>2, <3>1, <3>2
  <2> QED BY <2>1, <2>2
<1>3. request'[c] = new /\ \A d \in Admins \ {c} : request'[d] = request[d]
  BY <1>2 DEF Inv, TypeOK
<1>4. /\ this.agent \in Agents /\ this.row \in Registration /\ ~Restorable(this.row)
      /\ this.op # "check" => this.row.status # "active"
  BY <1>1 DEF Inv, TypeOK, Request, RequestsHold, WritesCannotBeRestored
<1>5. /\ rows'[this.agent] = this.row
      /\ \A a \in Agents \ {this.agent} : rows'[a] = rows[a]
  BY <1>1, <1>4 DEF Inv, TypeOK
<1>6. \A a : LeavesRegistry(a) => LeavesRegistry(a)'
  BY <1>1, <1>2, OthersLeave DEF Inv
<1>7. TypeOK'
  BY <1>1, <1>2, <1>4 DEF Inv, TypeOK
<1>8. RequestsHold'
  BY <1>2, <1>3, <1>4, <1>5, RegistrationAssumption DEF Inv, RequestsHold
<1>9. WritesCannotBeRestored' /\ RevokedCannotBeRestored'
  <2>1. \A a \in Agents : ~Restorable(rows[a]) => ~Restorable(rows'[a])
    BY <1>4, <1>5
  <2>2. ~Restorable(rows'[this.agent])
    BY <1>4, <1>5
  <2>3. WritesCannotBeRestored'
    BY <1>2, <1>3, <2>1, <2>2 DEF Inv, RequestsHold, WritesCannotBeRestored, Restorable
  <2>4. RevokedCannotBeRestored'
    BY <1>1, <2>1 DEF Inv, TypeOK, RevokedCannotBeRestored, Restorable
  <2> QED BY <2>3, <2>4
<1>10. ReadersKnow'
  BY <1>1, <1>2, <1>3, <1>6 DEF Inv, ReadersKnow
<1>11. RegistryFollowsStore'
  <2> SUFFICES ASSUME NEW a \in Agents, registry[a] = "restored"
               PROVE  rows'[a].status = "active" \/ LeavesRegistry(a)'
    BY <1>1 DEF RegistryFollowsStore, LeavesRegistry
  <2>1. CASE a # this.agent
    BY <1>5, <1>6, <2>1 DEF Inv, RegistryFollowsStore, LeavesRegistry
  <2>2. CASE a = this.agent /\ this.op # "check"
    BY <1>2, <1>3, <2>2 DEF LeavesRegistry
  <2>3. CASE a = this.agent /\ this.op = "check"
    BY <1>1, <1>5, <1>6, <2>3 DEF Inv, ReadersKnow
  <2> QED BY <2>1, <2>2, <2>3
<1>12. DownBetweenLives' /\ RevokedStaysOut' /\ OneOrganizationPerTaxId'
  BY <1>1, BusyIsUp DEF Inv, DownBetweenLives, RevokedStaysOut, OneOrganizationPerTaxId
<1> QED BY <1>7, <1>8, <1>9, <1>10, <1>11, <1>12 DEF Inv

LEMMA ApplyInv ==
  ASSUME Inv, NEW c \in Admins, Apply(c)
  PROVE  Inv'
<1> DEFINE this == request[c]
<1>1. /\ this.pc = "apply" /\ this.agent \in Agents /\ this.row.status # "active"
      /\ ~Restorable(rows[this.agent])
  BY DEF Apply, Inv, RequestsHold, WritesCannotBeRestored
<1>2. /\ registry' = [registry EXCEPT ![this.agent] = None]
      /\ revoked' = revoked \cup {this.agent}
      /\ UNCHANGED <<organizations, rows, up, life>>
      /\ request' = [request EXCEPT ![c] = NoRequest]
  BY <1>1 DEF Apply, EntryFor, End
<1>3. /\ request'[c] = NoRequest /\ NoRequest.pc = "idle"
      /\ \A d \in Admins \ {c} : request'[d] = request[d]
  BY <1>2 DEF Inv, TypeOK, NoRequest
<1>4. /\ registry'[this.agent] = None /\ None # "restored"
      /\ \A a \in Agents \ {this.agent} : registry'[a] = registry[a]
  BY <1>1, <1>2, RegistrationAssumption DEF Inv, TypeOK, Entry
<1>5. \A a : a # this.agent /\ LeavesRegistry(a) => LeavesRegistry(a)'
  BY <1>3 DEF LeavesRegistry
<1>6. TypeOK'
  BY <1>1, <1>2, NoRequestType DEF Inv, TypeOK
<1>7. RequestsHold' /\ WritesCannotBeRestored'
  BY <1>2, <1>3 DEF Inv, RequestsHold, WritesCannotBeRestored, Restorable
<1>8. RevokedCannotBeRestored'
  BY <1>1, <1>2 DEF Inv, RevokedCannotBeRestored, Restorable
<1>9. ReadersKnow'
  <2>1. ASSUME NEW d \in Admins, request'[d].pc \in {"verify", "put"},
               request'[d].op = "check", request'[d].row.status # "active",
               registry'[request'[d].agent] = "restored"
        PROVE  \E e \in Admins : request'[e].pc = "apply" /\ request'[e].agent = request'[d].agent
    <3>1. d # c /\ request'[d] = request[d] /\ request[d].agent \in Agents
      BY <1>3, <2>1 DEF Inv, RequestsHold
    <3>2. request[d].agent # this.agent /\ registry[request[d].agent] = "restored"
      BY <1>4, <2>1, <3>1
    <3>3. LeavesRegistry(request[d].agent)
      BY <2>1, <3>1, <3>2 DEF Inv, ReadersKnow
    <3> QED BY <1>3, <3>1, <3>2, <3>3 DEF LeavesRegistry
  <2> QED BY <2>1 DEF ReadersKnow, LeavesRegistry
<1>10. RegistryFollowsStore'
  BY <1>2, <1>4, <1>5 DEF Inv, RegistryFollowsStore, LeavesRegistry
<1>11. RevokedStaysOut'
  BY <1>2, <1>4 DEF Inv, TypeOK, RevokedStaysOut
<1>12. DownBetweenLives' /\ OneOrganizationPerTaxId'
  BY <1>1, <1>2, BusyIsUp DEF Inv, DownBetweenLives, OneOrganizationPerTaxId
<1> QED BY <1>6, <1>7, <1>8, <1>9, <1>10, <1>11, <1>12 DEF Inv

-----------------------------------------------------------------------------
(* The end of the process and the next start.                              *)

LEMMA CrashInv ==
  ASSUME Inv, Crash
  PROVE  Inv'
<1>1. TypeOK'
  BY NoRequestType DEF Crash, Inv, TypeOK
<1>2. RequestsHold' /\ WritesCannotBeRestored' /\ ReadersKnow'
  BY DEF Crash, RequestsHold, WritesCannotBeRestored, ReadersKnow, NoRequest
<1>3. RegistryFollowsStore' /\ RevokedStaysOut'
  BY RegistrationAssumption
     DEF Crash, Inv, TypeOK, RegistryFollowsStore, RevokedStaysOut, Entry
<1>4. RevokedCannotBeRestored' /\ DownBetweenLives' /\ OneOrganizationPerTaxId'
  BY DEF Crash, Inv, RevokedCannotBeRestored, DownBetweenLives, OneOrganizationPerTaxId,
         Restorable
<1> QED BY <1>1, <1>2, <1>3, <1>4 DEF Inv

LEMMA RestartInv ==
  ASSUME Inv, Restart
  PROVE  Inv'
<1>1. /\ up' /\ registry' = StartedRegistry /\ life' = life + 1 /\ life < MaxLives
      /\ request = [c \in Admins |-> NoRequest]
      /\ UNCHANGED <<organizations, rows, request, revoked>>
  BY DEF Restart, Inv, DownBetweenLives
<1>2. TypeOK'
  BY <1>1, StartedRegistryType, OnboardingAssumption DEF Restart, Inv, TypeOK
<1>3. RequestsHold' /\ WritesCannotBeRestored' /\ ReadersKnow'
  BY <1>1 DEF RequestsHold, WritesCannotBeRestored, ReadersKnow, NoRequest
<1>4. RegistryFollowsStore'
  BY <1>1, RegistrationAssumption, RestorableRow
     DEF RegistryFollowsStore, StartedRegistry, Entry
<1>5. RevokedStaysOut'
  <2> SUFFICES ASSUME NEW a \in revoked, a \notin Seeds
               PROVE  registry'[a] = None
    BY <1>1 DEF RevokedStaysOut
  <2>1. a \in Agents /\ ~Restorable(rows[a])
    BY DEF Inv, TypeOK, RevokedCannotBeRestored
  <2> QED BY <1>1, <2>1 DEF StartedRegistry
<1>6. RevokedCannotBeRestored' /\ DownBetweenLives' /\ OneOrganizationPerTaxId'
  BY <1>1 DEF Inv, RevokedCannotBeRestored, DownBetweenLives, OneOrganizationPerTaxId,
              Restorable
<1> QED BY <1>2, <1>3, <1>4, <1>5, <1>6 DEF Inv

LEMMA NextInv == Inv /\ [Next]_vars => Inv'
<1> SUFFICES ASSUME Inv, [Next]_vars PROVE Inv'
  OBVIOUS
<1>1. ASSUME NEW c \in Admins, NEW t \in TaxIds, BeginOrganization(c, t) PROVE Inv'
  BY <1>1, BeginOrganizationInv
<1>2. ASSUME NEW c \in Admins, InsertOrganization(c) PROVE Inv'
  BY <1>2, InsertOrganizationInv
<1>3. ASSUME NEW c \in Admins, NEW a \in Agents, BeginRegister(c, a) PROVE Inv'
  BY <1>3, BeginRegisterInv
<1>4. ASSUME NEW c \in Admins, NEW a \in Agents, NEW status \in Status,
             BeginUpdate(c, a, status)
      PROVE  Inv'
  BY <1>4, BeginUpdateInv
<1>5. ASSUME NEW c \in Admins, NEW a \in Agents, BeginCheck(c, a) PROVE Inv'
  BY <1>5, BeginCheckInv
<1>6. ASSUME NEW c \in Admins, Verify(c) \/ Put(c) \/ Fail(c) \/ Apply(c) PROVE Inv'
  BY <1>6, VerifyInv, PutInv, FailInv, ApplyInv
<1>7. CASE Crash \/ Restart
  BY <1>7, CrashInv, RestartInv
<1>8. CASE UNCHANGED vars
  BY <1>8 DEF vars, Inv, TypeOK, RequestsHold, WritesCannotBeRestored,
              RevokedCannotBeRestored, ReadersKnow, DownBetweenLives, RegistryFollowsStore,
              RevokedStaysOut, OneOrganizationPerTaxId, LeavesRegistry, Restorable
<1> QED BY <1>1, <1>2, <1>3, <1>4, <1>5, <1>6, <1>7, <1>8 DEF Next

LEMMA SpecInv == Spec => []Inv
BY InitInv, NextInv, PTL DEF Spec

-----------------------------------------------------------------------------
\* The tables, the registry and the requests hold what their types say.
THEOREM TypeCorrect == Spec => []TypeOK
<1>1. Inv => TypeOK
  BY DEF Inv
<1> QED BY <1>1, SpecInv, PTL

\* However many requests create an organization with one tax id, one is stored
\* (store.py, put_organization and the unique column).
THEOREM TaxIdsAreUnique == Spec => []OneOrganizationPerTaxId
<1>1. Inv => OneOrganizationPerTaxId
  BY DEF Inv
<1> QED BY <1>1, SpecInv, PTL

\* An onboarded agent in the registry is active in the table or about to leave,
\* although requests write rows they read long ago (onboarding.py).
THEOREM RegistryMatchesTable == Spec => []RegistryFollowsStore
<1>1. Inv => RegistryFollowsStore
  BY DEF Inv
<1> QED BY <1>1, SpecInv, PTL

\* A suspended or revoked agent stays out of the registry, also after a restart.
THEOREM RevocationHolds == Spec => []RevokedStaysOut
<1>1. Inv => RevokedStaysOut
  BY DEF Inv
<1> QED BY <1>1, SpecInv, PTL
=============================================================================
