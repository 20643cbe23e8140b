------------------------- MODULE AnchorLedgerProofs -------------------------
(***************************************************************************)
(* Proofs about AnchorLedger, for any sets of deals, payloads, processes   *)
(* and writers and any bounds.                                             *)
(***************************************************************************)
EXTENDS AnchorLedger, HashChainProofs

-----------------------------------------------------------------------------
(* Type correctness.                                                       *)

\* What a busy writer holds.
LEMMA BusyWriter ==
  ASSUME TypeOK, NEW w \in Writers, writer[w].pc = "insert"
  PROVE  writer[w].deal \in Deals /\ writer[w].anchor \in Row
BY DEF TypeOK, Busy, Idle

\* Rows without the one at i are rows.
LEMMA RemoveType ==
  ASSUME NEW chain \in Seq(Row), NEW i \in 1 .. Len(chain)
  PROVE  [j \in 1 .. Len(chain) - 1 |-> IF j < i THEN chain[j] ELSE chain[j + 1]] \in Seq(Row)
<1>. DEFINE shorter == [j \in 1 .. Len(chain) - 1 |-> IF j < i THEN chain[j] ELSE chain[j + 1]]
<1>1. Len(chain) - 1 \in Nat
  OBVIOUS
<1>2. \A j \in 1 .. Len(chain) - 1 : shorter[j] \in Row
  OBVIOUS
<1>3. shorter \in [1 .. Len(chain) - 1 -> Row]
  BY <1>2
<1>. QED BY <1>1, <1>3

LEMMA TypeInit == Init => TypeOK
BY LedgerAssumption DEF Init, TypeOK

LEMMA TypeStep == TypeOK /\ [Next]_vars => TypeOK'
<1>. SUFFICES ASSUME TypeOK, [Next]_vars
              PROVE  TypeOK'
  OBVIOUS
<1>. USE LedgerAssumption
<1>1. ASSUME NEW w \in Writers, NEW d \in Deals, NEW p \in Payloads, ReadLatest(w, d, p)
      PROVE  TypeOK'
  <2>1. NextAnchor(d, rows[d], p) \in Row
    BY NextAnchorType DEF TypeOK, Row
  <2>2. [pc |-> "insert", deal |-> d, anchor |-> NextAnchor(d, rows[d], p)] \in Busy
    BY <2>1 DEF Busy
  <2>. QED BY <1>1, <2>2 DEF ReadLatest, TypeOK
<1>2. ASSUME NEW w \in Writers, Commit(w)
      PROVE  TypeOK'
  <2>1. writer[w].deal \in Deals /\ writer[w].anchor \in Row
    BY <1>2, BusyWriter DEF Commit
  <2>2. Append(rows[writer[w].deal], writer[w].anchor) \in Seq(Row)
    BY <2>1 DEF TypeOK
  <2>3. rows' \in [Deals -> Seq(Row)]
    BY <1>2, <2>1, <2>2 DEF Commit, TypeOK
  <2>4. committed' \in [Deals -> SUBSET [anchor : Row, by : Writers]]
    BY <1>2, <2>1 DEF Commit, TypeOK
  <2>. QED BY <1>2, <2>3, <2>4 DEF Commit, Release, TypeOK
<1>3. ASSUME NEW w \in Writers, Collide(w)
      PROVE  TypeOK'
  BY <1>3 DEF Collide, Release, TypeOK
<1>4. ASSUME NEW w \in Writers, Rollback(w)
      PROVE  TypeOK'
  BY <1>4 DEF Rollback, Release, TypeOK
<1>5. ASSUME NEW d \in Deals, NEW i \in 1 .. Len(rows[d]), NEW p \in Payloads, EditRow(d, i, p)
      PROVE  TypeOK'
  <2>1. rows[d] \in Seq(Row) /\ rows[d][i] \in Row
    BY DEF TypeOK
  <2>2. [rows[d][i] EXCEPT !.payload_hash = p] \in Row
    BY <2>1 DEF Row, AnchorRow
  <2>3. [rows[d] EXCEPT ![i].payload_hash = p] \in Seq(Row)
    BY <2>1, <2>2
  <2>4. rows' \in [Deals -> Seq(Row)]
    BY <1>5, <2>3 DEF EditRow, TypeOK
  <2>. QED BY <1>5, <2>4 DEF EditRow, TypeOK
<1>6. ASSUME NEW d \in Deals, NEW i \in 1 .. Len(rows[d]), DeleteRow(d, i)
      PROVE  TypeOK'
  <2>1. rows' \in [Deals -> Seq(Row)]
    BY <1>6, RemoveType DEF DeleteRow, TypeOK
  <2>. QED BY <1>6, <2>1 DEF DeleteRow, TypeOK
<1>7. CASE UNCHANGED vars
  BY <1>7 DEF vars, TypeOK
<1>. QED BY <1>1, <1>2, <1>3, <1>4, <1>5, <1>6, <1>7 DEF Next

\* Every variable of the ledger keeps its type, however many processes append
\* and whoever damages rows.
THEOREM TypeCorrect == Spec => []TypeOK
BY TypeInit, TypeStep, PTL DEF Spec

-----------------------------------------------------------------------------
(* Tamper evidence.                                                        *)

\* The anchors about to be inserted, and those ever committed, are well formed.
AnchorsWellFormed ==
  /\ \A w \in Writers :
       writer[w].pc = "insert" => WellFormed(writer[w].deal, writer[w].anchor)
  /\ \A d \in Deals : \A c \in committed[d] : WellFormed(d, c.anchor)

\* A row agrees with a committed anchor on everything but the payload: an
\* edit changes the payload hash, and no stored digest.
FromCommitted(d, row) ==
  \E c \in committed[d] :
    /\ c.anchor.sequence_number = row.sequence_number
    /\ c.anchor.previous_hash = row.previous_hash
    /\ c.anchor.current_hash = row.current_hash

RowsCommitted == \A d \in Deals : \A i \in 1 .. Len(rows[d]) : FromCommitted(d, rows[d][i])

EvidenceInv == TypeOK /\ AnchorsWellFormed /\ RowsCommitted

LEMMA EvidenceInit == Init => EvidenceInv
<1>. SUFFICES ASSUME Init
              PROVE  EvidenceInv
  OBVIOUS
<1>1. TypeOK
  BY TypeInit
<1>2. AnchorsWellFormed
  BY DEF Init, Idle, AnchorsWellFormed
<1>3. RowsCommitted
  BY DEF Init, RowsCommitted
<1>. QED BY <1>1, <1>2, <1>3 DEF EvidenceInv

LEMMA EvidenceStep == EvidenceInv /\ [Next]_vars => EvidenceInv'
<1>. SUFFICES ASSUME EvidenceInv, [Next]_vars
              PROVE  EvidenceInv'
  OBVIOUS
<1>. USE DEF EvidenceInv
<1>0. TypeOK'
  BY TypeStep
<1>1. ASSUME NEW w \in Writers, NEW d \in Deals, NEW p \in Payloads, ReadLatest(w, d, p)
      PROVE  AnchorsWellFormed' /\ RowsCommitted'
  <2>1. WellFormed(d, NextAnchor(d, rows[d], p))
    BY NextAnchorWellFormed
  <2>2. AnchorsWellFormed'
    BY <1>1, <2>1 DEF ReadLatest, AnchorsWellFormed, TypeOK
  <2>3. RowsCommitted'
    BY <1>1 DEF ReadLatest, RowsCommitted, FromCommitted
  <2>. QED BY <2>2, <2>3
<1>2. ASSUME NEW w \in Writers, Commit(w)
      PROVE  AnchorsWellFormed' /\ RowsCommitted'
  <2>. DEFINE d == writer[w].deal
              anchor == writer[w].anchor
  <2>1. d \in Deals /\ anchor \in Row /\ WellFormed(d, anchor)
    BY <1>2, BusyWriter DEF Commit, AnchorsWellFormed
  <2>2. AnchorsWellFormed'
    BY <1>2, <2>1 DEF Commit, Release, Idle, AnchorsWellFormed, TypeOK
  <2>3. committed' = [committed EXCEPT ![d] = @ \cup {[anchor |-> anchor, by |-> w]}]
    BY <1>2 DEF Commit
  <2>4. rows' = [rows EXCEPT ![d] = Append(@, anchor)]
    BY <1>2 DEF Commit
  <2>5. ASSUME NEW e \in Deals, NEW i \in 1 .. Len(rows'[e])
        PROVE  FromCommitted(e, rows[e][i])'
    <3>1. CASE e # d \/ i <= Len(rows[e])
      <4>1. i \in 1 .. Len(rows[e]) /\ rows'[e][i] = rows[e][i]
        BY <3>1, <2>1, <2>4 DEF TypeOK
      <4>2. FromCommitted(e, rows[e][i])
        BY <4>1 DEF RowsCommitted
      <4>. QED BY <4>1, <4>2, <2>3, <2>1 DEF FromCommitted, TypeOK
    <3>2. CASE e = d /\ ~ (i <= Len(rows[e]))
      <4>1. rows'[e][i] = anchor
        BY <3>2, <2>1, <2>4 DEF TypeOK
      <4>2. [anchor |-> anchor, by |-> w] \in committed'[e]
        BY <3>2, <2>1, <2>3 DEF TypeOK
      <4>. QED BY <4>1, <4>2 DEF FromCommitted
    <3>. QED BY <3>1, <3>2
  <2>. QED BY <2>2, <2>5 DEF RowsCommitted
<1>3. ASSUME NEW w \in Writers, Collide(w) \/ Rollback(w)
      PROVE  AnchorsWellFormed' /\ RowsCommitted'
  <2>. committed' = committed /\ writer' = [writer EXCEPT ![w] = Idle]
    BY <1>3 DEF Collide, Rollback, Release
  <2>1. AnchorsWellFormed'
    BY DEF Idle, AnchorsWellFormed, TypeOK
  <2>2. RowsCommitted'
    BY <1>3 DEF Collide, Rollback, RowsCommitted, FromCommitted
  <2>. QED BY <2>1, <2>2
<1>4. ASSUME NEW d \in Deals, NEW i \in 1 .. Len(rows[d]), NEW p \in Payloads, EditRow(d, i, p)
      PROVE  AnchorsWellFormed' /\ RowsCommitted'
  <2>1. AnchorsWellFormed'
    BY <1>4 DEF EditRow, AnchorsWellFormed
  <2>2. rows' = [rows EXCEPT ![d][i].payload_hash = p] /\ committed' = committed
    BY <1>4 DEF EditRow
  <2>3. ASSUME NEW e \in Deals, NEW j \in 1 .. Len(rows'[e])
        PROVE  FromCommitted(e, rows[e][j])'
    <3>1. rows[e] \in Seq(Row) /\ rows[d] \in Seq(Row)
      BY DEF TypeOK
    <3>2. j \in 1 .. Len(rows[e])
      BY <2>2, <3>1 DEF TypeOK
    <3>3. rows[e][j] \in Row /\ FromCommitted(e, rows[e][j])
      BY <3>1, <3>2 DEF RowsCommitted
    <3>4. /\ rows'[e][j].sequence_number = rows[e][j].sequence_number
          /\ rows'[e][j].previous_hash = rows[e][j].previous_hash
          /\ rows'[e][j].current_hash = rows[e][j].current_hash
      BY <2>2, <3>1, <3>2, <3>3 DEF TypeOK, Row, AnchorRow
    <3>. QED BY <2>2, <3>3, <3>4 DEF FromCommitted
  <2>. QED BY <2>1, <2>3 DEF RowsCommitted
<1>5. ASSUME NEW d \in Deals, NEW i \in 1 .. Len(rows[d]), DeleteRow(d, i)
      PROVE  AnchorsWellFormed' /\ RowsCommitted'
  <2>1. AnchorsWellFormed'
    BY <1>5 DEF DeleteRow, AnchorsWellFormed
  <2>2. committed' = committed
    BY <1>5 DEF DeleteRow
  <2>3. ASSUME NEW e \in Deals, NEW j \in 1 .. Len(rows'[e])
        PROVE  FromCommitted(e, rows[e][j])'
    <3>1. rows[e] \in Seq(Row) /\ rows[d] \in Seq(Row) /\ rows'[e] \in Seq(Row)
      BY <1>0 DEF TypeOK
    <3>2. CASE e # d
      BY <1>5, <2>2, <3>1, <3>2 DEF DeleteRow, TypeOK, RowsCommitted, FromCommitted
    <3>3. CASE e = d
      <4>1. rows'[d] =
              [k \in 1 .. Len(rows[d]) - 1 |-> IF k < i THEN rows[d][k] ELSE rows[d][k + 1]]
        BY <1>5 DEF DeleteRow, TypeOK
      <4>2. Len(rows'[d]) = Len(rows[d]) - 1
        BY <3>1, <3>3, <4>1
      <4>3. PICK k \in 1 .. Len(rows[d]) : rows'[d][j] = rows[d][k]
        BY <3>1, <3>3, <4>1, <4>2
      <4>. QED BY <2>2, <3>3, <4>3 DEF RowsCommitted, FromCommitted
    <3>. QED BY <3>2, <3>3
  <2>. QED BY <2>1, <2>3 DEF RowsCommitted
<1>6. ASSUME UNCHANGED vars
      PROVE  AnchorsWellFormed' /\ RowsCommitted'
  BY <1>6 DEF vars, AnchorsWellFormed, RowsCommitted, FromCommitted
<1>. QED BY <1>0, <1>1, <1>2, <1>3, <1>4, <1>5, <1>6 DEF Next

LEMMA EvidenceSafety == EvidenceInv => TamperEvident
<1>. SUFFICES ASSUME EvidenceInv, NEW d \in Deals, Verifies(d, rows[d]),
                     NEW i \in 1 .. Len(rows[d])
              PROVE  /\ rows[d][i].sequence_number = i
                     /\ \E c \in committed[d] : c.anchor = rows[d][i]
  BY DEF TamperEvident
<1>. DEFINE row == rows[d][i]
<1>1. row \in Row
  BY DEF EvidenceInv, TypeOK
<1>2. /\ row.sequence_number = i
      /\ row.current_hash = AnchorHash(d, i, row.previous_hash, row.payload_hash)
  BY DEF Verifies
<1>3. PICK c \in committed[d] :
        /\ c.anchor.sequence_number = row.sequence_number
        /\ c.anchor.previous_hash = row.previous_hash
        /\ c.anchor.current_hash = row.current_hash
  BY DEF EvidenceInv, RowsCommitted, FromCommitted
<1>4. c.anchor \in Row /\ WellFormed(d, c.anchor)
  BY DEF EvidenceInv, TypeOK, AnchorsWellFormed
<1>5. WellFormed(d, row)
  BY <1>2 DEF WellFormed
<1>6. c.anchor = row
  BY <1>1, <1>3, <1>4, <1>5, PayloadBound DEF Row
<1>. QED BY <1>2, <1>6

\* A chain that verifies holds only what the program committed, where it
\* committed it (ledger.py, verify), however many payload hashes were overwritten
\* in place and however many rows deleted; not when the digest of a row was
\* rewritten with it.
THEOREM TamperEvidence == Spec => []TamperEvident
<1>1. EvidenceInv /\ [Next]_vars => EvidenceInv'
  BY EvidenceStep
<1>. QED BY EvidenceInit, <1>1, EvidenceSafety, PTL DEF Spec

-----------------------------------------------------------------------------
(* The chain verifies, and only another process is in the way.             *)

\* A process has one writer at a time between read and commit.
LockHeld == \A w \in Writers : writer[w].pc = "insert" => lock[Home[w]] = w

\* What stands at position i was committed by a writer of another process.
ByOther(w, d, i) ==
  \E c \in committed[d] :
    c.anchor.sequence_number = i /\ c.by \in Writers /\ Home[c.by] # Home[w]

\* The anchor a writer holds continues the rows it has read; the rows that
\* follow them by now are of other processes.
Continues(w) ==
  LET d == writer[w].deal
      anchor == writer[w].anchor
  IN /\ anchor.sequence_number \in 1 .. Len(rows[d]) + 1
     /\ anchor.previous_hash = ExpectedPrevious(rows[d], anchor.sequence_number)
     /\ \A i \in anchor.sequence_number .. Len(rows[d]) : ByOther(w, d, i)

WritersContinue ==
  edits = 0 => \A w \in Writers : writer[w].pc = "insert" => Continues(w)

ChainInv ==
  /\ EvidenceInv
  /\ LockHeld
  /\ WritersContinue
  /\ ChainVerifies

\* An anchor refused by the constraints has the number of a stored row.
LEMMA RefusedNumber ==
  ASSUME TypeOK, NEW d \in Deals, Verifies(d, rows[d]),
         NEW anchor \in Row, WellFormed(d, anchor), ~Unique(d, anchor)
  PROVE  anchor.sequence_number \in 1 .. Len(rows[d])
<1>1. PICK i \in 1 .. Len(rows[d]) :
        \/ rows[d][i].sequence_number = anchor.sequence_number
        \/ rows[d][i].current_hash = anchor.current_hash
  BY DEF Unique
<1>2. rows[d][i] \in Row
  BY DEF TypeOK
<1>3. /\ rows[d][i].sequence_number = i
      /\ rows[d][i].current_hash =
           AnchorHash(d, i, rows[d][i].previous_hash, rows[d][i].payload_hash)
  BY DEF Verifies
<1>4. CASE rows[d][i].sequence_number = anchor.sequence_number
  BY <1>3, <1>4
<1>5. CASE rows[d][i].current_hash = anchor.current_hash
  <2>1. AnchorHash(d, i, rows[d][i].previous_hash, rows[d][i].payload_hash) =
          AnchorHash(d, anchor.sequence_number, anchor.previous_hash, anchor.payload_hash)
    BY <1>3, <1>5 DEF WellFormed
  <2>2. /\ i \in Nat /\ anchor.sequence_number \in Nat
        /\ rows[d][i].previous_hash \in Digest(Deals, Payloads)
        /\ anchor.previous_hash \in Digest(Deals, Payloads)
        /\ rows[d][i].payload_hash \in Payloads
        /\ anchor.payload_hash \in Payloads
    BY <1>2 DEF Row, AnchorRow
  <2>3. i = anchor.sequence_number
    BY ONLY <2>1, <2>2, AnchorHashInjective, d \in Deals
  <2>. QED BY <2>3
<1>. QED BY <1>1, <1>4, <1>5

LEMMA ChainInit == Init => ChainInv
<1>. SUFFICES ASSUME Init
              PROVE  ChainInv
  OBVIOUS
<1>1. EvidenceInv
  BY EvidenceInit
<1>2. LockHeld /\ WritersContinue
  BY DEF Init, Idle, LockHeld, WritersContinue
<1>3. ChainVerifies
  BY DEF Init, ChainVerifies, Verifies
<1>. QED BY <1>1, <1>2, <1>3 DEF ChainInv

LEMMA ChainStep == ChainInv /\ [Next]_vars => ChainInv'
<1>. SUFFICES ASSUME ChainInv, [Next]_vars
              PROVE  ChainInv'
  OBVIOUS
<1>. USE LedgerAssumption
<1>0. EvidenceInv' /\ TypeOK /\ TypeOK'
  BY EvidenceStep DEF ChainInv, EvidenceInv
<1>1. ASSUME NEW w \in Writers, NEW d \in Deals, NEW p \in Payloads, ReadLatest(w, d, p)
      PROVE  LockHeld' /\ WritersContinue' /\ ChainVerifies'
  <2>1. /\ rows' = rows /\ committed' = committed /\ edits' = edits
        /\ lock[Home[w]] = None
        /\ lock' = [lock EXCEPT ![Home[w]] = w]
        /\ writer' = [writer EXCEPT ![w] =
             [pc |-> "insert", deal |-> d, anchor |-> NextAnchor(d, rows[d], p)]]
    BY <1>1 DEF ReadLatest
  <2>2. LockHeld'
    BY <1>0, <2>1 DEF ChainInv, LockHeld, TypeOK
  <2>3. ASSUME edits' = 0, NEW v \in Writers, writer'[v].pc = "insert"
        PROVE  Continues(v)'
    <3>1. CASE v = w
      <4>1. Verifies(d, rows[d]) /\ rows[d] \in Seq(Row)
        BY <1>0, <2>1, <2>3 DEF ChainInv, ChainVerifies, TypeOK
      <4>2. writer'[v].deal = d /\ writer'[v].anchor = NextAnchor(d, rows[d], p)
        BY <1>0, <2>1, <3>1 DEF TypeOK
      <4>3. /\ writer'[v].anchor.sequence_number = Len(rows[d]) + 1
            /\ writer'[v].anchor.previous_hash = ExpectedPrevious(rows[d], Len(rows[d]) + 1)
        BY <4>1, <4>2, NextAnchorContinues
      <4>. QED BY <2>1, <4>1, <4>2, <4>3 DEF Continues
    <3>2. CASE v # w
      <4>1. writer'[v] = writer[v] /\ writer[v].pc = "insert"
        BY <1>0, <2>1, <2>3, <3>2 DEF TypeOK
      <4>2. Continues(v)
        BY <2>1, <2>3, <4>1 DEF ChainInv, WritersContinue
      <4>. QED BY <2>1, <4>1, <4>2 DEF Continues, ByOther
    <3>. QED BY <3>1, <3>2
  <2>4. ChainVerifies'
    BY <2>1 DEF ChainInv, ChainVerifies
  <2>. QED BY <2>2, <2>3, <2>4 DEF WritersContinue
<1>2. ASSUME NEW w \in Writers, Commit(w)
      PROVE  LockHeld' /\ WritersContinue' /\ ChainVerifies'
  <2>. DEFINE d == writer[w].deal
              anchor == writer[w].anchor
  <2>1. /\ writer[w].pc = "insert" /\ Unique(d, anchor) /\ edits' = edits
        /\ rows' = [rows EXCEPT ![d] = Append(@, anchor)]
        /\ committed' = [committed EXCEPT ![d] = @ \cup {[anchor |-> anchor, by |-> w]}]
        /\ lock' = [lock EXCEPT ![Home[w]] = None]
        /\ writer' = [writer EXCEPT ![w] = Idle]
    BY <1>2 DEF Commit, Release
  <2>2. d \in Deals /\ anchor \in Row /\ WellFormed(d, anchor) /\ rows[d] \in Seq(Row)
    BY <1>0, <2>1, BusyWriter DEF ChainInv, EvidenceInv, AnchorsWellFormed, TypeOK
  <2>3. ASSUME NEW v \in Writers, writer'[v].pc = "insert"
        PROVE  /\ v # w /\ writer'[v] = writer[v] /\ writer[v].pc = "insert"
               /\ Home[v] # Home[w]
    <3>1. v # w /\ writer'[v] = writer[v]
      BY <1>0, <2>1, <2>3 DEF Idle, TypeOK
    <3>. QED BY <2>1, <2>3, <3>1 DEF ChainInv, LockHeld
  <2>4. LockHeld'
    BY <1>0, <2>1, <2>3 DEF ChainInv, LockHeld, TypeOK
  <2>5. rows'[d] = Append(rows[d], anchor) /\ \A e \in Deals \ {d} : rows'[e] = rows[e]
    BY <1>0, <2>1, <2>2 DEF TypeOK
  <2>6. ASSUME edits = 0
        PROVE  /\ anchor.sequence_number = Len(rows[d]) + 1
               /\ anchor.previous_hash = ExpectedPrevious(rows[d], Len(rows[d]) + 1)
    <3>1. /\ anchor.sequence_number \in 1 .. Len(rows[d]) + 1
          /\ anchor.previous_hash = ExpectedPrevious(rows[d], anchor.sequence_number)
      BY <2>1, <2>6 DEF ChainInv, WritersContinue, Continues
    <3>2. anchor.sequence_number \notin 1 .. Len(rows[d])
      BY <2>1, <2>2, <2>6 DEF Unique, ChainInv, ChainVerifies, Verifies
    <3>3. anchor.sequence_number = Len(rows[d]) + 1
      BY <2>2, <3>1, <3>2
    <3>. QED BY <3>1, <3>3
  <2>7. ChainVerifies'
    <3>1. SUFFICES ASSUME edits = 0, NEW e \in Deals
                   PROVE  Verifies(e, rows'[e])
      BY <2>1 DEF ChainVerifies
    <3>2. Verifies(e, rows[e])
      BY <3>1 DEF ChainInv, ChainVerifies
    <3>3. CASE e = d
      <4>1. Verifies(d, Append(rows[d], anchor))
        BY <2>2, <2>6, <3>1, <3>2, <3>3, AppendVerifies
      <4>. QED BY <2>5, <3>3, <4>1
    <3>4. CASE e # d
      BY <2>5, <3>2, <3>4
    <3>. QED BY <3>3, <3>4
  <2>8. ASSUME edits = 0, NEW v \in Writers, writer'[v].pc = "insert"
        PROVE  Continues(v)'
    <3>. DEFINE e == writer[v].deal
                held == writer[v].anchor
    <3>1. /\ Continues(v) /\ writer'[v] = writer[v] /\ e \in Deals /\ held \in Row
          /\ Home[v] # Home[w]
      BY <1>0, <2>3, <2>8, BusyWriter DEF ChainInv, WritersContinue
    <3>2. \A i \in Nat : ByOther(v, e, i) => ByOther(v, e, i)'
      BY <1>0, <2>1, <2>2, <3>1 DEF ByOther, TypeOK
    <3>3. CASE e # d
      <4>1. rows'[e] = rows[e]
        BY <2>5, <3>1, <3>3
      <4>2. \A i \in held.sequence_number .. Len(rows[e]) : ByOther(v, e, i)'
        BY <3>1, <3>2 DEF Continues, Row, AnchorRow
      <4>. QED BY <3>1, <4>1, <4>2 DEF Continues, ByOther
    <3>4. CASE e = d
      <4>1. Len(rows'[d]) = Len(rows[d]) + 1
        BY <2>2, <2>5
      <4>2. /\ held.sequence_number \in 1 .. Len(rows[d]) + 1
            /\ held.previous_hash = ExpectedPrevious(rows[d], held.sequence_number)
            /\ \A i \in held.sequence_number .. Len(rows[d]) : ByOther(v, d, i)
        BY <3>1, <3>4 DEF Continues
      <4>3. ExpectedPrevious(rows'[d], held.sequence_number) =
              ExpectedPrevious(rows[d], held.sequence_number)
        BY <2>2, <2>5, <4>2 DEF ExpectedPrevious
      <4>4. \E c \in committed'[e] :
              /\ c.anchor.sequence_number = Len(rows[d]) + 1
              /\ c.by \in Writers /\ Home[c.by] # Home[v]
        <5>1. [anchor |-> anchor, by |-> w] \in committed'[d]
          BY <1>0, <2>1, <2>2 DEF TypeOK
        <5>. QED BY <2>6, <2>8, <3>1, <3>4, <5>1
      <4>5. ASSUME NEW i \in held.sequence_number .. Len(rows'[e])
            PROVE  \E c \in committed'[e] :
                     /\ c.anchor.sequence_number = i
                     /\ c.by \in Writers /\ Home[c.by] # Home[v]
        <5>1. i \in Nat /\ (i \in held.sequence_number .. Len(rows[d]) \/ i = Len(rows[d]) + 1)
          BY <2>2, <3>1, <3>4, <4>1, <4>2
        <5>2. CASE i = Len(rows[d]) + 1
          BY <4>4, <5>2
        <5>3. CASE i \in held.sequence_number .. Len(rows[d])
          BY <3>1, <3>2, <3>4, <4>2, <5>1, <5>3 DEF ByOther
        <5>. QED BY <5>1, <5>2, <5>3
      <4>6. writer'[v].deal = e /\ writer'[v].anchor = held
        BY <3>1
      <4>7. /\ held.sequence_number \in 1 .. Len(rows'[e]) + 1
            /\ held.previous_hash = ExpectedPrevious(rows'[e], held.sequence_number)
        BY <2>2, <3>4, <4>1, <4>2, <4>3
      <4>. QED BY <4>5, <4>6, <4>7 DEF Continues, ByOther
    <3>. QED BY <3>3, <3>4
  <2>. QED BY <2>1, <2>4, <2>7, <2>8 DEF WritersContinue
<1>3. ASSUME NEW w \in Writers, Collide(w) \/ Rollback(w)
      PROVE  LockHeld' /\ WritersContinue' /\ ChainVerifies'
  <2>1. /\ writer[w].pc = "insert"
        /\ rows' = rows /\ committed' = committed /\ edits' = edits
        /\ lock' = [lock EXCEPT ![Home[w]] = None]
        /\ writer' = [writer EXCEPT ![w] = Idle]
    BY <1>3 DEF Collide, Rollback, Release
  <2>2. ASSUME NEW v \in Writers, writer'[v].pc = "insert"
        PROVE  /\ writer'[v] = writer[v] /\ writer[v].pc = "insert"
               /\ Home[v] # Home[w]
    <3>1. v # w /\ writer'[v] = writer[v]
      BY <1>0, <2>1, <2>2 DEF Idle, TypeOK
    <3>. QED BY <2>1, <2>2, <3>1 DEF ChainInv, LockHeld
  <2>3. LockHeld'
    BY <1>0, <2>1, <2>2 DEF ChainInv, LockHeld, TypeOK
  <2>4. WritersContinue'
    BY <2>1, <2>2 DEF ChainInv, WritersContinue, Continues, ByOther
  <2>5. ChainVerifies'
    BY <2>1 DEF ChainInv, ChainVerifies
  <2>. QED BY <2>3, <2>4, <2>5
<1>4. ASSUME NEW d \in Deals, NEW i \in 1 .. Len(rows[d]),
             DeleteRow(d, i) \/ \E p \in Payloads : EditRow(d, i, p)
      PROVE  LockHeld' /\ WritersContinue' /\ ChainVerifies'
  <2>1. edits' # 0 /\ lock' = lock /\ writer' = writer
    BY <1>0, <1>4 DEF DeleteRow, EditRow, TypeOK
  <2>. QED BY <2>1 DEF ChainInv, LockHeld, WritersContinue, ChainVerifies
<1>5. ASSUME UNCHANGED vars
      PROVE  LockHeld' /\ WritersContinue' /\ ChainVerifies'
  BY <1>5 DEF vars, ChainInv, LockHeld, WritersContinue, Continues, ByOther, ChainVerifies
<1>. QED BY <1>0, <1>1, <1>2, <1>3, <1>4, <1>5 DEF Next, ChainInv

\* The chains of an undamaged table verify, for any number of processes.
THEOREM ChainsVerify == Spec => []ChainVerifies
<1>1. ChainInv => ChainVerifies
  BY DEF ChainInv
<1>. QED BY ChainInit, ChainStep, <1>1, PTL DEF Spec

LEMMA CollisionSafety == ChainInv => OnlyOtherProcessesCollide
<1>. SUFFICES ASSUME ChainInv, NEW w \in Writers, edits = 0, writer[w].pc = "insert",
                     ~Unique(writer[w].deal, writer[w].anchor)
              PROVE  \E c \in committed[writer[w].deal] :
                       /\ c.anchor.sequence_number = writer[w].anchor.sequence_number
                       /\ Home[c.by] # Home[w]
  BY DEF OnlyOtherProcessesCollide
<1>. DEFINE d == writer[w].deal
            anchor == writer[w].anchor
<1>1. TypeOK /\ d \in Deals /\ anchor \in Row /\ WellFormed(d, anchor)
  BY BusyWriter DEF ChainInv, EvidenceInv, AnchorsWellFormed
<1>2. Verifies(d, rows[d]) /\ Continues(w)
  BY <1>1 DEF ChainInv, ChainVerifies, WritersContinue
<1>3. anchor.sequence_number \in 1 .. Len(rows[d])
  BY <1>1, <1>2, RefusedNumber
<1>4. ByOther(w, d, anchor.sequence_number)
  BY <1>1, <1>2, <1>3 DEF Continues, TypeOK
<1>. QED BY <1>4 DEF ByOther

\* The lock leaves only other processes to collide with.
THEOREM OthersCollide == Spec => []OnlyOtherProcessesCollide
BY ChainInit, ChainStep, CollisionSafety, PTL DEF Spec

=============================================================================
