---------------------------- MODULE AnchorLedger ----------------------------
(***************************************************************************)
(* DatabaseHashChainAnchor: the table ledger_anchors under concurrent      *)
(* appends.  A writer is one coroutine inside `append'.  It holds the      *)
(* _append_lock of its own process from before it reads the latest row     *)
(* until its transaction has committed or failed.  Processes share only    *)
(* the database, whose unique constraint on (deal_id, sequence_number) is  *)
(* all that orders writers of different processes.  The rows can also be   *)
(* damaged behind the program's back: the runbook tells operators never to *)
(* edit or delete one and to verify the chain after a restore.             *)
(***************************************************************************)
EXTENDS HashChain, FiniteSets

CONSTANTS
  Deals,
  Payloads,     \* purchase intents to be anchored
  Processes,    \* instances of the service on one database
  Writers,      \* coroutines inside append
  Home,         \* the process each writer runs in
  None,         \* no holder, no deal
  MaxAnchors,   \* bound: appended rows per deal
  MaxFaults,    \* bound: failed transactions
  MaxEdits      \* bound: rows damaged from outside

ASSUME LedgerAssumption ==
  /\ Home \in [Writers -> Processes]
  /\ None \notin Writers \cup Deals \cup Payloads
  /\ MaxAnchors \in Nat /\ MaxFaults \in Nat /\ MaxEdits \in Nat

VARIABLES
  rows,       \* per deal: the stored anchors, ordered by sequence_number
  lock,       \* per process: the writer holding _append_lock, or None
  writer,     \* per writer: where it is in append, and the anchor it built
  committed,  \* history: per deal, every anchor committed, and by whom
  faults,
  edits

vars == <<rows, lock, writer, committed, faults, edits>>

Idle == [pc |-> "idle", deal |-> None, anchor |-> None]

Row == AnchorRow(Deals, Payloads)

Busy == [pc : {"insert"}, deal : Deals, anchor : Row]

TypeOK ==
  /\ rows \in [Deals -> Seq(Row)]
  /\ lock \in [Processes -> Writers \cup {None}]
  /\ writer \in [Writers -> Busy \cup {Idle}]
  /\ committed \in [Deals -> SUBSET [anchor : Row, by : Writers]]
  /\ faults \in 0 .. MaxFaults
  /\ edits \in 0 .. MaxEdits

Init ==
  /\ rows = [d \in Deals |-> << >>]
  /\ lock = [p \in Processes |-> None]
  /\ writer = [w \in Writers |-> Idle]
  /\ committed = [d \in Deals |-> {}]
  /\ faults = 0
  /\ edits = 0

-----------------------------------------------------------------------------
\* Bug: the latest row is read without the lock.
ReadLatestUnlocked(w, d, p) ==
  /\ writer[w] = Idle
  /\ Cardinality(committed[d]) < MaxAnchors
  /\ lock' = [lock EXCEPT ![Home[w]] = w]
  /\ writer' = [writer EXCEPT ![w] =
       [pc |-> "insert", deal |-> d, anchor |-> NextAnchor(d, rows[d], p)]]
  /\ UNCHANGED <<rows, committed, faults, edits>>

\* append, up to session.add: take the lock, read the latest row, build the
\* next anchor from it.
ReadLatest(w, d, p) ==
  /\ writer[w] = Idle
  /\ lock[Home[w]] = None
  /\ Cardinality(committed[d]) < MaxAnchors
  /\ lock' = [lock EXCEPT ![Home[w]] = w]
  /\ writer' = [writer EXCEPT ![w] =
       [pc |-> "insert", deal |-> d, anchor |-> NextAnchor(d, rows[d], p)]]
  /\ UNCHANGED <<rows, committed, faults, edits>>

\* Bug: the writer is not reset.
ReleaseDirty(w) ==
  /\ lock' = [lock EXCEPT ![Home[w]] = None]
  /\ writer' = [writer EXCEPT ![w].deal = None]

\* Leaving the two contexts of append: the session ends, then the lock.
Release(w) ==
  /\ lock' = [lock EXCEPT ![Home[w]] = None]
  /\ writer' = [writer EXCEPT ![w] = Idle]

\* Bug: there are no unique constraints.
Unconstrained(d, anchor) == TRUE

\* uq_anchor_deal_sequence and uq_anchor_deal_hash.
Unique(d, anchor) ==
  \A i \in 1 .. Len(rows[d]) :
    /\ rows[d][i].sequence_number # anchor.sequence_number
    /\ rows[d][i].current_hash # anchor.current_hash

\* append: the transaction commits, and the caller gets the anchor.
Commit(w) ==
  LET d == writer[w].deal
      anchor == writer[w].anchor
  IN /\ writer[w].pc = "insert"
     /\ Unique(d, anchor)
     /\ rows' = [rows EXCEPT ![d] = Append(@, anchor)]
     /\ committed' = [committed EXCEPT ![d] =
          @ \cup {[anchor |-> anchor, by |-> w]}]
     /\ Release(w)
     /\ UNCHANGED <<faults, edits>>

\* append: a row of another process took the number; the insert raises.
Collide(w) ==
  /\ writer[w].pc = "insert"
  /\ ~Unique(writer[w].deal, writer[w].anchor)
  /\ Release(w)
  /\ UNCHANGED <<rows, committed, faults, edits>>

\* append: the database fails the transaction, which leaves no row.
Rollback(w) ==
  /\ writer[w].pc = "insert"
  /\ faults < MaxFaults
  /\ faults' = faults + 1
  /\ Release(w)
  /\ UNCHANGED <<rows, committed, edits>>

\* Outside the program: the payload hash of a stored row is overwritten, and
\* nothing else.  (Who can compute the unkeyed hash of the row as well is not
\* modelled.)
EditRow(d, i, p) ==
  /\ edits < MaxEdits
  /\ rows[d][i].payload_hash # p
  /\ rows' = [rows EXCEPT ![d][i].payload_hash = p]
  /\ edits' = edits + 1
  /\ UNCHANGED <<lock, writer, committed, faults>>

\* Outside the program: a stored row is deleted.
DeleteRow(d, i) ==
  /\ edits < MaxEdits
  /\ rows' = [rows EXCEPT ![d] =
       [j \in 1 .. Len(@) - 1 |-> IF j < i THEN @[j] ELSE @[j + 1]]]
  /\ edits' = edits + 1
  /\ UNCHANGED <<lock, writer, committed, faults>>

Next ==
  \/ \E w \in Writers :
       \/ \E d \in Deals, p \in Payloads : ReadLatest(w, d, p)
       \/ Commit(w)
       \/ Collide(w)
       \/ Rollback(w)
  \/ \E d \in Deals : \E i \in 1 .. Len(rows[d]) :
       \/ \E p \in Payloads : EditRow(d, i, p)
       \/ DeleteRow(d, i)

Spec == Init /\ [][Next]_vars

-----------------------------------------------------------------------------
\* While nobody edits rows, every chain verifies, however many processes
\* append to it: the constraint refuses the row that would fork the chain.
ChainVerifies ==
  edits = 0 => \A d \in Deals : Verifies(d, rows[d])

\* A chain that verifies holds only anchors the program itself committed, at
\* the position they were committed for: a payload hash overwritten in place,
\* or a hole, shows.  (It shows for those two faults only.  The hash has no key,
\* so a last row rewritten with its current_hash recomputed verifies in
\* ledger.py, and so does a chain cut short at its end: nothing remembers how
\* long it was.)
TamperEvident ==
  \A d \in Deals :
    Verifies(d, rows[d]) =>
      \A i \in 1 .. Len(rows[d]) :
        /\ rows[d][i].sequence_number = i
        /\ \E c \in committed[d] : c.anchor = rows[d][i]

\* The lock of a process serialises its appends from read to commit: when the
\* anchor a writer is about to insert is refused, a writer of another process
\* has committed its number.  One process alone never sees an append refused.
OnlyOtherProcessesCollide ==
  \A w \in Writers :
    (edits = 0 /\ writer[w].pc = "insert" /\ ~Unique(writer[w].deal, writer[w].anchor))
      => \E c \in committed[writer[w].deal] :
           /\ c.anchor.sequence_number = writer[w].anchor.sequence_number
           /\ Home[c.by] # Home[w]
=============================================================================
