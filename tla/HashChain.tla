----------------------------- MODULE HashChain -----------------------------
(***************************************************************************)
(* The per-deal hash chain of trust_infrastructure/ledger.py as operators  *)
(* on a sequence of anchors: the rows of one deal in the order of their    *)
(* sequence numbers.  SHA-256 over canonical JSON is taken to be free of   *)
(* collisions, so a digest is modelled by what went into it: the digest of *)
(* <deal, number, previous, payload> is `previous' with one entry more,    *)
(* and two digests are equal exactly when all their inputs are.            *)
(***************************************************************************)
EXTENDS Naturals, Sequences

\* The digests and anchor rows over given sets of deals and payloads.
Digest(deals, payloads) == Seq(deals \X Nat \X payloads)

AnchorRow(deals, payloads) ==
  [sequence_number : Nat,
   previous_hash   : Digest(deals, payloads),
   payload_hash    : payloads,
   current_hash    : Digest(deals, payloads)]

\* GENESIS_HASH: the previous hash of a deal's first anchor, no digest.
Genesis == << >>

\* The digest an anchor carries: it binds the deal, the position, the
\* predecessor and the payload.
AnchorHash(deal, number, previous, payload) ==
  Append(previous, <<deal, number, payload>>)

\* The record `append' builds.
Anchor(deal, number, previous, payload) ==
  [sequence_number |-> number,
   previous_hash   |-> previous,
   payload_hash    |-> payload,
   current_hash    |-> AnchorHash(deal, number, previous, payload)]

\* What `append' derives from the latest row of the deal, or from its absence.
NextNumber(chain) ==
  IF chain = << >> THEN 1 ELSE chain[Len(chain)].sequence_number + 1

\* Bug: the new anchor is not linked to the latest one.
UnlinkedHash(chain) == Genesis

PreviousHash(chain) ==
  IF chain = << >> THEN Genesis ELSE chain[Len(chain)].current_hash

NextAnchor(deal, chain, payload) ==
  Anchor(deal, NextNumber(chain), PreviousHash(chain), payload)

\* The hash the row at position i must name as its predecessor.
ExpectedPrevious(chain, i) ==
  IF i = 1 THEN Genesis ELSE chain[i - 1].current_hash

\* Bug: the digests are compared with each other but not recomputed.
VerifiesLinks(deal, chain) ==
  \A i \in 1 .. Len(chain) :
    /\ chain[i].sequence_number = i
    /\ chain[i].previous_hash = ExpectedPrevious(chain, i)

\* `verify': positions count from 1 without a gap, every row names its
\* predecessor, and every digest is the one recomputed from the row's payload.
Verifies(deal, chain) ==
  \A i \in 1 .. Len(chain) :
    /\ chain[i].sequence_number = i
    /\ chain[i].previous_hash = ExpectedPrevious(chain, i)
    /\ chain[i].current_hash =
         AnchorHash(deal, i, ExpectedPrevious(chain, i), chain[i].payload_hash)
============================================================================
