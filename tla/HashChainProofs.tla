-------------------------- MODULE HashChainProofs --------------------------
(***************************************************************************)
(* Lemmas about the operators of HashChain, for chains of any length over  *)
(* any sets of deals and payloads.  Both modules that hold chains, the     *)
(* ledger on its own and the deal service, rest on them.                   *)
(***************************************************************************)
EXTENDS HashChain, TLAPS

\* A digest extended is a digest.
LEMMA AnchorHashType ==
  ASSUME NEW D, NEW P, NEW d \in D, NEW n \in Nat,
         NEW previous \in Digest(D, P), NEW p \in P
  PROVE  AnchorHash(d, n, previous, p) \in Digest(D, P)
BY DEF AnchorHash, Digest

\* The hash of an anchor determines its number, predecessor and payload: what
\* makes a hash chain tamper evident.
LEMMA AnchorHashInjective ==
  ASSUME NEW D, NEW P, NEW d \in D,
         NEW m \in Nat, NEW n \in Nat,
         NEW s \in Digest(D, P), NEW t \in Digest(D, P),
         NEW p \in P, NEW q \in P,
         AnchorHash(d, m, s, p) = AnchorHash(d, n, t, q)
  PROVE  m = n /\ p = q
<1>1. Len(Append(s, <<d, m, p>>)) = Len(s) + 1 /\ Len(Append(t, <<d, n, q>>)) = Len(t) + 1
  BY DEF Digest
<1>2. Len(s) = Len(t)
  BY <1>1 DEF AnchorHash, Digest
<1>3. /\ Append(s, <<d, m, p>>)[Len(s) + 1] = <<d, m, p>>
      /\ Append(t, <<d, n, q>>)[Len(t) + 1] = <<d, n, q>>
  BY DEF Digest
<1>4. <<d, m, p>> = <<d, n, q>>
  BY <1>2, <1>3 DEF AnchorHash
<1>. QED BY <1>4

\* The anchor that `append' derives from the rows of a deal is a row.
LEMMA NextAnchorType ==
  ASSUME NEW D, NEW P, NEW d \in D, NEW chain \in Seq(AnchorRow(D, P)), NEW p \in P
  PROVE  NextAnchor(d, chain, p) \in AnchorRow(D, P)
<1>1. NextNumber(chain) \in Nat
  <2>1. CASE chain = << >>
    BY <2>1 DEF NextNumber
  <2>2. CASE chain # << >>
    <3>1. chain[Len(chain)] \in AnchorRow(D, P)
      BY <2>2
    <3>. QED BY <2>2, <3>1 DEF NextNumber, AnchorRow
  <2>. QED BY <2>1, <2>2
<1>2. PreviousHash(chain) \in Digest(D, P)
  <2>1. CASE chain = << >>
    BY <2>1 DEF PreviousHash, Genesis, Digest
  <2>2. CASE chain # << >>
    <3>1. chain[Len(chain)] \in AnchorRow(D, P)
      BY <2>2
    <3>. QED BY <2>2, <3>1 DEF PreviousHash, AnchorRow
  <2>. QED BY <2>1, <2>2
<1>3. AnchorHash(d, NextNumber(chain), PreviousHash(chain), p) \in Digest(D, P)
  BY <1>1, <1>2, AnchorHashType
<1>. QED BY <1>1, <1>2, <1>3 DEF NextAnchor, Anchor, AnchorRow

\* An anchor carries the digest of its own fields.
WellFormed(d, anchor) ==
  anchor.current_hash =
    AnchorHash(d, anchor.sequence_number, anchor.previous_hash, anchor.payload_hash)

\* What `append' builds is well-formed.
LEMMA NextAnchorWellFormed ==
  ASSUME NEW d, NEW chain, NEW p
  PROVE  WellFormed(d, NextAnchor(d, chain, p))
BY DEF WellFormed, NextAnchor, Anchor

\* What `append' derives from a chain that verifies continues the whole chain.
LEMMA NextAnchorContinues ==
  ASSUME NEW S, NEW d, NEW chain \in Seq(S), Verifies(d, chain), NEW p
  PROVE  /\ NextAnchor(d, chain, p).sequence_number = Len(chain) + 1
         /\ NextAnchor(d, chain, p).previous_hash = ExpectedPrevious(chain, Len(chain) + 1)
<1>1. NextNumber(chain) = Len(chain) + 1
  BY DEF NextNumber, Verifies
<1>2. PreviousHash(chain) = ExpectedPrevious(chain, Len(chain) + 1)
  BY DEF PreviousHash, ExpectedPrevious
<1>. QED BY <1>1, <1>2 DEF NextAnchor, Anchor

\* An anchor that continues the whole chain keeps it verifying.
LEMMA AppendVerifies ==
  ASSUME NEW S, NEW d, NEW chain \in Seq(S), Verifies(d, chain),
         NEW anchor \in S, WellFormed(d, anchor),
         anchor.sequence_number = Len(chain) + 1,
         anchor.previous_hash = ExpectedPrevious(chain, Len(chain) + 1)
  PROVE  Verifies(d, Append(chain, anchor))
<1>. DEFINE longer == Append(chain, anchor)
<1>1. SUFFICES ASSUME NEW i \in 1 .. Len(longer)
               PROVE  /\ longer[i].sequence_number = i
                      /\ longer[i].previous_hash = ExpectedPrevious(longer, i)
                      /\ longer[i].current_hash =
                           AnchorHash(d, i, ExpectedPrevious(longer, i), longer[i].payload_hash)
  BY DEF Verifies
<1>2. i \in 1 .. Len(chain) + 1
  OBVIOUS
<1>3. ExpectedPrevious(longer, i) = ExpectedPrevious(chain, i)
  BY <1>2 DEF ExpectedPrevious
<1>4. CASE i \in 1 .. Len(chain)
  <2>1. longer[i] = chain[i]
    BY <1>4
  <2>. QED BY <1>3, <1>4, <2>1 DEF Verifies
<1>5. CASE i = Len(chain) + 1
  <2>1. longer[i] = anchor
    BY <1>5
  <2>. QED BY <1>3, <1>5, <2>1 DEF WellFormed
<1>. QED BY <1>2, <1>4, <1>5

\* `append' keeps a chain verifying.
LEMMA NextAnchorVerifies ==
  ASSUME NEW D, NEW P, NEW d \in D, NEW chain \in Seq(AnchorRow(D, P)),
         Verifies(d, chain), NEW p \in P
  PROVE  Verifies(d, Append(chain, NextAnchor(d, chain, p)))
BY NextAnchorType, NextAnchorWellFormed, NextAnchorContinues, AppendVerifies

\* Two anchors of a deal that carry the digests of their own fields and agree
\* on number, predecessor and digest also agree on the payload.
LEMMA PayloadBound ==
  ASSUME NEW D, NEW P, NEW d \in D,
         NEW row \in AnchorRow(D, P), WellFormed(d, row),
         NEW anchor \in AnchorRow(D, P), WellFormed(d, anchor),
         anchor.sequence_number = row.sequence_number,
         anchor.previous_hash = row.previous_hash,
         anchor.current_hash = row.current_hash
  PROVE  anchor = row
<1>1. AnchorHash(d, row.sequence_number, row.previous_hash, anchor.payload_hash) =
        AnchorHash(d, row.sequence_number, row.previous_hash, row.payload_hash)
  BY DEF WellFormed
<1>2. /\ row.sequence_number \in Nat
      /\ row.previous_hash \in Digest(D, P)
      /\ row.payload_hash \in P
      /\ anchor.payload_hash \in P
  BY DEF AnchorRow
<1>3. anchor.payload_hash = row.payload_hash
  BY <1>1, <1>2, AnchorHashInjective
<1>. QED BY <1>3 DEF AnchorRow
============================================================================
