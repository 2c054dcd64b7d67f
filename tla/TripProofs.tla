-------------------------------- MODULE TripProofs --------------------------------
(***************************************************************************)
(* What anchored batches are for: proveMoment of gps/query/proof-api.ts    *)
(* rebuilds the Merkle tree of the batch around an instant from the        *)
(* archive (PgPingSource) and has TripLogAnchor.verifyPing check one ping  *)
(* of it against the root on the chain (AnchorPipeline).                   *)
(*                                                                         *)
(* A hash is collision free: it is the record of what was hashed, a ping   *)
(* or a pair, and a sorted pair is the pair as a set.                      *)
(***************************************************************************)
EXTENDS AnchorPipeline

Leaf(t) == [ping |-> t]
Node(a, b) == [pair |-> {a, b}]

\* The leaf of each ping, in the order of time.
Leaves(pings) ==
  [i \in 1 .. Cardinality(pings) |->
     Leaf(CHOOSE t \in pings : Cardinality({u \in pings : u < t}) = i - 1)]

\* merkletreejs with sortPairs: an odd node goes up as it is.
Parents(layer) ==
  [i \in 1 .. (Len(layer) + 1) \div 2 |->
     IF 2 * i <= Len(layer) THEN Node(layer[2 * i - 1], layer[2 * i]) ELSE layer[2 * i - 1]]

\* Layer 0 holds the leaves.  As many layers as leaves are enough: above the root,
\* a layer is the root again.
Layers(leaves) ==
  LET layer[k \in 0 .. Len(leaves)] == IF k = 0 THEN leaves ELSE Parents(layer[k - 1])
  IN layer
RootOf(leaves) == Layers(leaves)[Len(leaves)][1]

MutSibling(i) == i + 1
Sibling(i) == IF i % 2 = 1 THEN i + 1 ELSE i - 1

\* getProof: the sibling of each hash from leaf i to the root, if it has one.
StepUp(layer, p) ==
  [at |-> (p.at + 1) \div 2,
   proof |-> IF Sibling(p.at) <= Len(layer) THEN Append(p.proof, layer[Sibling(p.at)])
             ELSE p.proof]
Climb(leaves, i) ==
  LET path[k \in 0 .. Len(leaves)] ==
        IF k = 0 THEN [at |-> i, proof |-> <<>>]
        ELSE StepUp(Layers(leaves)[k - 1], path[k - 1])
  IN path
ProofFor(leaves, i) == Climb(leaves, i)[Len(leaves)].proof

\* verifyPing: what is computed from the leaf and the first k hashes of a proof.
Computed(leaf, proof) ==
  LET computed[k \in 0 .. Len(proof)] ==
        IF k = 0 THEN leaf ELSE Node(computed[k - 1], proof[k])
  IN computed
VerifyPing(root, leaf, proof) == Computed(leaf, proof)[Len(proof)] = root

--------------------------------------------------------------------------------
\* batchPingsAt: the newest anchored row around t, and all pings of its window.
Around(t) == {i \in DOMAIN rows : /\ rows[i].index # Unanchored
                                  /\ rows[i].batch.from <= t /\ t <= rows[i].batch.to}
RowAt(t) == rows[Max(Around(t))]
BatchPings(t) == {u \in archive : RowAt(t).batch.from <= u /\ u <= RowAt(t).batch.to}

Distance(t, u) == IF t < u THEN u - t ELSE t - u
\* The ping nearest to t, the earlier of two.
Target(t) ==
  Min({u \in BatchPings(t) : \A v \in BatchPings(t) : Distance(t, u) <= Distance(t, v)})

\* No row, or an index the chain does not have (getBatch reverts): no answer.
Answered(t) == Around(t) # {} /\ RowAt(t).index < Len(chain)
Anchored(t) == chain[RowAt(t).index + 1]

VerifiedOnChain(t) ==
  LET tree == Leaves(BatchPings(t))
      i == CHOOSE n \in DOMAIN tree : tree[n] = Leaf(Target(t))
  IN VerifyPing(RootOf(Leaves(Anchored(t).pings)), Leaf(Target(t)), ProofFor(tree, i))

--------------------------------------------------------------------------------
\* A proof that verifies is of a ping that the batch on the chain holds; and as long
\* as nothing failed and no ping came late into the window, every instant of an
\* anchored window is proved: rows are given the index of their own batch though
\* markAnchored only takes the oldest, and the tree rebuilt is the tree anchored.
CameLate(t) == \E u \in BatchPings(t) : u \notin RowAt(t).batch.pings
ProofsVerify ==
  \A t \in Ts : Answered(t) =>
     /\ VerifiedOnChain(t) => Target(t) \in Anchored(t).pings
     /\ faults = 0 /\ ~CameLate(t) => VerifiedOnChain(t)

\* merkle-batcher.ts:6 "One root per hour proves every ping in that hour": a ping of
\* an anchored batch can be proved from then on, though offline devices replay.
BatchStaysProvable ==
  \A t \in Ts : (Answered(t) /\ t \in RowAt(t).batch.pings) => VerifiedOnChain(t)
================================================================================
