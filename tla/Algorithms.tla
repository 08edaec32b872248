----------------------------- MODULE Algorithms ------------------------------
(***************************************************************************)
(* The pure algorithms the other modules rest on, checked on every         *)
(* sequence of digits up to a length: the Merkle tree and the Winternitz   *)
(* signature of crypto.py, the parallel Merkle root of performance.py and  *)
(* the stake-weighted choice of a proposer of consensus.py.                *)
(*                                                                         *)
(* A hash is the term that was hashed (a leaf, the padding, two digests    *)
(* put together): two are equal only if they are of the same thing.  A     *)
(* value of a Winternitz chain is its height above the private key, all    *)
(* that hashing forwards can change.  A loop is a function of the number   *)
(* of its rounds, bounded by what its input allows.                        *)
(***************************************************************************)
EXTENDS Integers, Sequences, FiniteSets, SequencesExt

CONSTANTS
    W,                   \* Winternitz parameter, digits are 0 .. W - 1 (16 in the code)
    Len1, Len2,          \* message and checksum chains (64 and 3)
    MaxLength,           \* bound: the longest input
    MERKLE_BATCH_SIZE,   \* (10000)
    LeastChunks,         \* smallest chunks of a worker, in pairs (1000)
    WorkerCounts         \* num_workers (at least 2, a quarter of the processors)

ASSUME SizesAssumption ==
    /\ W \in Nat /\ Len1 \in Nat /\ Len2 \in Nat /\ MaxLength \in Nat /\ MERKLE_BATCH_SIZE \in Nat
    /\ LeastChunks \subseteq Nat \ {0} /\ WorkerCounts \subseteq Nat \ {0}

\* b ^ n; for b = 2 and 16 the code shifts bits
Power(b, n) == LET power[k \in 0 .. n] == IF k = 0 THEN 1 ELSE b * power[k - 1] IN power[n]

\* The checksum of a digest fits into its chains: 64 * 15 < 16^3 in the code.
ASSUME WotsAssumption == W > 1 /\ Len1 * (W - 1) < Power(W, Len2)

Digits == 0 .. W - 1

VARIABLE input   \* leaves, stakes in validator order, or the digits of a message hash

AlgorithmsInit == input = <<>>
Extend(d) == Len(input) < MaxLength /\ input' = Append(input, d)
AlgorithmsNext == \E d \in Digits : Extend(d)
AlgorithmsSpec == AlgorithmsInit /\ [][AlgorithmsNext]_input

\* sha3_256
HashLeaf(x) == <<"leaf", x>>
HashPad == <<"pad">>
HashPair(l, r) == <<"pair", l, r>>

------------------------------------------------------------------------------
(* MerkleTree: the tree is the sequence of its levels, leaves first.       *)

\* n.bit_length()
BitLength(n) == CHOOSE k \in 0 .. n : n < Power(2, k) /\ \A j \in 0 .. k - 1 : Power(2, j) <= n

NextPow2(n) == Power(2, BitLength(n - 1))

Padded(leaves) ==
    [i \in 1 .. NextPow2(Len(leaves)) |-> IF i <= Len(leaves) THEN HashLeaf(leaves[i]) ELSE HashPad]

\* The digests of the pairs of a level of even length
HashPairs(level) == [i \in 1 .. Len(level) \div 2 |-> HashPair(level[2 * i - 1], level[2 * i])]

\* One test and round of the loop of _build_tree
NextLevel(tree) ==
    IF Len(Last(tree)) > 1 THEN Append(tree, HashPairs(Last(tree))) ELSE tree

\* There are fewer rounds than leaves.
BuildTree(leaves) ==
    LET tree[k \in 0 .. Len(leaves)] == IF k = 0 THEN <<Padded(leaves)>> ELSE NextLevel(tree[k - 1])
    IN  tree[Len(leaves)]

TreeRoot(tree) == Last(tree)[1]

\* The index of the sibling of idx (from 0): idx ^ 1
Sibling(idx) == IF idx % 2 = 0 THEN idx + 1 ELSE idx - 1

\* Fault: the side is taken from the leaf's index on every level.
ProofFromLeafSide(tree, index) ==
    [k \in 1 .. Len(tree) - 1 |->
        LET idx == index \div Power(2, k - 1)
        IN  [sibling |-> tree[k][Sibling(idx) + 1], is_right |-> index % 2 = 1]]

\* For the leaf at index, from 0
GetProof(tree, index) ==
    [k \in 1 .. Len(tree) - 1 |->
        LET idx == index \div Power(2, k - 1)
        IN  [sibling |-> tree[k][Sibling(idx) + 1], is_right |-> idx % 2 = 1]]

HashUp(current, step) ==
    IF step.is_right THEN HashPair(step.sibling, current) ELSE HashPair(current, step.sibling)

\* From the digest on.  The code hashes the leaf first unless it has 32 bytes, which it
\* takes for a digest; its callers pass digests.
VerifyProof(digest, proof, root) ==
    LET current[k \in 0 .. Len(proof)] == IF k = 0 THEN digest ELSE HashUp(current[k - 1], proof[k])
    IN  current[Len(proof)] = root

------------------------------------------------------------------------------
(* ParallelMerkleTree: its leaves are digests, an odd level is completed   *)
(* with its last digest, and there are no pads.                            *)

Evened(level) == IF Len(level) % 2 = 1 THEN Append(level, Last(level)) ELSE level

\* One test and round of the loop of _compute_root_sequential
HashLevel(level) == IF Len(level) > 1 THEN HashPairs(Evened(level)) ELSE level

ComputeRootSequential(leaves) ==
    LET current[k \in 0 .. Len(leaves)] == IF k = 0 THEN leaves ELSE HashLevel(current[k - 1])
    IN  current[Len(leaves)][1]

\* _hash_chunk: a digest without a partner is hashed with itself
HashChunk(pairs) == HashPairs(Evened(pairs))

ChunkSize(level, least, workers) ==
    LET share == Len(level) \div (2 * workers) IN IF share > least THEN share ELSE least

\* Cuts a level into pieces of `stride' digests; the last may be shorter
Cut(level, stride) ==
    [i \in 1 .. (Len(level) + stride - 1) \div stride |->
        SubSeq(level, (i - 1) * stride + 1,
               IF i * stride < Len(level) THEN i * stride ELSE Len(level))]

\* Fault: a chunk takes chunk_size digests of every chunk_size pairs.
ChunksOfDigests(level, least, workers) ==
    LET size == ChunkSize(level, least, workers)
        cut == Cut(level, 2 * size)
    IN  [i \in DOMAIN cut |-> SubSeq(cut[i], 1, IF Len(cut[i]) < size THEN Len(cut[i]) ELSE size)]

Chunks(level, least, workers) == Cut(level, 2 * ChunkSize(level, least, workers))

\* The results are joined in the order the chunks were submitted, whichever ends first.
HashInChunks(level, least, workers) ==
    LET chunks == Chunks(Evened(level), least, workers)
    IN  IF Len(level) > 1 THEN FlattenSeq([i \in DOMAIN chunks |-> HashChunk(chunks[i])]) ELSE level

ComputeRootParallel(leaves, least, workers) ==
    LET current[k \in 0 .. Len(leaves)] ==
            IF k = 0 THEN leaves ELSE HashInChunks(current[k - 1], least, workers)
    IN  current[Len(leaves)][1]

\* For at least one leaf; without any the root is 32 zero bytes.
ComputeRoot(leaves, least, workers) ==
    IF Len(leaves) = 1 THEN leaves[1]
    ELSE IF Len(leaves) <= MERKLE_BATCH_SIZE THEN ComputeRootSequential(leaves)
    ELSE ComputeRootParallel(leaves, least, workers)

------------------------------------------------------------------------------
(* WOTSPlus, for a message whose hash has the Len1 digits of `chunks'.     *)

Total(s) == SumFunction(s)

\* Fault: the digits themselves are added up, not what they leave of the chains.
SumOfDigits(chunks) == Total(chunks)

Checksum(chunks) == Total([i \in DOMAIN chunks |-> W - 1 - chunks[i]])

\* With the checksum's Len2 digits, most significant first
AllChunks(chunks) ==
    chunks \o [k \in 1 .. Len2 |-> (Checksum(chunks) \div Power(W, Len2 - k)) % W]

\* Every chain hashed on by d[i] steps
HashChains(chains, d) == [i \in DOMAIN chains |-> chains[i] + d[i]]

PrivateKey == [i \in 1 .. Len1 + Len2 |-> 0]
PublicKey == HashChains(PrivateKey, [i \in 1 .. Len1 + Len2 |-> W - 1])

Sign(chunks) == HashChains(PrivateKey, AllChunks(chunks))

WotsVerify(chunks, signature) ==
    LET all == AllChunks(chunks)
    IN  HashChains(signature, [i \in DOMAIN all |-> W - 1 - all[i]]) = PublicKey

------------------------------------------------------------------------------
(* The proposer of a round: validators in the order of their ids, with     *)
(* stakes[i], and target = selection_value % total_stake.                  *)

Cumulative(stakes, i) == SumFunctionOnSet(stakes, 1 .. i)

\* Fault: a validator also takes the first target after its share.
ReachedNotPassed(stakes, target) ==
    CHOOSE i \in DOMAIN stakes :
        /\ Cumulative(stakes, i) >= target
        /\ \A j \in 1 .. i - 1 : Cumulative(stakes, j) < target

ExpectedProposer(stakes, target) ==
    CHOOSE i \in DOMAIN stakes :
        /\ Cumulative(stakes, i) > target
        /\ \A j \in 1 .. i - 1 : Cumulative(stakes, j) <= target

------------------------------------------------------------------------------
(* Properties *)

AlgorithmsTypeOK == input \in Seq(Digits) /\ Len(input) <= MaxLength

\* The root of a complete tree, from the top down: the digest of the roots of its halves
RootOf(digests, height) ==
    LET root[k \in 0 .. height] ==
            [low \in Nat |-> IF k = 0 THEN digests[low + 1]
                             ELSE HashPair(root[k - 1][low], root[k - 1][low + Power(2, k - 1)])]
    IN  root[height][0]

\* The proof MerkleTree.get_proof returns for a leaf is accepted for the digest of that
\* leaf and for no other digest of the tree, pads and inner nodes included, whatever
\* the number of leaves; and the root is that of the complete tree over the padded leaves.
MerkleProofsExact ==
    input # <<>> =>
        LET tree == BuildTree(input)
        IN  /\ TreeRoot(tree) = RootOf(Padded(input), BitLength(Len(input) - 1))
            /\ \A i \in 0 .. Len(input) - 1 :
                  \A digest \in UNION {Range(tree[k]) : k \in DOMAIN tree} :
                      VerifyProof(digest, GetProof(tree, i), TreeRoot(tree))
                         <=> digest = HashLeaf(input[i + 1])

\* Above the batch size ParallelMerkleTree computes the same root as below it, however
\* the chunks divide the levels: no chunk boundary separates the two digests of a pair,
\* and only the last digest of an odd level is hashed with itself.
ParallelRootIsSequential ==
    input # <<>> =>
        \A least \in LeastChunks, workers \in WorkerCounts :
            LET leaves == [i \in DOMAIN input |-> HashLeaf(input[i])]
            IN  ComputeRoot(leaves, least, workers) = ComputeRootSequential(leaves)

\* A WOTS+ signature is accepted for the message hash it was made for and no other, and
\* it cannot be hashed on into a signature of another: at least one chain would have
\* to go back (the checksum is there for this).
SignatureOfOneDigest ==
    Len(input) = Len1 =>
        \A other \in [1 .. Len1 -> Digits] :
            LET signature == Sign(input)
            IN  /\ WotsVerify(other, signature) <=> other = input
                /\ other # input => \E i \in DOMAIN signature : Sign(other)[i] < signature[i]

\* Of the targets 0 .. total_stake - 1 each validator is selected for as many as it has
\* stake: none without stake is selected, and no share is off by one.
SelectionProportional ==
    \A i \in DOMAIN input :
        Cardinality({t \in 0 .. Total(input) - 1 : ExpectedProposer(input, t) = i}) = input[i]
==============================================================================
