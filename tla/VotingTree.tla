----------------------------- MODULE VotingTree -----------------------------
(***************************************************************************)
(* The Merkle-sum trees of services/proposals: the network tree, with the  *)
(* voting power delegated to every node, and below each of its leaves a    *)
(* node tree, with the power of that leaf's delegators.  Together they are *)
(* one big tree with "virtual" indices, 1 at the root and 2i, 2i+1 below   *)
(* i; each tree is stored as an array with its own "local" indices.        *)
(*                                                                         *)
(* A snapshot is a sequence, one record per Rocket Pool node: its own      *)
(* voting power and the position of its delegate.  A hash is the sequence  *)
(* of the balances below it: two hashes of one level are equal iff what is *)
(* hashed is.                                                              *)
(***************************************************************************)
EXTENDS Integers, Sequences

FloorLog2(n) == CHOOSE k \in 0..n : 2^k <= n /\ n < 2^(k + 1)

CeilLog2(n) == CHOOSE k \in 0..n : n <= 2^k /\ \A j \in 0..(k - 1) : 2^j < n

getHashForBalance(balance) == <<balance>>

LeafNode(balance) == [sum |-> balance, hash |-> getHashForBalance(balance)]

getParentNodeFromChildren(l, r) ==
    [sum |-> l.sum + r.sum, hash |-> l.hash \o r.hash]

(* The nodes of a tree whose first leaf has the index first: the leaves,   *)
(* padded with empty ones, and every parent made from its two children.    *)
TreeNodes(leaves, first) ==
    LET node[i \in 1..2 * first - 1] ==
            IF i < first THEN getParentNodeFromChildren(node[2 * i], node[2 * i + 1])
            ELSE IF i - first < Len(leaves) THEN leaves[i - first + 1]
            ELSE LeafNode(0)
    IN  node

\* There are as many places for leaves as the next power of two.
CreateTreeFromLeaves(leaves, virtualRoot, perRound) ==
    LET depth == CeilLog2(Len(leaves))
    IN  [depth |-> depth, root |-> virtualRoot, perRound |-> perRound,
         nodes |-> TreeNodes(leaves, 2^depth)]

(***************************************************************************)
(* Indices.                                                                *)
(***************************************************************************)
getLocalIndexFromVirtualIndex(tree, v) ==
    IF tree.root = 1 THEN v ELSE (v \div tree.root) + (v % tree.root)

getVirtualIndexFromLocalIndex(local, virtualRoot) ==
    LET firstOfLevel == 2^FloorLog2(local)
    IN  IF virtualRoot = 1 THEN local
        ELSE firstOfLevel * virtualRoot + (local - firstOfLevel)

FirstLeaf(snapshot) == 2^CeilLog2(Len(snapshot))

getTreeNodeIndexFromRPNodeIndex(snapshot, n) == FirstLeaf(snapshot) + n

\* The leaf of the network tree that an index is, or is below.
LeafAbove(first, v) ==
    LET leaf[i \in 0..v] == IF i > 2 * first - 1 THEN leaf[i \div 2] ELSE i
    IN  leaf[v]

\* Counted from 0, as in the code; -1 for an index of the network tree.
getRPNodeIndexFromTreeNodeIndex(snapshot, v) ==
    LET first == FirstLeaf(snapshot)
    IN  IF v < first THEN -1 ELSE LeafAbove(first, v) - first

(***************************************************************************)
(* The trees of a snapshot.                                                *)
(***************************************************************************)
\* What the first k nodes of the snapshot delegate to node n, for every k.
DelegatedTo(snapshot, n) ==
    LET power[k \in 0..Len(snapshot)] ==
            IF k = 0 THEN 0
            ELSE power[k - 1] + (IF snapshot[k].delegate = n THEN snapshot[k].power ELSE 0)
    IN  power

CreateNetworkVotingTree(snapshot, perRound) ==
    CreateTreeFromLeaves(
        [n \in 1..Len(snapshot) |-> LeafNode(DelegatedTo(snapshot, n)[Len(snapshot)])],
        1, perRound)

\* A leaf of the network tree that is padding belongs to nobody.
CreateNodeVotingTree(snapshot, n, virtualRoot, perRound) ==
    CreateTreeFromLeaves(
        [k \in 1..Len(snapshot) |->
            LeafNode(IF snapshot[k].delegate = n + 1 THEN snapshot[k].power ELSE 0)],
        virtualRoot, perRound)

\* Mutant: every node tree is rooted at the first leaf.
TreeOfMutant(snapshot, v, perRound) ==
    LET n == getRPNodeIndexFromTreeNodeIndex(snapshot, v)
    IN  IF n = -1 THEN CreateNetworkVotingTree(snapshot, perRound)
        ELSE CreateNodeVotingTree(snapshot, n, FirstLeaf(snapshot), perRound)

\* "Get the proper tree" for an index.
TreeOf(snapshot, v, perRound) ==
    LET n == getRPNodeIndexFromTreeNodeIndex(snapshot, v)
    IN  IF n = -1 THEN CreateNetworkVotingTree(snapshot, perRound)
        ELSE CreateNodeVotingTree(snapshot, n,
                 getTreeNodeIndexFromRPNodeIndex(snapshot, n), perRound)

(***************************************************************************)
(* Pollards, proofs and challenges.                                        *)
(***************************************************************************)
\* How far below the node at a local index its pollard is.
RelativeDepth(tree, index) ==
    LET level == FloorLog2(index)
        clamped == IF level + tree.perRound <= tree.depth
                   THEN level + tree.perRound ELSE tree.depth
    IN  clamped - level

generatePollard(tree, v) ==
    LET index == getLocalIndexFromVirtualIndex(tree, v)
        size == 2^RelativeDepth(tree, index)
    IN  SubSeq(tree.nodes, index * size, index * size + size - 1)

generateMerkleProof(tree, local) ==
    LET partner(i) == IF i % 2 = 0 THEN i + 1 ELSE i - 1
    IN  [k \in 1..FloorLog2(local) |-> tree.nodes[partner(local \div 2^(k - 1))]]

\* Mutant: the index is taken for one of an array that starts at 0.
ZeroBasedArtifacts(tree, v) ==
    LET target == getLocalIndexFromVirtualIndex(tree, v)
    IN  [index |-> v, node |-> tree.nodes[target - 1],
         proof |-> generateMerkleProof(tree, target)]

getArtifactsForChallenge(tree, v) ==
    LET target == getLocalIndexFromVirtualIndex(tree, v)
    IN  [index |-> v, node |-> tree.nodes[target],
         proof |-> generateMerkleProof(tree, target)]

(* What node n, counted from 0, votes with: the power at the root of its   *)
(* own tree, and a proof of its leaf in the network tree.                  *)
GetArtifactsForVoting(snapshot, n, perRound) ==
    LET index == getTreeNodeIndexFromRPNodeIndex(snapshot, n)
    IN  [power |-> CreateNodeVotingTree(snapshot, n, index, perRound).nodes[1].sum,
         node  |-> n,
         proof |-> generateMerkleProof(CreateNetworkVotingTree(snapshot, perRound), index)]

NoChallenge == [index |-> 0]

SizeMismatch == [index |-> -1]

\* The virtual index of the k-th node of a pollard.
PollardIndex(size, k, virtualRoot) ==
    getVirtualIndexFromLocalIndex(size + k - 1, virtualRoot)

CheckForChallengeableArtifacts(tree, v, proposed) ==
    LET local == generatePollard(tree, v)
        wrong == {k \in DOMAIN local : local[k] # proposed[k]}
        k == CHOOSE j \in wrong : \A i \in wrong : j <= i
        subtree == CreateTreeFromLeaves(proposed, v, tree.perRound)
    IN  IF Len(local) # Len(proposed) THEN SizeMismatch
        ELSE IF wrong = {} THEN NoChallenge
        ELSE getArtifactsForChallenge(subtree, PollardIndex(Len(local), k, v))
=============================================================================
