--------------------------- MODULE ChallengeWalk ---------------------------
(***************************************************************************)
(* The walk of a verifier down the tree of a wrong proposal: the loop of   *)
(* getChallengeOrDefeatForProposal, with a proposer that answers every     *)
(* challenge from its own snapshot (GetArtifactsForChallengeResponse) for  *)
(* as long as the contract can take the answer.                            *)
(***************************************************************************)
EXTENDS VotingTree, FiniteSets

CONSTANTS
    Sizes,        \* numbers of nodes in a snapshot
    Powers,       \* voting powers of a node
    MaxPerRound,  \* bound on the levels per round, Nat
    MaxLies       \* bound on the nodes the proposer gets wrong, Nat

ASSUME WalkAssumption ==
    /\ Sizes \subseteq Nat \ {0, 1}
    /\ Powers \subseteq Nat
    /\ MaxPerRound \in Nat \ {0}
    /\ MaxLies \in Nat \ {0}

VARIABLES
    truth,     \* the voting info snapshot of the proposal's block
    claim,     \* the snapshot the proposer made its trees from
    perRound,  \* levels per round, a setting of the protocol
    at,        \* index of the last root that was submitted
    accused    \* the artifacts found below it, Unchecked before

Unchecked == [index |-> -2]

walkVars == <<truth, claim, perRound, at, accused>>

\* Every node votes itself or delegates to the last one.
Snapshots(n) ==
    {[k \in 1..n |-> [power |-> p[k], delegate |-> IF k \in voters THEN k ELSE n]] :
        p \in [1..n -> Powers], voters \in SUBSET (1..n)}

\* Snapshots that differ from a given one in a few nodes.
Lies(s) ==
    UNION {{[k \in DOMAIN s |-> IF k \in wrong THEN lie[k] ELSE s[k]] :
                lie \in [wrong -> [power : Powers, delegate : {Len(s)} \cup wrong]]} :
           wrong \in {w \in SUBSET DOMAIN s : Cardinality(w) \in 1..MaxLies}}

Pollard(snapshot, v) == generatePollard(TreeOf(snapshot, v, perRound), v)

Root(snapshot) == CreateNetworkVotingTree(snapshot, perRound).nodes[1]

\* The proposal, whose root is compared with the local one.
WalkInit ==
    /\ perRound \in 1..MaxPerRound
    /\ \E n \in Sizes : truth \in Snapshots(n)
    /\ claim \in Lies(truth)
    /\ Root(claim) # Root(truth)
    /\ at = 1
    /\ accused = Unchecked

Check ==
    /\ accused = Unchecked
    /\ accused' = CheckForChallengeableArtifacts(
                      TreeOf(truth, at, perRound), at, Pollard(claim, at))
    /\ UNCHANGED <<truth, claim, perRound, at>>

\* Is an index that of a leaf of a node tree, the end of the walk?
AtTheBottom(v) == v >= FirstLeaf(truth) * FirstLeaf(truth)

(* submitRoot.  At the bottom the contract knows the node's voting power   *)
(* itself and takes no other answer.                                       *)
Respond ==
    /\ accused.index > 0
    /\ ~AtTheBottom(accused.index)
    /\ at' = accused.index
    /\ accused' = Unchecked
    /\ UNCHANGED <<truth, claim, perRound>>

(* The proposer cannot answer: the challenge stays open until the window   *)
(* has passed.  A walk that stopped anywhere else would be a deadlock.     *)
Defeated ==
    /\ accused.index > 0
    /\ AtTheBottom(accused.index)
    /\ UNCHANGED walkVars

WalkNext == Check \/ Respond \/ Defeated

WalkSpec == WalkInit /\ [][WalkNext]_walkVars
-----------------------------------------------------------------------------
(* Folding the partners of a proof into its node, from the bottom up, as a *)
(* verifier of the proof does.                                             *)
FoldProof(node, index, proof) ==
    LET fold[k \in 0..Len(proof)] ==
            IF k = 0 THEN node
            ELSE IF (index \div 2^(k - 1)) % 2 = 0
                 THEN getParentNodeFromChildren(fold[k - 1], proof[k])
                 ELSE getParentNodeFromChildren(proof[k], fold[k - 1])
    IN  fold[Len(proof)]

(* Every round of a walk that starts at a wrong root finds a challenge     *)
(* below the last root, no more levels down than a round has, and proves   *)
(* what the proposer claimed there: folding the artifacts of               *)
(* getArtifactsForChallenge gives the root of the proposer's pollard.  So  *)
(* the walk never ends in "Do nothing if the prop can't be challenged",    *)
(* the "cycle error" or a pollard of another size, also not across the     *)
(* boundary between the network tree and a node tree, and gets to a leaf.  *)
EveryRoundIsProvable ==
    accused # Unchecked =>
        /\ accused.index > at
        /\ LET up == Len(accused.proof)
           IN  /\ accused.index \div 2^up = at
               /\ up <= perRound
               /\ FoldProof(accused.node, accused.index, accused.proof)
                  = CreateTreeFromLeaves(Pollard(claim, at), 1, perRound).nodes[1]

(* The end of the walk is a true accusation: a node whose voting power, or *)
(* whose delegate, the proposer got wrong, at the place the index stands   *)
(* for.                                                                    *)
TrueAccusation ==
    accused.index > 0 /\ AtTheBottom(accused.index) =>
        LET first == FirstLeaf(truth)
            delegate == (accused.index \div first) - first + 1
            node == (accused.index % first) + 1
            Given(s) == IF node <= Len(s) /\ s[node].delegate = delegate
                        THEN s[node].power ELSE 0
        IN  Given(truth) # Given(claim) /\ accused.node = LeafNode(Given(claim))
=============================================================================
